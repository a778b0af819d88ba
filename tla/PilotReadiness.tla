---------------------------- MODULE PilotReadiness ----------------------------
(***************************************************************************)
(* The read-only readiness inspector of the candidate pilot                *)
(* (position-guard-pilot-readiness.ts). It opens the database of a runtime *)
(* that may be running, reads the pilot's rows in one statement after the  *)
(* other without a transaction around them, and validates what it read     *)
(* with checks of its own, which are neither the initializer's nor the     *)
(* recovery service's.                                                     *)
(***************************************************************************)
EXTENDS CandidatePilot

CONSTANT Inspections   \* bound: how many inspections there may be

InspectionsAssumption == Inspections \in Nat

VARIABLES
  insp,    \* the current inspection: its place, clock, selection, copies and statuses
  report   \* the statuses reported so far

Statuses == {"PASS", "WARN", "BLOCK"}
Selections == {"BASELINE", "CANDIDATE"}

NoInspection == [pc |-> "idle", at |-> None, sel |-> "BASELINE", copy |-> NoCopy, chk |-> {}]

-----------------------------------------------------------------------------
(***************************************************************************)
(* The checks, each over an authority d, its evidence E and audit A in     *)
(* their order.                                                            *)
(***************************************************************************)

PlaceOf(A, a) == CHOOSE i \in DOMAIN A : A[i] = a
Before(A, type) == {i \in DOMAIN A : A[i].type = type}
AllBefore(A, type, a) == \A i \in Before(A, type) : i < PlaceOf(A, a)

\* validateAuditRows.
InspectedRows(d, t) ==
  \A a \in d.audit : a.ver <= d.st.ver /\ d.dep.created <= a.at /\ a.at <= t

\* assertCanonicalCreationEvent.
InspectedCreation(d, A) ==
  /\ Of(A, "DEPLOYMENT_CREATED") = <<CreatedEvent(d.dep)>>
  /\ A[1] = CreatedEvent(d.dep)

\* assertCanonicalActivationEvent; activation in the instant of creation is refused.
InspectedActivation(d, A) ==
  /\ Of(A, "PHASE_TRANSITION") = <<ActivationEvent(d.dep)>>
  /\ d.dep.act > d.dep.created

\* assertCanonicalStateEvents.
InspectedAdvances(d, E, A, boundary) ==
  LET advances == Of(A, "STATE_ADVANCED")
      PhaseAt(i) == IF i > boundary THEN "DRAINING" ELSE "ACTIVE"
  IN
  /\ Len(advances) = Len(E) /\ d.st.ver = Len(E)
  /\ \A i \in DOMAIN E :
       /\ PhaseAt(i) = "DRAINING" => E[i].action \in Sells
       /\ advances[i] = AdvancedEvent(E[i], PhaseAt(i), i)
       /\ d.dep.act # None /\ E[i].at > d.dep.act

\* The version the rollback recorded is not compared with the events before it.
WrongInspectedRollback(d, E, A, r) ==
  /\ d.dep.act # None
  /\ r = Event("ROLLBACK_STARTED", r.at, "ACTIVE", "DRAINING", r.ver, 0)
  /\ r.at >= d.dep.act
  /\ Before(A, "PHASE_TRANSITION") # {} /\ AllBefore(A, "PHASE_TRANSITION", r)

\* assertCanonicalRollbackStart, of the one rollback event r.
InspectedRollback(d, E, A, r) ==
  LET preceding == Cardinality({i \in Before(A, "STATE_ADVANCED") : i < PlaceOf(A, r)}) IN
  /\ d.dep.act # None
  /\ r = Event("ROLLBACK_STARTED", r.at, "ACTIVE", "DRAINING", preceding, 0)
  /\ r.at >= d.dep.act
  /\ Before(A, "PHASE_TRANSITION") # {} /\ AllBefore(A, "PHASE_TRANSITION", r)
  /\ \A i \in DOMAIN E : IF i <= preceding THEN E[i].at <= r.at ELSE E[i].at >= r.at

\* assertCanonicalFaultEvent. Fault ids sort before the others of their instant,
\* so a fault in the instant of what it follows is refused.
InspectedFault(d, E, A) ==
  LET faults == Of(A, "FAULT_PAUSED")
      rollbacks == Of(A, "ROLLBACK_STARTED")
      from == IF rollbacks # <<>> THEN "DRAINING" ELSE IF d.dep.act = None THEN "PENDING_FLAT"
              ELSE "ACTIVE"
  IN
  /\ faults = <<Event("FAULT_PAUSED", d.dep.updated, from, "PAUSED_FAULT", d.st.ver, 0)>>
  /\ E # <<>> => faults[1].at >= Last(E).at
  /\ E # <<>> /\ rollbacks # <<>> => faults[1].at > Last(E).at
  /\ AllBefore(A, "ROLLBACK_STARTED", faults[1]) /\ AllBefore(A, "STATE_ADVANCED", faults[1])
  /\ rollbacks = <<>> => AllBefore(A, "PHASE_TRANSITION", faults[1])

\* assertCanonicalRollbackCompletion and isExactRollbackFlat.
InspectedCompletion(d, A) ==
  LET done == Of(A, "ROLLBACK_COMPLETED")
      started == Of(A, "ROLLBACK_STARTED") # <<>>
  IN
  /\ Len(done) = 1 /\ done[1].to = "DISABLED"
  /\ done[1].from \in {"PENDING_FLAT", "ACTIVE", "DRAINING"}
  /\ done[1].ver = d.st.ver /\ done[1].at = d.dep.updated /\ IsFlat(d.st)
  /\ (done[1].from = "DRAINING") <=> started
  /\ done[1].from = "ACTIVE" => d.dep.act # None
  /\ done[1].from = "PENDING_FLAT" => d.dep.act = None
  /\ AllBefore(A, "ROLLBACK_STARTED", done[1]) /\ AllBefore(A, "STATE_ADVANCED", done[1])

\* Neither a fault pause nor a completed rollback is on record.
Unended(A) == Of(A, "FAULT_PAUSED") = <<>> /\ Of(A, "ROLLBACK_COMPLETED") = <<>>

\* assertCanonicalAuditLifecycle.
InspectedLifecycle(d) ==
  LET A == OrderedAudit(d.audit)
      E == Ordered(d.ev)
      rollbacks == Of(A, "ROLLBACK_STARTED")
      Has(type) == Of(A, type) # <<>>
      boundary == IF rollbacks = <<>> THEN Len(E) ELSE rollbacks[1].ver
  IN
  /\ InspectedCreation(d, A)
  /\ IF d.dep.act # None THEN InspectedActivation(d, A)
     ELSE ~Has("PHASE_TRANSITION") /\ E = <<>>
  /\ Len(rollbacks) <= 1
  /\ rollbacks # <<>> => InspectedRollback(d, E, A, rollbacks[1])
  /\ InspectedAdvances(d, E, A, boundary)
  /\ CASE d.dep.phase = "PENDING_FLAT" ->
            /\ d.dep.act = None /\ E = <<>> /\ d.st.ver = 0 /\ d.dep.updated = d.dep.created
            /\ rollbacks = <<>> /\ Unended(A)
       [] d.dep.phase = "ACTIVE" ->
            /\ d.dep.act # None /\ d.dep.updated = d.dep.act /\ rollbacks = <<>>
            /\ Unended(A)
       [] d.dep.phase = "DRAINING" ->
            /\ d.dep.act # None /\ rollbacks # <<>> /\ d.dep.updated = rollbacks[1].at
            /\ Unended(A)
       [] d.dep.phase = "PAUSED_FAULT" ->
            ~Has("ROLLBACK_COMPLETED") /\ InspectedFault(d, E, A)
       [] d.dep.phase = "DISABLED" -> ~Has("FAULT_PAUSED") /\ InspectedCompletion(d, A)

\* inspectAuditChain.
InspectedChain(d, t) == InspectedRows(d, t) /\ InspectedLifecycle(d)

\* The inspector's own copies of the exact replay arithmetic.
InspectedReplay(d) == d.st = Project(d.ev)

\* validateTerminalEvidenceSources: the terminal order row behind an evidence.
SourceOrder(e, row, d, t) ==
  /\ row.status \in {"FILLED", "CANCELED"} /\ row.action = e.action /\ d.dep.act # None
  /\ row.req <= e.at /\ e.at <= row.upd /\ row.upd <= t

\* validateEvidenceStrategyDecision: the bound decision was made and bound before
\* the request (the request is the nanosecond after the binding), in the activation.
SourceDecision(e, row, d, t) == row.req - 1 <= t /\ row.req >= d.dep.act

\* deriveEvidenceFillAggregate: the fills behind the row add up to the evidence.
SourceFills(e, row) ==
  e.exec = row.exec /\ e.exec > 0 /\ e.exec <= row.qty /\ e.at = row.at

Sourced(d, rows, t) ==
  \A e \in d.ev :
    /\ rows[e.id].status # "NONE"
    /\ SourceOrder(e, rows[e.id], d, t) /\ SourceDecision(e, rows[e.id], d, t)
    /\ SourceFills(e, rows[e.id])

\* classifyPhase.
PhaseStatus(phase, sel) ==
  CASE phase = "ACTIVE" -> IF sel = "CANDIDATE" THEN "PASS" ELSE "WARN"
    [] phase \in {"PENDING_FLAT", "DISABLED"} -> "WARN"
    [] OTHER -> "BLOCK"

\* configurationCheck, of a selection validateOptions has admitted.
ConfigurationStatus(sel) == IF sel = "BASELINE" THEN "WARN" ELSE "PASS"

\* buildReport.
Overall(chk) ==
  IF "BLOCK" \in chk THEN "BLOCK" ELSE IF "WARN" \in chk THEN "WARN" ELSE "PASS"

Verdict(holds) == IF holds THEN "PASS" ELSE "BLOCK"

-----------------------------------------------------------------------------
(***************************************************************************)
(* The inspection, read by read.                                           *)
(***************************************************************************)

IInit(init) == init /\ insp = NoInspection /\ report = <<>>

\* The reports are the bound: one for each inspection that ended.
Report(chk) == insp' = NoInspection /\ report' = Append(report, Overall(chk))

\* inspectPositionGuardPilotReadiness up to the schema: the file, the journal mode
\* and the schema are in order (a WAL is only a warning), or everything after is
\* reported BLOCK by addUnavailableChecks.
InspectOpen ==
  /\ insp.pc = "idle" /\ Len(report) < Inspections
  /\ \E sel \in Selections :
       \/ /\ insp' = [NoInspection EXCEPT !.pc = "deployment", !.at = now, !.sel = sel,
                        !.chk = {ConfigurationStatus(sel), "WARN"}]
          /\ UNCHANGED report
       \/ Report({ConfigurationStatus(sel), "BLOCK"})
  /\ UNCHANGED vars

\* inspectDeploymentAndReplay reads the deployment and classifies its phase.
InspectDeployment ==
  /\ insp.pc = "deployment"
  /\ insp' = IF dep = NoDep
             THEN [insp EXCEPT !.pc = "orders",
                     !.chk = @ \cup {IF insp.sel = "BASELINE" THEN "WARN" ELSE "BLOCK"}]
             ELSE [insp EXCEPT !.pc = "state", !.copy.dep = dep,
                     !.chk = @ \cup {PhaseStatus(dep.phase, insp.sel)}]
  /\ UNCHANGED <<vars, report>>

\* inspectReplay: the state row, then the evidence rows, then the source rows.
InspectReplay ==
  /\ \/ /\ insp.pc = "state"
        /\ insp' = [insp EXCEPT !.pc = "evidence", !.copy.st = st]
     \/ /\ insp.pc = "evidence"
        /\ insp' = [insp EXCEPT !.pc = "sources", !.copy.ev = ev]
     \/ /\ insp.pc = "sources"
        /\ insp' = [insp EXCEPT !.pc = "audit", !.copy.ord = ord,
                      !.chk = @ \cup {Verdict(Sourced(insp.copy, ord, insp.at)),
                                      Verdict(InspectedReplay(insp.copy))}]
  /\ UNCHANGED <<vars, report>>

InspectAudit ==
  /\ insp.pc = "audit"
  /\ insp' = [insp EXCEPT !.pc = "orders", !.copy.audit = audit,
                !.chk = @ \cup {Verdict(InspectedChain([insp.copy EXCEPT !.audit = audit], insp.at))}]
  /\ UNCHANGED <<vars, report>>

\* inspectOrders; the snapshots, the reconciliation run and the lease that are
\* read after it are ReadinessReaders'.
InspectOrders ==
  /\ insp.pc = "orders" /\ Report(insp.chk \cup {Verdict(Blocking(0) = {})})
  /\ UNCHANGED vars

Inspect == InspectOpen \/ InspectDeployment \/ InspectReplay \/ InspectAudit \/ InspectOrders

INext == Inspect \/ (Next /\ UNCHANGED <<insp, report>>)

-----------------------------------------------------------------------------
(***************************************************************************)
(* States part way through a pilot's life, where the behaviours start that *)
(* would be too long from its creation.                                    *)
(***************************************************************************)

\* A pilot that entered with its first order: the evidence is projected, the
\* snapshot agrees with it and the account runs.
HeldInit ==
  /\ now = 4 /\ up = TRUE
  /\ dep = [phase |-> "ACTIVE", created |-> 0, updated |-> 0, act |-> 0]
  /\ ev = {[id |-> 1, at |-> 4, action |-> "ENTER", exec |-> 2, rem |-> 2]}
  /\ st = [ver |-> 1, qty |-> 2, last |-> 4, lastId |-> 1]
  /\ audit = {CreatedEvent(dep), ActivationEvent(dep)}
             \cup {AdvancedEvent(e, "ACTIVE", 1) : e \in ev}
  /\ op = [status |-> "RUNNING", at |-> 0]
  /\ ord = [o \in Orders |-> IF o = 1
              THEN [status |-> "FILLED", action |-> "ENTER", qty |-> 2, req |-> 3,
                    exec |-> 2, at |-> 4, mark |-> "none", upd |-> 4]
              ELSE NoOrder]
  /\ ex = [o \in Orders |-> IF o = 1 THEN [state |-> "filled", exec |-> 2, at |-> 4]
                            ELSE NoExchange]
  /\ base = 0 /\ snap = [qty |-> 2, at |-> 4]
  /\ rec = NoRec /\ sub = NoSub /\ prj = Idle /\ left = Budget

\* The same pilot after a rollback began.
DrainingInit ==
  /\ now = 6 /\ up = TRUE
  /\ dep = [phase |-> "DRAINING", created |-> 0, updated |-> 6, act |-> 0]
  /\ ev = {[id |-> 1, at |-> 4, action |-> "ENTER", exec |-> 2, rem |-> 2]}
  /\ st = [ver |-> 1, qty |-> 2, last |-> 4, lastId |-> 1]
  /\ audit = {CreatedEvent(dep), ActivationEvent(dep),
              Event("ROLLBACK_STARTED", 6, "ACTIVE", "DRAINING", 1, 0)}
             \cup {AdvancedEvent(e, "ACTIVE", 1) : e \in ev}
  /\ op = [status |-> "RUNNING", at |-> 6]
  /\ ord = [o \in Orders |-> IF o = 1
              THEN [status |-> "FILLED", action |-> "ENTER", qty |-> 2, req |-> 3,
                    exec |-> 2, at |-> 4, mark |-> "none", upd |-> 4]
              ELSE NoOrder]
  /\ ex = [o \in Orders |-> IF o = 1 THEN [state |-> "filled", exec |-> 2, at |-> 4]
                            ELSE NoExchange]
  /\ base = 0 /\ snap = [qty |-> 2, at |-> 6]
  /\ rec = NoRec /\ sub = NoSub /\ prj = Idle /\ left = Budget

\* A pilot created, activated and entered, one instant after the other, with its
\* exit order open.
EnteredInit ==
  /\ now = 6 /\ up = TRUE
  /\ dep = [phase |-> "ACTIVE", created |-> 0, updated |-> 2, act |-> 2]
  /\ ev = {[id |-> 1, at |-> 6, action |-> "ENTER", exec |-> 2, rem |-> 2]}
  /\ st = [ver |-> 1, qty |-> 2, last |-> 6, lastId |-> 1]
  /\ audit = {CreatedEvent(dep), ActivationEvent(dep)}
             \cup {AdvancedEvent(e, "ACTIVE", 1) : e \in ev}
  /\ op = [status |-> "RUNNING", at |-> 0]
  /\ ord = [o \in Orders |-> IF o = 1
              THEN [status |-> "FILLED", action |-> "ENTER", qty |-> 2, req |-> 5,
                    exec |-> 2, at |-> 6, mark |-> "none", upd |-> 6]
              ELSE [NoOrder EXCEPT !.status = "OPEN", !.action = "EXIT", !.qty = 2,
                                   !.req = 7, !.upd = 7]]
  /\ ex = [o \in Orders |-> IF o = 1 THEN [state |-> "filled", exec |-> 2, at |-> 6]
                            ELSE [NoExchange EXCEPT !.state = "live"]]
  /\ base = 0 /\ snap = [qty |-> 2, at |-> 6]
  /\ rec = NoRec /\ sub = NoSub /\ prj = Idle /\ left = Budget

-----------------------------------------------------------------------------
ITypeOK ==
  /\ insp.pc \in {"idle", "deployment", "state", "evidence", "sources", "audit", "orders"}
  /\ insp.sel \in Selections /\ insp.chk \subseteq Statuses
  /\ \A i \in DOMAIN report : report[i] \in Statuses

\* A history the inspector finds in order was in the database as a whole when its
\* audit was read, although the four reads are separate statements and the runtime
\* writes between them: every transaction leaves an audit event, and the audit is
\* read last.
AcceptedCopyExisted ==
  insp.pc = "audit" /\ insp'.pc = "orders" /\ insp'.chk \subseteq {"PASS", "WARN"} =>
    /\ insp.copy.dep = dep /\ insp.copy.st = st /\ insp.copy.ev = ev

\* What the inspector approves the next start-up keeps, and recovery accepts while
\* the pilot may still trade: three separately written validations of one history.
ApprovedIsKept ==
  dep # NoDep /\ InspectedChain(Authority, now + 1) /\ InspectedReplay(Authority) =>
    /\ InitializerAccepts(Authority, now + 1)
    /\ dep.phase \in {"ACTIVE", "DRAINING", "DISABLED"} => RecoveryAccepts(Authority, now + 1)

\* Projected evidence keeps agreeing with the order row it was projected from,
\* whatever is reconciled, projected or recovered after it.
EvidenceKeepsItsSource == Sourced(Authority, ord, now + 1)

\* When the inspection finds no blocking order, none of the pilot's orders is open
\* on the exchange at that moment: a row is there before the order is sent and
\* stays until the exchange has closed it.
QuietMeansNothingLive == Blocking(0) = {} => \A o \in Orders : ex[o].state # "live"
=============================================================================
