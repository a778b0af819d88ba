----------------------------- MODULE PilotStores -----------------------------
(***************************************************************************)
(* The deployments of the pilot in the two repositories, the one of SQLite *)
(* and the one in memory: creation, activation, rollback, bindings of      *)
(* orders, faults that pause the pilot and the account, and the operator's *)
(* commands. The same calls are made to both, by callers that may have     *)
(* read the rows before others changed them.                               *)
(***************************************************************************)
EXTENDS Integers, Sequences, FiniteSets, FiniteSetsExt, SequencesExt

CONSTANTS Deployments, Accounts, Orders, BindingIds, Faults, \* Faults: [id, reason, intent]
          Calls,     \* the calls made
          MaxTime,   \* bound: the times calls carry
          MaxCalls,  \* bound: calls
          Overlap    \* whether calls run between the two halves of a fault in memory

StoresAssumption == MaxTime \in Nat /\ MaxCalls \in Nat /\ Overlap \in BOOLEAN

VARIABLES
  mem, db,  \* [deps, states, audit, bindings, op, faults]
  seen,     \* the rows a caller has read: [id, dep, version, op]
  pend,     \* at most one fault in memory between its reads and its writes
  last,     \* what both answered
  count

vars == <<mem, db, seen, pend, last, count>>

-----------------------------------------------------------------------------
(***************************************************************************)
(* Rows                                                                    *)
(***************************************************************************)

None == [account |-> "none", phase |-> "NONE", act |-> 0, created |-> 0, updated |-> 0]
EmptyState == [version |-> 0, at |-> 0, flat |-> TRUE]
Pausable == {"PENDING_FLAT", "ACTIVE", "DRAINING"}
\* isRollbackCompletablePhase
Completable == {"PENDING_FLAT", "ACTIVE", "DRAINING"}
Stopped == {"PAUSED", "KILL_SWITCHED"}

\* validateCandidatePilotDeployment
ValidDeployment(dep) ==
  /\ dep.updated >= dep.created
  /\ dep.phase \in {"ACTIVE", "DRAINING"} => dep.act # 0

New(account, t) == [account |-> account, phase |-> "PENDING_FLAT", act |-> 0, created |-> t, updated |-> t]

NoKey == [id |-> "none", reason |-> "none", intent |-> FALSE]  \* of events other than faults
Event(id, type, from, to, version, at, key) ==
  [id |-> id, type |-> type, from |-> from, to |-> to, version |-> version, at |-> at, key |-> key]

Answer(store, kind, value) == [store |-> store, kind |-> kind, value |-> value]
Error(store) == Answer(store, "error", {})
Null(store) == Answer(store, "null", {})

EventsOf(audit, id) == {e \in ToSet(audit) : e.id = id}

\* selectLatestAuditTimestamp
LatestAudit(audit, id) == Max({e.at : e \in EventsOf(audit, id)})

-----------------------------------------------------------------------------
(***************************************************************************)
(* Creation. A call c: [id, account, at]                                   *)
(***************************************************************************)

Inserted(s, c) ==
  [s EXCEPT !.deps[c.id] = New(c.account, c.at), !.states[c.id] = EmptyState,
            !.audit = Append(@, Event(c.id, "DEPLOYMENT_CREATED", "NONE", "PENDING_FLAT", 0, c.at, NoKey))]

OfAccount(s, account) == {i \in Deployments : s.deps[i].account = account}

MemCreate(m, c) ==
  IF m.deps[c.id] # None \/ OfAccount(m, c.account) # {} THEN Error(m)
  ELSE Answer(Inserted(m, c), "row", {New(c.account, c.at)})

\* PRIMARY KEY (id), UNIQUE (exchange_account_id, pilot_id).
DbCreate(d, c) ==
  IF d.deps[c.id] # None \/ OfAccount(d, c.account) # {} THEN Error(d)
  ELSE Answer(Inserted(d, c), "row", {New(c.account, c.at)})

\* The rows an initializer goes on with.
BootstrapAuthority(s, outcome, id) ==
  Answer(s, outcome, {<<s.deps[id], s.states[id], EventsOf(s.audit, id)>>})

MemInitialize(m, c) ==
  LET existing == IF m.deps[c.id] # None THEN {c.id} ELSE OfAccount(m, c.account)
  IN IF m.deps[c.id] # None /\ m.deps[c.id].account # c.account THEN Error(m)
     ELSE IF existing # {} THEN BootstrapAuthority(m, "EXISTING", CHOOSE i \in existing : TRUE)
     ELSE BootstrapAuthority(Inserted(m, c), "CREATED", c.id)

\* selectBootstrapExistingDeploymentRow: by its id, or the first of its account.
BootstrapExisting(d, c) ==
  IF d.deps[c.id] # None THEN {c.id} ELSE {i \in OfAccount(d, c.account) :
    \A j \in OfAccount(d, c.account) : d.deps[i].created <= d.deps[j].created}

DbInitialize(d, c) ==
  LET existing == BootstrapExisting(d, c)
  IN IF d.deps[c.id] # None /\ d.deps[c.id].account # c.account THEN Error(d)
     ELSE IF \E i \in existing : ~ValidDeployment(d.deps[i]) THEN Error(d)
     ELSE IF existing # {} THEN BootstrapAuthority(d, "EXISTING", CHOOSE i \in existing : TRUE)
     ELSE BootstrapAuthority(Inserted(d, c), "CREATED", c.id)

-----------------------------------------------------------------------------
(***************************************************************************)
(* Activation and rollback. A call c: [id, phase, updated, version, op, at]*)
(* what the caller has read, and when it acts                              *)
(***************************************************************************)

Phased(s, id, phase, at, type) ==
  [s EXCEPT !.deps[id] = [@ EXCEPT !.phase = phase, !.updated = at, !.act = IF type = "PHASE_TRANSITION" THEN at ELSE @],
            !.audit = Append(@, Event(id, type, s.deps[id].phase, phase, s.states[id].version, at, NoKey))]

\* validateActivationInput
ActivationInOrder(dep, at) == at >= dep.created /\ at >= dep.updated

MemActivate(m, c) ==
  LET dep == m.deps[c.id]
  IN IF dep = None \/ dep.phase # c.phase \/ dep.updated # c.updated \/ dep.act # 0 THEN Null(m)
     ELSE IF ~ActivationInOrder(dep, c.at) THEN Error(m)
     ELSE LET next == Phased(m, c.id, "ACTIVE", c.at, "PHASE_TRANSITION") IN Answer(next, "row", {next.deps[c.id]})

DbActivate(d, c) ==
  LET dep == d.deps[c.id]
  IN IF dep = None \/ dep.phase # c.phase \/ dep.updated # c.updated \/ dep.act # 0 THEN Null(d)
     ELSE IF ~ActivationInOrder(dep, c.at) THEN Error(d)
     ELSE LET next == Phased(d, c.id, "ACTIVE", c.at, "PHASE_TRANSITION") IN Answer(next, "row", {next.deps[c.id]})

\* matchesCandidatePilotRollbackOperatorState
OperatorMatches(op, c) == op = c.op /\ op.status \in Stopped

\* The rows are as the caller read them and the operator has stopped the account.
RollbackAuthority(s, c, phases) ==
  LET dep == s.deps[c.id] IN
  /\ dep # None /\ c.phase \in phases /\ dep.phase = c.phase /\ dep.updated = c.updated
  /\ s.states[c.id].version = c.version /\ dep.account = c.op.account /\ OperatorMatches(s.op, c)

\* validateCandidatePilotRollbackInput: the operator state expected is a stopped one.
RollbackInput(c) == c.op.status \in Stopped

\* validateCandidatePilotRollbackChronology
RollbackInOrder(dep, state, at) ==
  at >= dep.created /\ at >= dep.updated /\ at >= state.at /\ (dep.phase = "DRAINING" => at > dep.updated)

MemRollback(m, c, complete) ==
  LET next == IF complete THEN Phased(m, c.id, "DISABLED", c.at, "ROLLBACK_COMPLETED")
              ELSE Phased(m, c.id, "DRAINING", c.at, "ROLLBACK_STARTED")
  IN IF ~RollbackInput(c) THEN Error(m)
     ELSE IF ~RollbackAuthority(m, c, IF complete THEN Completable ELSE {"ACTIVE"}) THEN Null(m)
     ELSE IF ~RollbackInOrder(m.deps[c.id], m.states[c.id], c.at) THEN Error(m)
     ELSE IF complete /\ ~m.states[c.id].flat THEN Error(m)
     ELSE Answer(next, "row", {next.deps[c.id]})

DbStartRollback(d, c) ==
  LET next == Phased(d, c.id, "DRAINING", c.at, "ROLLBACK_STARTED")
  IN IF ~RollbackInput(c) THEN Error(d)
     ELSE IF ~RollbackAuthority(d, c, {"ACTIVE"}) THEN Null(d)
     ELSE IF ~RollbackInOrder(d.deps[c.id], d.states[c.id], c.at) THEN Error(d)
     ELSE Answer(next, "row", {next.deps[c.id]})

DbCompleteRollback(d, c) ==
  LET next == Phased(d, c.id, "DISABLED", c.at, "ROLLBACK_COMPLETED")
  IN IF ~RollbackInput(c) THEN Error(d)
     ELSE IF ~RollbackAuthority(d, c, Completable) THEN Null(d)
     ELSE IF ~RollbackInOrder(d.deps[c.id], d.states[c.id], c.at) \/ ~d.states[c.id].flat THEN Error(d)
     ELSE Answer(next, "row", {next.deps[c.id]})

-----------------------------------------------------------------------------
(***************************************************************************)
(* Evidence and bindings                                                   *)
(***************************************************************************)

\* advanceStateWithEvidence, with its replay (CandidateLedger) reduced to what it does to the
\* version and the position.
Advanced(s, c) ==
  LET state == s.states[c.id]
      phase == s.deps[c.id].phase
  IN IF s.deps[c.id] = None \/ state.version # c.version \/ c.at <= state.at THEN Error(s)
     ELSE Answer([s EXCEPT !.states[c.id] = [version |-> state.version + 1, at |-> c.at, flat |-> ~state.flat],
                           !.audit = Append(@, Event(c.id, "STATE_ADVANCED", phase, phase, state.version + 1, c.at, NoKey))],
                 "row", {state.version + 1})

\* validateCandidateExecutionBinding; b: [key, id, account, order, act, created]
ValidBinding(b) == b.created > b.act

\* Only an active or draining deployment binds, and only with its own activation.
Binds(s, b) ==
  /\ s.deps[b.id].account = b.account /\ s.deps[b.id].phase \in {"ACTIVE", "DRAINING"}
  /\ s.deps[b.id].act # 0 /\ b.act = s.deps[b.id].act

MemBind(m, b) ==
  LET ofOrder == {x \in m.bindings : x.order = b.order}
      sameKey == {x \in m.bindings : x.key = b.key}
  IN IF ~ValidBinding(b) \/ ~Binds(m, b) THEN Error(m)
     ELSE IF ofOrder # {} THEN IF ofOrder = {b} THEN Answer(m, "row", {b}) ELSE Error(m)
     ELSE IF sameKey # {} THEN Error(m)
     ELSE Answer([m EXCEPT !.bindings = @ \cup {b}], "row", {b})

\* ON CONFLICT(order_id) DO NOTHING, then the row is read back; id is the primary key.
DbBind(d, b) ==
  LET conflict == {x \in d.bindings : x.order = b.order}
      rows == IF conflict = {} THEN d.bindings \cup {b} ELSE d.bindings
      persisted == {x \in rows : x.order = b.order}
  IN IF ~ValidBinding(b) \/ ~Binds(d, b) THEN Error(d)
     ELSE IF conflict = {} /\ \E x \in d.bindings : x.key = b.key THEN Error(d)
     ELSE IF persisted # {b} THEN Error(d)
     ELSE Answer([d EXCEPT !.bindings = rows], "row", {b})

-----------------------------------------------------------------------------
(***************************************************************************)
(* Faults. A call c: [id, account, fault, at]                              *)
(***************************************************************************)

\* resolveCandidateIntentFaultOccurrence: later than all that is persisted.
IntentOccurrence(at, persisted) == IF at <= Max(persisted) THEN Max(persisted) + 1 ELSE at

\* validateCandidatePilotRecoveryFaultChronology
FaultInOrder(at, dep, latest) ==
  IF dep.phase = "DRAINING" THEN at > dep.updated /\ at > latest ELSE at >= dep.updated /\ at >= latest

\* buildCandidatePilotRecoveryFaultAuditEvent
FaultEvent(c, from, version, at) == Event(c.id, "FAULT_PAUSED", from, "PAUSED_FAULT", version, at, c.fault)

\* applyFaultPauseAtomically: the kill switch outlives the fault.
FaultPaused(op, at) ==
  [op EXCEPT !.status = IF op.kill \/ op.status = "KILL_SWITCHED" THEN "KILL_SWITCHED" ELSE "PAUSED",
             !.at = IF at < op.at THEN op.at ELSE at]

\* When it counts as having happened.
Occurred(c, dep, known, latest) ==
  IF ~c.fault.intent THEN c.at
  ELSE IF known # {} THEN Max({e.at : e \in known})
  ELSE IntentOccurrence(c.at, {dep.updated, latest})

\* A fault already recorded is a duplicate only if nothing has changed since.
Duplicate(s, c, dep, version, known, at) ==
  /\ known # {} /\ \E f \in s.faults : f.id = c.fault.id /\ f.reason = c.fault.reason /\ f.account = c.account
  /\ dep.phase = "PAUSED_FAULT" /\ dep.updated = at /\ s.op.status \in Stopped
  /\ \E e \in known : e.from \in Pausable /\ e = FaultEvent(c, e.from, version, at)

\* The phase, the account and both histories change together.
Faulted(s, c, dep, version, at) ==
  [s EXCEPT !.deps[c.id] = [dep EXCEPT !.phase = "PAUSED_FAULT", !.updated = at],
            !.audit = Append(@, FaultEvent(c, dep.phase, version, at)),
            !.op = FaultPaused(@, at),
            !.faults = @ \cup {[id |-> c.fault.id, reason |-> c.fault.reason, account |-> c.account]}]

Knows(events, c) == {e \in events : e.type = "FAULT_PAUSED" /\ e.key.id = c.fault.id}

\* The first half in memory, up to the await.
MemFaultReads(m, c) == [call |-> c, dep |-> m.deps[c.id], version |-> m.states[c.id].version, known |-> Knows(EventsOf(m.audit, c.id), c)]

\* The second half, of the rows read in the first.
MemFaultWrites(m, p) ==
  LET c == p.call
      latest == LatestAudit(m.audit, c.id)
      at == Occurred(c, p.dep, p.known, latest)
      transition == \E f \in m.faults : f.id = c.fault.id
  IN IF p.dep = None \/ p.dep.account # c.account THEN Error(m)
     ELSE IF p.known # {} \/ transition
          THEN IF Duplicate(m, c, p.dep, p.version, p.known, at) THEN Answer(m, "duplicate", {p.dep}) ELSE Error(m)
     ELSE IF p.dep.phase \notin Pausable \/ ~FaultInOrder(at, p.dep, latest) \/ c.account # m.op.account THEN Error(m)
     ELSE LET next == Faulted(m, c, p.dep, p.version, at) IN Answer(next, "row", {next.deps[c.id]})

\* One transaction.
DbFault(d, c) ==
  LET dep == d.deps[c.id]
      version == d.states[c.id].version
      known == Knows(ToSet(d.audit), c)
      latest == LatestAudit(d.audit, c.id)
      at == Occurred(c, dep, known, latest)
  IN IF dep = None \/ dep.account # c.account \/ c.account # d.op.account THEN Error(d)
     ELSE IF known # {} \/ \E f \in d.faults : f.id = c.fault.id
          THEN IF Duplicate(d, c, dep, version, known, at) THEN Answer(d, "duplicate", {dep}) ELSE Error(d)
     ELSE IF dep.phase \notin Pausable \/ ~FaultInOrder(at, dep, latest) THEN Error(d)
     ELSE LET next == Faulted(d, c, dep, version, at) IN Answer(next, "row", {next.deps[c.id]})

-----------------------------------------------------------------------------
(***************************************************************************)
(* The operator's commands                                                 *)
(***************************************************************************)

\* resolveResumedSystemStatus
Resumed(op) == IF op.kill THEN "KILL_SWITCHED" ELSE IF op.degraded THEN "DEGRADED" ELSE "RUNNING"

\* resolveSystemStatusForDegradation
Degraded(op) == IF op.kill THEN "KILL_SWITCHED" ELSE IF op.status \in Stopped THEN op.status ELSE "DEGRADED"

Commanded(op, command, at) ==
  CASE command = "pause" -> [op EXCEPT !.status = IF op.kill THEN "KILL_SWITCHED" ELSE "PAUSED", !.at = at]
    [] command = "resume" -> [op EXCEPT !.status = Resumed(op), !.at = at]
    [] command = "kill" -> [op EXCEPT !.status = "KILL_SWITCHED", !.kill = TRUE, !.at = at]
    [] command = "degrade" -> [op EXCEPT !.status = Degraded(op), !.degraded = TRUE, !.at = at]
    [] command = "clear" -> [op EXCEPT !.status = IF op.status = "DEGRADED" THEN "RUNNING" ELSE @, !.degraded = FALSE, !.at = at]

-----------------------------------------------------------------------------
TheAccount == CHOOSE a \in Accounts : \A b \in Accounts : a = b \/ a = "main"

Init ==
  /\ mem = [deps |-> [i \in Deployments |-> None], states |-> [i \in Deployments |-> EmptyState], audit |-> <<>>, bindings |-> {},
            op |-> [account |-> TheAccount, status |-> "RUNNING", kill |-> FALSE, degraded |-> FALSE, at |-> 0], faults |-> {}]
  /\ db = mem
  /\ seen = {} /\ pend = {} /\ count = 0
  /\ last = [mem |-> Null({}), db |-> Null({})]

\* Both have answered.
Both(m, d) ==
  /\ mem' = m.store /\ db' = d.store
  /\ last' = [mem |-> Answer({}, m.kind, m.value), db |-> Answer({}, d.kind, d.value)]

MayCall(name) == name \in Calls /\ count < MaxCalls /\ (pend = {} \/ Overlap) /\ count' = count + 1

CreateCall ==
  \E i \in Deployments, a \in Accounts, t \in 1 .. MaxTime :
    LET c == [id |-> i, account |-> a, at |-> t] IN
    /\ MayCall("create") /\ Both(MemCreate(mem, c), DbCreate(db, c)) /\ UNCHANGED <<seen, pend>>

InitializeCall ==
  \E i \in Deployments, a \in Accounts, t \in 1 .. MaxTime :
    LET c == [id |-> i, account |-> a, at |-> t] IN
    /\ MayCall("initialize") /\ Both(MemInitialize(mem, c), DbInitialize(db, c)) /\ UNCHANGED <<seen, pend>>

\* A caller reads the rows it will act on.
Read ==
  \E i \in Deployments :
    /\ db.deps[i] # None /\ pend = {}
    /\ seen' = {[id |-> i, phase |-> db.deps[i].phase, updated |-> db.deps[i].updated, act |-> db.deps[i].act,
                 version |-> db.states[i].version, op |-> db.op]}
    /\ seen' # seen
    /\ UNCHANGED <<mem, db, pend, last, count>>

Acting(s, t) == [id |-> s.id, phase |-> s.phase, updated |-> s.updated, version |-> s.version, op |-> s.op, at |-> t]

ActivateCall ==
  \E s \in seen, t \in 1 .. MaxTime :
    /\ MayCall("activate") /\ s.phase = "PENDING_FLAT"
    /\ Both(MemActivate(mem, Acting(s, t)), DbActivate(db, Acting(s, t))) /\ UNCHANGED <<seen, pend>>

StartRollbackCall ==
  \E s \in seen, t \in 1 .. MaxTime :
    /\ MayCall("rollback")
    /\ Both(MemRollback(mem, Acting(s, t), FALSE), DbStartRollback(db, Acting(s, t))) /\ UNCHANGED <<seen, pend>>

CompleteRollbackCall ==
  \E s \in seen, t \in 1 .. MaxTime :
    /\ MayCall("rollback")
    /\ Both(MemRollback(mem, Acting(s, t), TRUE), DbCompleteRollback(db, Acting(s, t))) /\ UNCHANGED <<seen, pend>>

EvidenceCall ==
  \E s \in seen, t \in 1 .. MaxTime :
    /\ MayCall("evidence") /\ s.act # 0
    /\ Both(Advanced(mem, Acting(s, t)), Advanced(db, Acting(s, t))) /\ UNCHANGED <<seen, pend>>

BindCall ==
  \E s \in seen, o \in Orders, k \in BindingIds, t \in 1 .. MaxTime :
    LET b == [key |-> k, id |-> s.id, account |-> TheAccount, order |-> o, act |-> s.act, created |-> t] IN
    /\ MayCall("bind") /\ s.act # 0 /\ Both(MemBind(mem, b), DbBind(db, b)) /\ UNCHANGED <<seen, pend>>

\* In memory a fault is begun; SQLite has not been called yet.
FaultBegins ==
  \E i \in Deployments, f \in Faults, t \in 1 .. MaxTime :
    /\ MayCall("fault") /\ pend = {} /\ mem.deps[i] # None
    /\ pend' = {MemFaultReads(mem, [id |-> i, account |-> TheAccount, fault |-> f, at |-> t])}
    /\ UNCHANGED <<mem, db, seen, last>>

FaultEnds ==
  \E p \in pend :
    /\ Both(MemFaultWrites(mem, p), DbFault(db, p.call))
    /\ pend' = {} /\ UNCHANGED <<seen, count>>

OperatorCall ==
  \E command \in {"pause", "resume", "kill", "degrade", "clear"}, t \in 1 .. MaxTime :
    /\ MayCall(command) /\ t >= db.op.at
    /\ mem' = [mem EXCEPT !.op = Commanded(@, command, t)] /\ db' = [db EXCEPT !.op = Commanded(@, command, t)]
    /\ UNCHANGED <<seen, pend, last>>

Next ==
  \/ CreateCall \/ InitializeCall \/ Read \/ ActivateCall \/ StartRollbackCall \/ CompleteRollbackCall
  \/ EvidenceCall \/ BindCall \/ FaultBegins \/ FaultEnds \/ OperatorCall

Spec == Init /\ [][Next]_vars

-----------------------------------------------------------------------------
(***************************************************************************)
(* Properties                                                              *)
(***************************************************************************)

\* At most one deployment of an account, every row valid, at most one binding of an order.
TypeOK ==
  /\ \A a \in Accounts : Cardinality(OfAccount(db, a)) <= 1
  /\ \A i \in Deployments : db.deps[i] # None => ValidDeployment(db.deps[i])
  /\ \A x, y \in db.bindings : x.order = y.order \/ x.key = y.key => x = y

\* Both answer every call alike, with the same rows.
SameAnswer == last.mem = last.db

\* Both hold the same rows.
SameRows == pend = {} => mem = db

\* The audit trail explains the deployment: every phase it left it had entered by an event not
\* later, the phase it is in is the one no event leaves, entered when the row says, and the
\* activation in the row is the one in the trail.
AuditExplains ==
  \A i \in Deployments : mem.deps[i] # None =>
    LET moves == {e \in EventsOf(mem.audit, i) : e.type # "STATE_ADVANCED"}
        activations == {e \in moves : e.type = "PHASE_TRANSITION"}
    IN /\ \A e \in moves : e.from # "NONE" => \E x \in moves : x.to = e.from /\ x.at <= e.at
       /\ {<<e.to, e.at>> : e \in {e \in moves : ~\E x \in moves : x.from = e.to}} = {<<mem.deps[i].phase, mem.deps[i].updated>>}
       /\ mem.deps[i].act = (IF activations = {} THEN 0 ELSE Max({e.at : e \in activations}))

\* A deployment that stops trading stops while the account is stopped: nobody rolls back a pilot
\* whose operator has resumed since the rollback was decided.
StopsStopped ==
  \A i \in Deployments :
    (db'.deps[i].phase # db.deps[i].phase /\ db'.deps[i].phase \in {"DRAINING", "DISABLED", "PAUSED_FAULT"})
      => db'.op.status \in Stopped

\* A pilot is disabled only without a position, and neither a fault nor a rollback is undone,
\* whoever resumes the account: a disabled or faulted deployment never trades again.
NeverRevived ==
  \A i \in Deployments :
    /\ (db.deps[i].phase \in {"DISABLED", "PAUSED_FAULT"}) => db'.deps[i].phase = db.deps[i].phase
    /\ (db'.deps[i].phase = "DISABLED" /\ db.deps[i].phase # "DISABLED") => db.states[i].flat

\* An order is bound only to a deployment that may trade at that moment, with the activation it
\* has, and stays bound.
BoundWhileTrading ==
  /\ db.bindings \subseteq db'.bindings
  /\ \A b \in db'.bindings \ db.bindings : db.deps[b.id].phase \in {"ACTIVE", "DRAINING"} /\ db.deps[b.id].act = b.act
==============================================================================
