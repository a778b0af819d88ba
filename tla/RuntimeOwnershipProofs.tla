------------------------ MODULE RuntimeOwnershipProofs ------------------------
(***************************************************************************)
(* Proofs about RuntimeOwnership for every set of processes, clock bound,  *)
(* TTL, kinds of start and number of listener failures: type correctness;  *)
(* the ledger of generations and the fenced dispatch; then the handover    *)
(* from one process to the next, what a loss, a stop procedure and a       *)
(* release leave behind; and the refinement of ExecutionFence.             *)
(***************************************************************************)
EXTENDS RuntimeOwnership, TLAPS

-----------------------------------------------------------------------------
(***************************************************************************)
(* Type correctness.                                                       *)
(***************************************************************************)

\* The absence of a row is itself a well-typed row.
LEMMA NoRowType == NoRow \in Row
BY DEF NoRow, Row

\* Every time the clock can show is a natural number.
LEMMA TimeType == Time \subseteq Nat
BY ConstantsAssumption DEF Time

\* The larger of two times or generations bounds both (Math.max in the store).
LEMMA LargerType == \A a, b \in Nat : Larger(a, b) \in Nat /\ Larger(a, b) >= a
                                      /\ Larger(a, b) >= b
                                      /\ (Larger(a, b) = a \/ Larger(a, b) = b)
BY DEF Larger

\* A row expires at a natural time.
LEMMA ExpiryType == \A r \in Row : Expiry(r) \in Nat
BY ConstantsAssumption DEF Row, Expiry

\* markLost keeps the guard well typed, whoever calls it.
LEMMA MarkLostType ==
  ASSUME TypeOK, NEW p \in Proc, NEW reason, NEW rec \in Row,
         NEW next \in Phases, MarkLost(p, reason, rec, next)
  PROVE  /\ status' \in [Proc -> {"UNOWNED", "OWNED", "LOST"}]
         /\ lossReason' \in [Proc -> {"none", "cleanup", "scoped_unquiesced", "lost"}]
         /\ pendingLoss' \in [Proc -> {"none", "loss", "expired"}]
         /\ record' \in [Proc -> Row]
         /\ phase' \in [Proc -> Phases]
<1>1. ReasonClass(reason) \in {"none", "cleanup", "scoped_unquiesced", "lost"}
  BY DEF ReasonClass
<1>2. LossToRecord(p, reason, rec) \in {"none", "loss", "expired"}
  BY DEF LossToRecord, TypeOK
<1>3. PhaseAfterLoss(p, reason, next) \in Phases
  BY DEF PhaseAfterLoss, Phases
<1>4. QED
  BY <1>1, <1>2, <1>3 DEF MarkLost, TypeOK

\* An appended event keeps the log well typed.
LEMMA AppendEventType ==
  ASSUME TypeOK, NEW p \in Proc, NEW g \in Nat, NEW at \in Nat,
         NEW type \in EventTypes,
         AppendEvent(p, g, type, at)
  PROVE  /\ evGen' \in Nat /\ evAt' \in Nat
         /\ events' \subseteq Event
<1>1. evGen' \in Nat /\ evAt' \in Nat
  BY LargerType DEF AppendEvent, TypeOK
<1>2. [gen |-> g, type |-> type, owner |-> p] \in Event
  BY DEF Event
<1>3. QED
  BY <1>1, <1>2 DEF AppendEvent, TypeOK

\* The heartbeat states the actions write directly are well typed.
LEMMA HeartbeatType == /\ NoHeartbeat \in Heartbeat
                       /\ [NoHeartbeat EXCEPT !.st = "scheduled"] \in Heartbeat
BY DEF NoHeartbeat, Heartbeat

\* Before any process starts the state is well typed.
LEMMA TypeInit == Init => TypeOK
BY NoRowType, HeartbeatType DEF Init, TypeOK, Phases

\* A failed start (shutdownAfterStartupFailure) keeps the guard and the stop procedure well typed.
LEMMA FailStartType ==
  ASSUME TypeOK, NEW p \in Proc, NEW reason, NEW rec \in Row,
         FailStart(p, reason, rec)
  PROVE  /\ status' \in [Proc -> {"UNOWNED", "OWNED", "LOST"}]
         /\ lossReason' \in [Proc -> {"none", "cleanup", "scoped_unquiesced", "lost"}]
         /\ pendingLoss' \in [Proc -> {"none", "loss", "expired"}]
         /\ record' \in [Proc -> Row]
         /\ phase' \in [Proc -> Phases]
         /\ path' \in [Proc -> {"runtime", "scoped", "startup"}]
         /\ canRelease' \in [Proc -> BOOLEAN]
<1>1. "releasing" \in Phases
  BY DEF Phases
<1>2. MarkLost(p, reason, rec, "releasing")
  BY DEF FailStart
<1>3. QED
  BY <1>1, <1>2, MarkLostType DEF FailStart, TypeOK

\* Every step of every process keeps the state well typed.
LEMMA TypeStep == TypeOK /\ [Next]_vars => TypeOK'
<1> SUFFICES ASSUME TypeOK, [Next]_vars PROVE TypeOK'
  OBVIOUS
<1> USE NoRowType, TimeType
<1>1. CASE UNCHANGED vars
  BY <1>1 DEF vars, storeVars, guardVars, stopVars, lockVars, waitVars, TypeOK
<1>2. ASSUME NEW p \in Proc, ProcStep(p) PROVE TypeOK'
  <2> DEFINE guardOK == /\ status' \in [Proc -> {"UNOWNED", "OWNED", "LOST"}]
                        /\ lossReason' \in [Proc -> {"none", "cleanup", "scoped_unquiesced", "lost"}]
                        /\ pendingLoss' \in [Proc -> {"none", "loss", "expired"}]
                        /\ record' \in [Proc -> Row]
                        /\ phase' \in [Proc -> Phases]
  <2>r. record[p] \in Row /\ acquired[p] \in Row /\ checking[p] \in Row /\ phase[p] \in Phases
    BY DEF TypeOK
  <2>m. \A reason : \A rec \in Row : \A next \in Phases :
          MarkLost(p, reason, rec, next) => guardOK
    BY MarkLostType
  <2>f. \A reason : \A rec \in Row : FailStart(p, reason, rec) =>
          guardOK /\ path' \in [Proc -> {"runtime", "scoped", "startup"}]
                  /\ canRelease' \in [Proc -> BOOLEAN]
    BY FailStartType
  <2> HIDE DEF guardOK
  <2>1. CASE AcquireProcessLock(p)
    BY <2>1, ConstantsAssumption DEF AcquireProcessLock, TypeOK, Phases, storeVars,
       guardVars, waitVars
  <2>2. CASE RuntimeAlreadyOwned(p)
    BY <2>2 DEF RuntimeAlreadyOwned, TypeOK, Phases, storeVars, guardVars, stopVars,
       lockVars, waitVars
  <2>3. CASE BeginShutdown(p)
    <3>1. guardOK
      BY <2>3, <2>m, <2>r DEF BeginShutdown, Phases
    <3>2. QED
      BY <2>3, <3>1 DEF guardOK, BeginShutdown, TypeOK, storeVars, lockVars, waitVars
  <2>4. CASE WorkersQuiesced(p)
    BY <2>4 DEF WorkersQuiesced, AfterQuiescence, TypeOK, Phases, storeVars, guardVars,
       stopVars, lockVars, waitVars
  <2>5. CASE QuiescenceTimeout(p)
    <3>1. guardOK
      BY <2>5, <2>m, <2>r DEF QuiescenceTimeout, Phases, AfterQuiescence
    <3>2. QED
      BY <2>5, <3>1 DEF guardOK, QuiescenceTimeout, TypeOK, storeVars, lockVars, waitVars
  <2>6. CASE LossRecordingDone(p)
    BY <2>6 DEF LossRecordingDone, TypeOK, Phases, storeVars, guardVars, lockVars, waitVars
  <2>7. CASE CloseScope(p)
    BY <2>7 DEF CloseScope, TypeOK, Phases, storeVars, guardVars, stopVars, lockVars, waitVars
  <2>8. CASE Exit(p)
    BY <2>8, HeartbeatType DEF Exit, TypeOK, Phases, storeVars
  <2>9. CASE PipeClosed(p)
    BY <2>9 DEF PipeClosed, TypeOK, storeVars, guardVars, stopVars, waitVars
  <2>10. CASE ListenerLost(p)
    <3>1. guardOK
      BY <2>10, <2>m, <2>r DEF ListenerLost
    <3>2. /\ lockHeld' = [lockHeld EXCEPT ![p] = FALSE]
          /\ faults' = faults \/ faults' = faults + 1
          /\ UNCHANGED <<storeVars, stopVars, pipe, pipeLost, waitVars>>
      BY <2>10 DEF ListenerLost
    <3>3. QED
      BY <3>1, <3>2 DEF guardOK, TypeOK, storeVars, stopVars, waitVars
  <2>11. ASSUME NEW now \in Time, GuardAcquire(p, now) PROVE TypeOK'
    <3>1. CASE FailStart(p, "STARTUP_FAILED", NoRow) /\ UNCHANGED <<storeVars, acquired>>
      <4>1. guardOK /\ path' \in [Proc -> {"runtime", "scoped", "startup"}]
                    /\ canRelease' \in [Proc -> BOOLEAN]
        BY <3>1, <2>f
      <4>2. QED
        BY <2>11, <3>1, <4>1 DEF guardOK, GuardAcquire, TypeOK, storeVars, lockVars
    <3>2. CASE /\ StoreAcquire(p, now)
               /\ acquired' = [acquired EXCEPT ![p] = row']
               /\ phase' = [phase EXCEPT ![p] = "acquiring"]
               /\ UNCHANGED <<guardVars, path, canRelease>>
      <4>1. NextGeneration \in Nat
        <5>1. row.gen \in Nat /\ evGen \in Nat
          BY DEF TypeOK, Row
        <5>2. QED
          BY <5>1 DEF NextGeneration, Larger
      <4>2. row' \in Row
        BY <3>2, <4>1 DEF StoreAcquire, Row
      <4>3. evGen' \in Nat /\ evAt' \in Nat /\ events' \subseteq Event
        BY <3>2, <4>1, AppendEventType DEF StoreAcquire, EventTypes
      <4>4. QED
        BY <2>11, <3>2, <4>2, <4>3 DEF GuardAcquire, TypeOK, Phases, guardVars, lockVars
    <3>3. QED
      BY <2>11, <3>1, <3>2 DEF GuardAcquire
  <2>12. ASSUME NEW now \in Time, GuardAcquired(p, now) PROVE TypeOK'
    <3>1. CASE \E reason : FailStart(p, reason, acquired[p]) /\ UNCHANGED <<hb, checking>>
      <4>1. guardOK /\ path' \in [Proc -> {"runtime", "scoped", "startup"}]
                    /\ canRelease' \in [Proc -> BOOLEAN]
        BY <3>1, <2>f, <2>r
      <4>2. QED
        <5>1. /\ acquired' = [acquired EXCEPT ![p] = NoRow]
              /\ UNCHANGED <<storeVars, lockVars, work, unsafe>>
          BY <2>12 DEF GuardAcquired
        <5>2. QED
          BY <3>1, <4>1, <5>1 DEF guardOK, TypeOK, storeVars, lockVars
    <3>2. CASE /\ status' = [status EXCEPT ![p] = "OWNED"]
               /\ record' = [record EXCEPT ![p] = acquired[p]]
               /\ hb' = [hb EXCEPT ![p].st = "scheduled"]
               /\ checking' = [checking EXCEPT ![p] = row]
               /\ phase' = [phase EXCEPT ![p] = "starting"]
               /\ UNCHANGED <<lossReason, pendingLoss, path, canRelease>>
      <4>1. /\ acquired' = [acquired EXCEPT ![p] = NoRow]
            /\ UNCHANGED <<storeVars, lockVars, work, unsafe>>
        BY <2>12 DEF GuardAcquired
      <4>2. QED
        <5>1. [hb[p] EXCEPT !.st = "scheduled"] \in Heartbeat
          BY DEF TypeOK, Heartbeat
        <5>2. hb' \in [Proc -> Heartbeat]
          BY <3>2, <5>1 DEF TypeOK
        <5>3. QED
          BY <3>2, <4>1, <5>2, <2>r DEF TypeOK, Phases, storeVars, lockVars
    <3>3. QED
      BY <2>12, <3>1, <3>2 DEF GuardAcquired
  <2>13. ASSUME NEW now \in Time, Dispatch(p, now) PROVE TypeOK'
    <3>1. CASE MarkLost(p, SendLoss(p, now), record[p], phase[p]) /\ UNCHANGED work
      <4>1. guardOK
        BY <3>1, <2>m, <2>r
      <4>2. QED
        BY <2>13, <3>1, <4>1 DEF guardOK, Dispatch, TypeOK, storeVars, stopVars, lockVars
    <3>2. CASE /\ record' = [record EXCEPT ![p] = row]
               /\ work' = [work EXCEPT ![p] = "sent"]
               /\ UNCHANGED <<status, lossReason, pendingLoss, phase>>
      BY <2>13, <3>2 DEF Dispatch, TypeOK, storeVars, stopVars, lockVars
    <3>3. QED
      BY <2>13, <3>1, <3>2 DEF Dispatch
  <2>14. ASSUME NEW now \in Time, Settle(p, now) PROVE TypeOK'
    <3>1. guardOK
      BY <2>14, <2>m, <2>r DEF Settle, guardOK, TypeOK, guardVars
    <3>2. QED
      <4>1. /\ work' \in [Proc -> {"idle", "sent", "settled"}]
            /\ checking' \in [Proc -> Row]
        <5>1. \/ work' = [work EXCEPT ![p] = "idle"] \/ work' = [work EXCEPT ![p] = "settled"]
          BY <2>14 DEF Settle
        <5>2. checking' = checking \/ checking' = [checking EXCEPT ![p] = row]
          BY <2>14 DEF Settle
        <5>3. QED
          BY <5>1, <5>2 DEF TypeOK
      <4>2. UNCHANGED <<storeVars, stopVars, lockVars, acquired, hb>>
        BY <2>14 DEF Settle
      <4>3. QED
        BY <3>1, <4>1, <4>2 DEF guardOK, TypeOK, storeVars, stopVars, lockVars
  <2>15. ASSUME NEW now \in Time, HeartbeatAttempt(p, now) PROVE TypeOK'
    <3>1. guardOK
      BY <2>15, <2>m, <2>r DEF HeartbeatAttempt, guardOK, TypeOK, guardVars
    <3>2. row' \in Row
      <4>1. CASE row' = row
        BY <4>1 DEF TypeOK
      <4>2. CASE \E out : row' = [row EXCEPT !.hb = IF out = "renewed" THEN now ELSE @]
        BY <4>2 DEF TypeOK, Row
      <4>3. QED
        BY <2>15, <4>1, <4>2 DEF HeartbeatAttempt
    <3>3. hb' \in [Proc -> Heartbeat]
      <4>1. Expiry(record[p]) \in Nat
        BY <2>r, ExpiryType
      <4>2. RenewOutcome(p, now) \in {"renewed", "null", "failed"}
        BY DEF RenewOutcome
      <4>3. CASE hb' = [hb EXCEPT ![p] = NoHeartbeat]
        BY <4>3, HeartbeatType DEF TypeOK
      <4>4. CASE \E out \in {RenewOutcome(p, now), "busy"} :
                   hb' = [hb EXCEPT ![p] = [st |-> out, at |-> now,
                                            lease |-> Expiry(record[p])]]
        BY <4>1, <4>2, <4>4 DEF TypeOK, Heartbeat
      <4>5. QED
        BY <2>15, <4>3, <4>4 DEF HeartbeatAttempt
    <3>4. QED
      BY <2>15, <3>1, <3>2, <3>3 DEF guardOK, HeartbeatAttempt, TypeOK, stopVars, lockVars
  <2>16. ASSUME NEW now \in Time, HeartbeatContinue(p, now) PROVE TypeOK'
    <3>1. guardOK
      <4>1. CASE UNCHANGED <<guardVars, phase>>
        BY <4>1 DEF guardOK, guardVars, TypeOK
      <4>2. CASE MarkLost(p, RenewalLoss(p, now), record[p], phase[p])
        BY <4>2, <2>m, <2>r
      <4>3. CASE /\ record' = [record EXCEPT ![p].hb = IF hb[p].st = "renewed" THEN hb[p].at
                                                       ELSE @]
                 /\ UNCHANGED <<status, lossReason, pendingLoss, phase>>
        <5>1. hb[p].at \in Nat
          BY DEF TypeOK, Heartbeat
        <5>2. \A n \in Nat : [record[p] EXCEPT !.hb = n] \in Row
          BY <2>r DEF Row
        <5>3. CASE hb[p].st = "renewed"
          BY <4>3, <5>1, <5>2, <5>3 DEF guardOK, TypeOK
        <5>4. CASE hb[p].st # "renewed"
          BY <4>3, <5>4 DEF guardOK, TypeOK, Row
        <5>5. QED
          BY <5>3, <5>4
      <4>4. QED
        BY <2>16, <4>1, <4>2, <4>3 DEF HeartbeatContinue
    <3>2. hb' \in [Proc -> Heartbeat]
      <4>1. \/ hb' = [hb EXCEPT ![p] = NoHeartbeat]
            \/ hb' = [hb EXCEPT ![p] = [NoHeartbeat EXCEPT !.st = "scheduled"]]
        BY <2>16 DEF HeartbeatContinue
      <4>2. QED
        BY <4>1, HeartbeatType DEF TypeOK
    <3>3. UNCHANGED <<storeVars, stopVars, lockVars, acquired, checking, work>>
      BY <2>16 DEF HeartbeatContinue
    <3>4. QED
      BY <3>1, <3>2, <3>3 DEF guardOK, TypeOK, storeVars, stopVars, lockVars
  <2>17. ASSUME NEW now \in Time, RecordLost(p, now) PROVE TypeOK'
    <3>1. LostAt(p, now) \in Nat
      <4>1. Expiry(record[p]) \in Nat /\ record[p].hb \in Nat /\ now \in Nat
        BY <2>r, ExpiryType DEF Row
      <4>2. Larger(now, record[p].hb) \in Nat
        BY <4>1, LargerType
      <4>3. QED
        BY <4>1, <4>2, LargerType DEF LostAt
    <3>2. evGen' \in Nat /\ evAt' \in Nat /\ events' \subseteq Event
      <4>1. CASE AppendEvent(p, row.gen, "LOST", LostAt(p, now))
        <5>1. row.gen \in Nat
          BY DEF TypeOK, Row
        <5>2. QED
          BY <3>1, <4>1, <5>1, AppendEventType DEF EventTypes
      <4>2. CASE UNCHANGED <<evGen, evAt, events>>
        BY <4>2 DEF TypeOK
      <4>3. QED
        BY <2>17, <4>1, <4>2 DEF RecordLost
    <3>3. QED
      BY <2>17, <3>2 DEF RecordLost, TypeOK, stopVars, lockVars, waitVars
  <2>18. ASSUME NEW now \in Time, ReleaseOwnership(p, now) PROVE TypeOK'
    <3>1. AfterRelease(p) \in Phases
      BY DEF AfterRelease, Phases
    <3>2. guardOK
      BY <2>18, <3>1, <2>m, <2>r DEF ReleaseOwnership, guardOK, TypeOK, guardVars
    <3>3. row' \in Row /\ evGen' \in Nat /\ evAt' \in Nat /\ events' \subseteq Event
      <4>1. CASE AppendEvent(p, row.gen, "RELEASED", now) /\ row' = NoRow
        <5>1. row.gen \in Nat
          BY DEF TypeOK, Row
        <5>2. QED
          BY <4>1, <5>1, AppendEventType DEF EventTypes
      <4>2. CASE UNCHANGED storeVars
        BY <4>2 DEF TypeOK, storeVars
      <4>3. QED
        BY <2>18, <4>1, <4>2 DEF ReleaseOwnership
    <3>4. QED
      BY <2>18, <3>2, <3>3 DEF guardOK, ReleaseOwnership, TypeOK, stopVars, lockVars, waitVars
  <2>19. ASSUME NEW now \in Time, NEW at \in Time, FinishStart(p, now, at) PROVE TypeOK'
    <3>1. CASE \E reason : FailStart(p, reason, record[p])
      <4>1. guardOK /\ path' \in [Proc -> {"runtime", "scoped", "startup"}]
                    /\ canRelease' \in [Proc -> BOOLEAN]
        BY <3>1, <2>f, <2>r
      <4>2. QED
        BY <2>19, <4>1 DEF guardOK, FinishStart, TypeOK, storeVars, lockVars
    <3>2. CASE /\ record' = [record EXCEPT ![p] = checking[p]]
               /\ phase' = [phase EXCEPT ![p] = "running"]
               /\ UNCHANGED <<status, lossReason, pendingLoss, path, canRelease>>
      BY <2>19, <3>2, <2>r DEF FinishStart, TypeOK, Phases, storeVars, lockVars
    <3>3. QED
      BY <2>19, <3>1, <3>2 DEF FinishStart
  <2>20. ASSUME NEW now \in Time, NEW at \in Time, AssertCurrentFinish(p, now, at)
         PROVE TypeOK'
    <3>1. guardOK
      BY <2>20, <2>m, <2>r DEF AssertCurrentFinish, guardOK, TypeOK, guardVars
    <3>2. QED
      BY <2>20, <3>1 DEF guardOK, AssertCurrentFinish, TypeOK, storeVars, stopVars, lockVars
  <2>21. QED
    BY <1>2, <2>1, <2>2, <2>3, <2>4, <2>5, <2>6, <2>7, <2>8, <2>9, <2>10, <2>11, <2>12,
       <2>13, <2>14, <2>15, <2>16, <2>17, <2>18, <2>19, <2>20 DEF ProcStep
<1>3. QED
  BY <1>1, <1>2 DEF Next

-----------------------------------------------------------------------------
(***************************************************************************)
(* The ledger: generations, the log, the row and the guards' records.      *)
(***************************************************************************)

\* An empty log agrees with the absence of a row and of any memory of it.
LEMMA LedgerInit == Init => Ledger
BY DEF Init, Ledger, OwnMemory, GenerationsUnique, NoRow

\* A step that leaves the log and the identity of the row alone keeps the ledger
\* when every record it writes is the old one, the committed acquisition, or none.
LEMMA LedgerFrame ==
  ASSUME TypeOK, Ledger, UNCHANGED <<events, evGen>>,
         row'.gen = row.gen, row'.owner = row.owner,
         \A q \in Proc : /\ record'[q].gen # 0 =>
                              \/ /\ record'[q].gen = record[q].gen
                                 /\ record'[q].owner = record[q].owner
                              \/ record'[q] = acquired[q]
                         /\ acquired'[q].gen # 0 => acquired'[q] = acquired[q]
                         /\ status'[q] = "OWNED" => record'[q].gen # 0
                         /\ phase'[q] = "acquiring" => acquired'[q].gen # 0
  PROVE  Ledger'
<1>1. \A g, p : Granted(g, p)' <=> Granted(g, p)
  BY DEF Granted
<1>2. GenerationsUnique'
  BY DEF Ledger, OwnMemory, GenerationsUnique
<1>3. QED
  BY <1>1, <1>2 DEF Ledger, OwnMemory

\* An event appended under a generation that is new, or that its owner already
\* holds, keeps the log's part of the ledger.
LEMMA LedgerAppend ==
  ASSUME TypeOK, Ledger, NEW p \in Proc, NEW g \in Nat \ {0}, NEW type \in EventTypes, NEW at,
         AppendEvent(p, g, type, at),
         Granted(g, p) \/ g > evGen
  PROVE  /\ GenerationsUnique'
         /\ \A e \in events' : e.gen # 0 /\ e.gen <= evGen'
         /\ \A h, q : Granted(h, q) => Granted(h, q)'
         /\ Granted(g, p)'
         /\ evGen' = Larger(evGen, g)
<1> DEFINE new == [gen |-> g, type |-> type, owner |-> p]
<1>1. events' = events \cup {new} /\ evGen' = Larger(evGen, g)
  BY DEF AppendEvent
<1>2. \A e \in events : e.gen \in Nat
  BY DEF TypeOK, Event
<1>3. \A e \in events : e.gen = g => e.owner = p
  <2>1. CASE Granted(g, p)
    BY <2>1 DEF Ledger, OwnMemory, GenerationsUnique, Granted
  <2>2. CASE g > evGen
    BY <2>2, <1>2 DEF Ledger, OwnMemory, TypeOK
  <2>3. QED
    BY <2>1, <2>2
<1>4. GenerationsUnique'
  BY <1>1, <1>3 DEF Ledger, OwnMemory, GenerationsUnique
<1>5. \A e \in events' : e.gen # 0 /\ e.gen <= evGen'
  <2>1. evGen \in Nat /\ evGen' \in Nat /\ evGen <= evGen' /\ g <= evGen'
    BY <1>1 DEF Larger, TypeOK
  <2>2. QED
    BY <1>1, <1>2, <2>1 DEF Ledger, OwnMemory
<1>6. \A h, q : Granted(h, q) => Granted(h, q)'
  BY <1>1 DEF Granted
<1>7. Granted(g, p)'
  <2>1. new \in events' /\ new.gen = g /\ new.owner = p
    BY <1>1
  <2>2. QED
    BY <2>1 DEF Granted
<1>8. QED
  BY <1>1, <1>4, <1>5, <1>6, <1>7

\* What markLost does to a record and a status.
LEMMA MarkLostRecord ==
  ASSUME TypeOK, NEW p \in Proc, NEW reason, NEW rec \in Row, NEW next \in Phases,
         MarkLost(p, reason, rec, next)
  PROVE  /\ record'[p] = rec /\ status'[p] = "LOST"
         /\ phase'[p] \in {next, "draining"}
         /\ \A q \in Proc \ {p} : /\ record'[q] = record[q] /\ status'[q] = status[q]
                                  /\ phase'[q] = phase[q]
<1>1. /\ record' = [record EXCEPT ![p] = rec]
      /\ status' = [status EXCEPT ![p] = "LOST"]
      /\ \E ph : /\ phase' = [phase EXCEPT ![p] = ph]
                 /\ ph = next \/ ph = "draining"
  BY DEF MarkLost, PhaseAfterLoss
<1>2. QED
  BY <1>1 DEF TypeOK

\* Every step of every process keeps row, log and memories in agreement.
LEMMA LedgerStep == TypeOK /\ Ledger /\ [Next]_vars => Ledger'
<1> SUFFICES ASSUME TypeOK, Ledger, [Next]_vars PROVE Ledger'
  OBVIOUS
<1>1. CASE UNCHANGED vars
  BY <1>1, LedgerFrame DEF vars, storeVars, guardVars, waitVars, Ledger, OwnMemory
<1>2. ASSUME NEW p \in Proc, ProcStep(p) PROVE Ledger'
  <2>r. record[p] \in Row /\ acquired[p] \in Row /\ phase[p] \in Phases /\ NoRow \in Row
    BY NoRowType DEF TypeOK
  \* A step of p that only marks the loss, its record unchanged, is framed.
  <2>m. ASSUME UNCHANGED <<row, evGen, events, acquired>>, NEW reason, NEW next \in Phases,
               MarkLost(p, reason, record[p], next), next # "acquiring" \/ next = phase[p]
        PROVE  Ledger'
    BY <2>m, <2>r, MarkLostRecord, LedgerFrame DEF Ledger, OwnMemory
  \* A step that leaves log, row and guard alone is framed.
  <2>u. ASSUME UNCHANGED <<row, evGen, events, acquired, record, status>>,
               \A q \in Proc : phase'[q] = "acquiring" => phase[q] = "acquiring"
        PROVE  Ledger'
    BY <2>u, LedgerFrame DEF Ledger, OwnMemory
  <2>1. CASE AcquireProcessLock(p)
    BY <2>1, <2>u DEF AcquireProcessLock, TypeOK, storeVars, guardVars, waitVars
  <2>2. CASE RuntimeAlreadyOwned(p)
    BY <2>2, <2>u DEF RuntimeAlreadyOwned, TypeOK, storeVars, guardVars, waitVars
  <2>3. CASE BeginShutdown(p)
    <3>1. "draining" \in Phases /\ UNCHANGED <<row, evGen, events, acquired>>
      BY <2>3 DEF BeginShutdown, Phases, storeVars, waitVars
    <3>2. \E reason : MarkLost(p, reason, record[p], "draining")
      BY <2>3 DEF BeginShutdown
    <3>3. QED
      BY <3>1, <3>2, <2>m
  <2>4. CASE WorkersQuiesced(p)
    BY <2>4, <2>u DEF WorkersQuiesced, AfterQuiescence, TypeOK, storeVars, guardVars, waitVars
  <2>5. CASE QuiescenceTimeout(p)
    <3>1. /\ AfterQuiescence(p) \in Phases /\ AfterQuiescence(p) # "acquiring"
          /\ UNCHANGED <<row, evGen, events, acquired>>
      BY <2>5 DEF QuiescenceTimeout, AfterQuiescence, Phases, storeVars, waitVars
    <3>2. \E reason : MarkLost(p, reason, record[p], AfterQuiescence(p))
      BY <2>5 DEF QuiescenceTimeout
    <3>3. QED
      BY <3>1, <3>2, <2>m
  <2>6. CASE LossRecordingDone(p)
    BY <2>6, <2>u DEF LossRecordingDone, TypeOK, storeVars, guardVars, waitVars
  <2>7. CASE CloseScope(p)
    BY <2>7, <2>u DEF CloseScope, TypeOK, storeVars, guardVars, waitVars
  <2>8. CASE Exit(p)
    <3>1. /\ record' = [record EXCEPT ![p] = NoRow] /\ acquired' = [acquired EXCEPT ![p] = NoRow]
          /\ status' = [status EXCEPT ![p] = "LOST"] /\ phase' = [phase EXCEPT ![p] = "exited"]
          /\ UNCHANGED <<row, evGen, events>>
      BY <2>8 DEF Exit, storeVars
    <3>2. QED
      BY <3>1, LedgerFrame DEF TypeOK, Ledger, OwnMemory, NoRow
  <2>9. CASE PipeClosed(p)
    BY <2>9, <2>u DEF PipeClosed, storeVars, guardVars, waitVars
  <2>10. CASE ListenerLost(p)
    <3>1. UNCHANGED <<row, evGen, events, acquired>>
      BY <2>10 DEF ListenerLost, storeVars, waitVars
    <3>2. MarkLost(p, "PROCESS_LOCK_LOST", record[p], phase[p])
      BY <2>10 DEF ListenerLost
    <3>3. QED
      BY <3>1, <3>2, <2>m, <2>r
  <2>11. ASSUME NEW now \in Time, GuardAcquire(p, now) PROVE Ledger'
    <3>1. CASE FailStart(p, "STARTUP_FAILED", NoRow) /\ UNCHANGED <<storeVars, acquired>>
      <4>1. "releasing" \in Phases /\ MarkLost(p, "STARTUP_FAILED", NoRow, "releasing")
            /\ UNCHANGED <<row, evGen, events, acquired>>
        BY <3>1 DEF FailStart, Phases, storeVars
      <4>2. QED
        BY <4>1, <2>r, MarkLostRecord, LedgerFrame DEF Ledger, OwnMemory, NoRow
    <3>2. CASE /\ StoreAcquire(p, now)
               /\ acquired' = [acquired EXCEPT ![p] = row']
               /\ phase' = [phase EXCEPT ![p] = "acquiring"]
               /\ UNCHANGED <<guardVars, path, canRelease>>
      <4>1. PICK g \in Nat \ {0} : g = NextGeneration /\ g > evGen /\ Larger(evGen, g) = g
        <5>1. row.gen \in Nat /\ evGen \in Nat
          BY DEF TypeOK, Row
        <5>2. QED
          BY <5>1 DEF NextGeneration, Larger
      <4>2. row'.gen = g /\ row'.owner = p
        BY <3>2, <4>1 DEF StoreAcquire
      <4>3. \E type \in EventTypes : AppendEvent(p, g, type, now)
        BY <3>2, <4>1 DEF StoreAcquire, EventTypes
      <4>4. /\ GenerationsUnique'
            /\ \A e \in events' : e.gen # 0 /\ e.gen <= evGen'
            /\ \A h, q : Granted(h, q) => Granted(h, q)'
            /\ Granted(g, p)'
            /\ evGen' = g
        BY <4>1, <4>3, LedgerAppend
      <4>5. record' = record /\ status' = status
        BY <3>2 DEF guardVars
      <4>6. ASSUME NEW q \in Proc PROVE OwnMemory(q)'
        <5>1. CASE q = p
          <6>1. acquired'[q] = row' /\ record'[q] = record[q] /\ status'[q] = status[q]
            BY <3>2, <4>5, <5>1 DEF TypeOK
          <6>2. Granted(acquired[q].gen, q)'
            BY <4>2, <4>4, <5>1, <6>1
          <6>3. record[q].gen # 0 => record[q].owner = q /\ Granted(record[q].gen, q)'
            BY <4>4, <4>5 DEF Ledger, OwnMemory
          <6>4. QED
            BY <4>2, <4>5, <5>1, <6>1, <6>2, <6>3 DEF Ledger, OwnMemory
        <5>2. CASE q # p
          <6>1. /\ acquired'[q] = acquired[q] /\ record'[q] = record[q]
                /\ status'[q] = status[q] /\ phase'[q] = phase[q]
            BY <3>2, <4>5, <5>2 DEF TypeOK
          <6>2. QED
            BY <4>4, <6>1 DEF Ledger, OwnMemory
        <5>3. QED
          BY <5>1, <5>2
      <4>7. Granted(row.gen, row.owner)'
        BY <4>2, <4>4
      <4>8. QED
        BY <4>1, <4>2, <4>4, <4>6, <4>7 DEF Ledger, OwnMemory
    <3>3. QED
      BY <2>11, <3>1, <3>2 DEF GuardAcquire
  <2>12. ASSUME NEW now \in Time, GuardAcquired(p, now) PROVE Ledger'
    <3>0. /\ UNCHANGED <<row, evGen, events>>
          /\ acquired' = [acquired EXCEPT ![p] = NoRow]
          /\ phase[p] = "acquiring" /\ acquired[p].gen # 0
      BY <2>12 DEF GuardAcquired, storeVars, Ledger, OwnMemory
    <3>1. CASE \E reason : FailStart(p, reason, acquired[p])
      <4>1. "releasing" \in Phases /\ \E reason : MarkLost(p, reason, acquired[p], "releasing")
        BY <3>1 DEF FailStart, Phases
      <4>2. /\ record'[p] = acquired[p] /\ status'[p] = "LOST" /\ phase'[p] # "acquiring"
            /\ \A q \in Proc \ {p} : /\ record'[q] = record[q] /\ status'[q] = status[q]
                                     /\ phase'[q] = phase[q]
        BY <4>1, <2>r, MarkLostRecord
      <4>3. QED
        BY <3>0, <4>2, LedgerFrame DEF TypeOK, Ledger, OwnMemory, NoRow
    <3>2. CASE /\ status' = [status EXCEPT ![p] = "OWNED"]
               /\ record' = [record EXCEPT ![p] = acquired[p]]
               /\ phase' = [phase EXCEPT ![p] = "starting"]
      BY <3>0, <3>2, LedgerFrame DEF TypeOK, Ledger, OwnMemory, NoRow
    <3>3. QED
      BY <2>12, <3>1, <3>2 DEF GuardAcquired
  \* Taking over a row read earlier as the record, once the comparison found it the same.
  <2>s. ASSUME NEW seen \in Row, SameOwnership(record[p], seen), status[p] = "OWNED",
               record' = [record EXCEPT ![p] = seen],
               UNCHANGED <<row, evGen, events, acquired, status>>,
               \A q \in Proc : phase'[q] = "acquiring" => phase[q] = "acquiring"
        PROVE  Ledger'
    BY <2>s, LedgerFrame DEF SameOwnership, TypeOK, Ledger, OwnMemory
  <2>13. ASSUME NEW now \in Time, Dispatch(p, now) PROVE Ledger'
    <3>0. UNCHANGED <<row, evGen, events, acquired>> /\ status[p] = "OWNED"
      BY <2>13 DEF Dispatch, storeVars
    <3>1. CASE MarkLost(p, SendLoss(p, now), record[p], phase[p])
      BY <3>0, <3>1, <2>m, <2>r
    <3>2. CASE /\ SendLoss(p, now) = ""
               /\ record' = [record EXCEPT ![p] = row]
               /\ UNCHANGED <<status, lossReason, pendingLoss, phase>>
      <4>1. SameOwnership(record[p], row)
        BY <3>2 DEF SendLoss, LocalLoss, PersistedLoss
      <4>2. QED
        BY <3>0, <3>2, <4>1, <2>s DEF TypeOK
    <3>3. QED
      BY <2>13, <3>1, <3>2 DEF Dispatch
  <2>14. ASSUME NEW now \in Time, Settle(p, now) PROVE Ledger'
    <3>0. UNCHANGED <<row, evGen, events, acquired>>
      BY <2>14 DEF Settle, storeVars
    <3>1. CASE MarkLost(p, LocalLoss(p, now), record[p], phase[p])
      BY <3>0, <3>1, <2>m, <2>r
    <3>2. CASE UNCHANGED <<guardVars, phase>>
      BY <3>0, <3>2, <2>u DEF guardVars
    <3>3. QED
      BY <2>14, <3>1, <3>2 DEF Settle
  <2>15. ASSUME NEW now \in Time, HeartbeatAttempt(p, now) PROVE Ledger'
    <3>0. UNCHANGED <<evGen, events, acquired>>
      BY <2>15 DEF HeartbeatAttempt
    <3>1. CASE UNCHANGED row /\ \E reason : MarkLost(p, reason, record[p], phase[p])
      BY <3>0, <3>1, <2>m, <2>r
    <3>2. CASE /\ UNCHANGED <<guardVars, phase>>
               /\ \E out : row' = [row EXCEPT !.hb = IF out = "renewed" THEN now ELSE @]
      <4>1. row'.gen = row.gen /\ row'.owner = row.owner
        BY <3>2 DEF TypeOK, Row
      <4>2. QED
        BY <3>0, <3>2, <4>1, LedgerFrame DEF Ledger, OwnMemory, guardVars
    <3>3. QED
      BY <2>15, <3>1, <3>2 DEF HeartbeatAttempt
  <2>16. ASSUME NEW now \in Time, HeartbeatContinue(p, now) PROVE Ledger'
    <3>0. UNCHANGED <<row, evGen, events, acquired>>
      BY <2>16 DEF HeartbeatContinue, storeVars
    <3>1. CASE MarkLost(p, RenewalLoss(p, now), record[p], phase[p])
      BY <3>0, <3>1, <2>m, <2>r
    <3>2. CASE UNCHANGED <<guardVars, phase>>
      BY <3>0, <3>2, <2>u DEF guardVars
    <3>3. CASE /\ record' = [record EXCEPT ![p].hb = IF hb[p].st = "renewed" THEN hb[p].at
                                                     ELSE @]
               /\ UNCHANGED <<status, lossReason, pendingLoss, phase>>
      <4>1. \A q \in Proc : record'[q].gen = record[q].gen /\ record'[q].owner = record[q].owner
        BY <3>3 DEF TypeOK, Row
      <4>2. QED
        BY <3>0, <3>3, <4>1, LedgerFrame DEF Ledger, OwnMemory
    <3>4. QED
      BY <2>16, <3>1, <3>2, <3>3 DEF HeartbeatContinue
  \* Events that p appends under the generation of its own row.
  <2>a. ASSUME OwnsRow(p), NEW type \in EventTypes, NEW at, record[p].gen # 0,
               AppendEvent(p, row.gen, type, at)
        PROVE  /\ GenerationsUnique'
               /\ \A e \in events' : e.gen # 0 /\ e.gen <= evGen'
               /\ \A h, q : Granted(h, q) => Granted(h, q)'
               /\ evGen' = evGen
    <3>1. row.gen \in Nat \ {0} /\ row.gen = evGen /\ Granted(row.gen, p)
      BY <2>a DEF OwnsRow, Ledger, OwnMemory, TypeOK, Row
    <3>2. Larger(evGen, row.gen) = evGen
      BY <3>1 DEF Larger
    <3>3. QED
      BY <2>a, <3>1, <3>2, LedgerAppend
  \* OwnsRow needs a record: without one the row would be nobody's.
  <2>o. OwnsRow(p) => record[p].gen # 0
    BY ConstantsAssumption DEF OwnsRow, Ledger, OwnMemory
  <2>17. ASSUME NEW now \in Time, RecordLost(p, now) PROVE Ledger'
    <3>0. UNCHANGED <<row, record, status, acquired, phase>>
      BY <2>17 DEF RecordLost, waitVars
    <3>1. CASE OwnsRow(p) /\ AppendEvent(p, row.gen, "LOST", LostAt(p, now))
      <4>1. /\ GenerationsUnique'
            /\ \A e \in events' : e.gen # 0 /\ e.gen <= evGen'
            /\ \A h, q : Granted(h, q) => Granted(h, q)'
            /\ evGen' = evGen
        BY <3>1, <2>a, <2>o DEF EventTypes
      <4>2. QED
        BY <3>0, <4>1 DEF Ledger, OwnMemory
    <3>2. CASE UNCHANGED <<evGen, evAt, events>>
      BY <3>0, <3>2, <2>u
    <3>3. QED
      BY <2>17, <3>1, <3>2 DEF RecordLost
  <2>18. ASSUME NEW now \in Time, ReleaseOwnership(p, now) PROVE Ledger'
    <3>0. /\ UNCHANGED acquired
          /\ AfterRelease(p) \in Phases /\ AfterRelease(p) # "acquiring"
      BY <2>18 DEF ReleaseOwnership, waitVars, AfterRelease, Phases
    <3>1. CASE UNCHANGED storeVars /\ \E reason : MarkLost(p, reason, record[p], AfterRelease(p))
      BY <3>0, <3>1, <2>m DEF storeVars
    <3>2. CASE UNCHANGED <<guardVars, storeVars>> /\ phase' = [phase EXCEPT ![p] = AfterRelease(p)]
      BY <3>0, <3>2, <2>u DEF guardVars, storeVars, TypeOK
    <3>3. CASE /\ ReleaseOutcome(p, now) = "released"
               /\ AppendEvent(p, row.gen, "RELEASED", now)
               /\ row' = NoRow
               /\ phase' = [phase EXCEPT ![p] = AfterRelease(p)]
               /\ UNCHANGED guardVars
      <4>1. OwnsRow(p)
        BY <3>3 DEF ReleaseOutcome
      <4>2. /\ GenerationsUnique'
            /\ \A e \in events' : e.gen # 0 /\ e.gen <= evGen'
            /\ \A h, q : Granted(h, q) => Granted(h, q)'
        BY <3>3, <4>1, <2>a, <2>o DEF EventTypes
      <4>3. row'.gen = 0 /\ row'.owner = NoProc
        BY <3>3 DEF NoRow
      <4>4. \A q \in Proc : phase'[q] = "acquiring" => phase[q] = "acquiring"
        BY <3>0, <3>3 DEF TypeOK
      <4>5. QED
        BY <3>0, <3>3, <4>2, <4>3, <4>4 DEF Ledger, OwnMemory, guardVars
    <3>4. QED
      BY <2>18, <3>1, <3>2, <3>3 DEF ReleaseOwnership
  <2>19. ASSUME NEW now \in Time, NEW at \in Time, FinishStart(p, now, at) PROVE Ledger'
    <3>0. UNCHANGED <<row, evGen, events, acquired>>
      BY <2>19 DEF FinishStart, storeVars
    <3>1. CASE \E reason : FailStart(p, reason, record[p])
      <4>1. "releasing" \in Phases /\ \E reason : MarkLost(p, reason, record[p], "releasing")
        BY <3>1 DEF FailStart, Phases
      <4>2. QED
        BY <3>0, <4>1, <2>m
    <3>2. CASE /\ status[p] = "OWNED" /\ CheckLoss(p, now, at) = ""
               /\ record' = [record EXCEPT ![p] = checking[p]]
               /\ phase' = [phase EXCEPT ![p] = "running"]
               /\ UNCHANGED <<status, lossReason, pendingLoss, path, canRelease>>
      <4>1. SameOwnership(record[p], checking[p])
        BY <3>2 DEF CheckLoss, LocalLoss, PersistedLoss
      <4>2. QED
        BY <3>0, <3>2, <4>1, <2>s DEF TypeOK
    <3>3. QED
      BY <2>19, <3>1, <3>2 DEF FinishStart
  <2>20. ASSUME NEW now \in Time, NEW at \in Time, AssertCurrentFinish(p, now, at)
         PROVE Ledger'
    <3>0. UNCHANGED <<row, evGen, events, acquired>>
      BY <2>20 DEF AssertCurrentFinish, storeVars
    <3>1. CASE UNCHANGED <<guardVars, phase>>
      BY <3>0, <3>1, <2>u DEF guardVars
    <3>2. CASE MarkLost(p, CheckLoss(p, now, at), record[p], phase[p])
      BY <3>0, <3>2, <2>m, <2>r
    <3>3. CASE /\ status[p] = "OWNED" /\ CheckLoss(p, now, at) = ""
               /\ record' = [record EXCEPT ![p] = checking[p]]
               /\ UNCHANGED <<status, lossReason, pendingLoss, phase>>
      <4>1. SameOwnership(record[p], checking[p])
        BY <3>3 DEF CheckLoss, LocalLoss, PersistedLoss
      <4>2. QED
        BY <3>0, <3>3, <4>1, <2>s DEF TypeOK
    <3>4. QED
      BY <2>20, <3>1, <3>2, <3>3 DEF AssertCurrentFinish
  <2>21. QED
    BY <1>2, <2>1, <2>2, <2>3, <2>4, <2>5, <2>6, <2>7, <2>8, <2>9, <2>10, <2>11, <2>12,
       <2>13, <2>14, <2>15, <2>16, <2>17, <2>18, <2>19, <2>20 DEF ProcStep
<1>3. QED
  BY <1>1, <1>2 DEF Next

\* The state of every behaviour is well typed: the values the guard, the store
\* and the stop procedures leave behind are those the code declares.
THEOREM TypeCorrect == Spec => []TypeOK
<1>1. Init => TypeOK
  BY TypeInit
<1>2. TypeOK /\ [Next]_vars => TypeOK'
  BY TypeStep
<1>3. QED
  BY <1>1, <1>2, PTL DEF Spec

\* The row, the log and the records of the processes always agree on who was
\* given which generation.
THEOREM LedgerInvariant == Spec => []Ledger
<1>1. Init => TypeOK /\ Ledger
  BY TypeInit, LedgerInit
<1>2. TypeOK /\ Ledger /\ [Next]_vars => (TypeOK /\ Ledger)'
  BY TypeStep, LedgerStep
<1>3. QED
  BY <1>1, <1>2, PTL DEF Spec

\* No generation is ever given to two processes: acquireAfterProcessLock takes
\* the next number from the event log too, so deleting a released row is safe.
THEOREM GenerationsAreUnique == Spec => []GenerationsUnique
<1>1. Ledger => GenerationsUnique
  BY DEF Ledger, OwnMemory
<1>2. QED
  BY <1>1, LedgerInvariant, PTL

\* An outbound call is started only by the owner of the row, under the newest
\* generation the log knows: runWithCurrentExecutionAuthority fences every
\* process whose generation was superseded.
THEOREM DispatchIsFenced == Spec => DispatchFenced
<1>1. TypeOK /\ Ledger /\ [Next]_vars => [CallsAreFenced]_vars
  <2> SUFFICES ASSUME TypeOK, Ledger, Next, NEW p \in Proc,
                      work[p] # "sent", work'[p] = "sent"
               PROVE  row.owner = p /\ \A e \in events : e.gen <= row.gen
    BY DEF CallsAreFenced
  <2>1. PICK q \in Proc : ProcStep(q)
    BY DEF Next
  <2>2. \E now \in Time : Dispatch(q, now) /\ SendLoss(q, now) = "" /\ q = p
    <3>1. \A now \in Time : Dispatch(q, now) => SendLoss(q, now) = "" /\ q = p
      BY DEF Dispatch, TypeOK
    <3>2. \A now \in Time : ~Settle(q, now)
      BY DEF Settle, TypeOK
    <3>3. \A now, at \in Time : ~AssertCurrentFinish(q, now, at)
      BY DEF AssertCurrentFinish, TypeOK
    <3>4. ~Exit(q)
      BY DEF Exit, TypeOK
    <3>5. work' # work
      OBVIOUS
    <3>6. QED
      BY <2>1, <3>1, <3>2, <3>3, <3>4, <3>5
         DEF ProcStep, AcquireProcessLock, RuntimeAlreadyOwned, BeginShutdown,
             WorkersQuiesced, QuiescenceTimeout, LossRecordingDone, CloseScope, PipeClosed,
             ListenerLost, GuardAcquire, GuardAcquired, HeartbeatAttempt, HeartbeatContinue,
             RecordLost, ReleaseOwnership, FinishStart, waitVars
  <2>3. status[p] = "OWNED" /\ SameOwnership(record[p], row)
    BY <2>2 DEF Dispatch, SendLoss, LocalLoss, PersistedLoss
  <2>4. QED
    BY <2>3 DEF SameOwnership, Ledger, OwnMemory
<1>2. Spec => [](TypeOK /\ Ledger)
  BY TypeCorrect, LedgerInvariant, PTL
<1>3. QED
  BY <1>1, <1>2, PTL DEF Spec, DispatchFenced

-----------------------------------------------------------------------------
(***************************************************************************)
(* The inductive invariant of the handover: the ledger says who was given  *)
(* which generation, Handover adds what each process may still be doing in *)
(* each phase of its life.                                                 *)
(***************************************************************************)

Unstarted == {"new", "locked", "acquiring", "starting"}
Drained == {"recording", "releasing", "closing", "stopped", "stuck"}

\* A process works only between its start and its exit, a failed start never did,
\* and the guard has no record before guard.acquire returns.
StartedOnce(p) ==
  /\ phase[p] \in Unstarted \cup {"exited"} => work[p] = "idle"
  /\ phase[p] \in {"new", "locked", "acquiring", "exited"} => record[p].gen = 0
  /\ path[p] = "startup" => phase[p] \in Drained /\ work[p] = "idle"
  /\ path[p] = "scoped" => "scoped" \in Kinds

\* Past its drain a process that is still fenced by a mere cleanup has no call
\* under way, a queued loss record stands for a real loss, and a lost
\* long-running process is not running.
LossKept(p) ==
  /\ phase[p] \in Drained => work[p] = "idle" \/ lossReason[p] # "cleanup"
  /\ pendingLoss[p] # "none" => status[p] = "LOST" /\ lossReason[p] # "cleanup"
  /\ phase[p] = "running" /\ path[p] = "runtime" => status[p] = "OWNED"

\* A long-running stop remembers workers that did not quiesce, and a process
\* keeps the pipe until it has stopped, unless the OS closed it.
ScopeKept(p) ==
  /\ phase[p] \in Drained /\ path[p] = "runtime" =>
       work[p] = "idle" \/ (unsafe[p] /\ phase[p] # "stopped")
  /\ phase[p] \notin {"new", "exited", "stopped"} => pipe = p \/ pipeLost[p]

LifeKept(p) == StartedOnce(p) /\ LossKept(p) /\ ScopeKept(p)

\* A process is given one generation, after it has the lock; a recorded loss is
\* a real one, for good; a released generation no longer has a row.
Outcomes ==
  \A e \in events :
    /\ \A f \in events : e.owner = f.owner => e.gen = f.gen
    /\ phase[e.owner] \notin {"new", "locked"}
    /\ e.type = "LOST" => status[e.owner] = "LOST" /\ lossReason[e.owner] # "cleanup"
    /\ e.type = "RELEASED" => e.gen # row.gen

Handover == (\A p \in Proc : LifeKept(p)) /\ Outcomes

-----------------------------------------------------------------------------
(***************************************************************************)
(* A process touches only its own memory.                                  *)
(***************************************************************************)

\* Nothing that belongs to q is changed.
Untouched(q) ==
  /\ phase'[q] = phase[q] /\ path'[q] = path[q] /\ status'[q] = status[q]
  /\ lossReason'[q] = lossReason[q] /\ record'[q] = record[q]
  /\ pendingLoss'[q] = pendingLoss[q] /\ work'[q] = work[q]
  /\ unsafe'[q] = unsafe[q] /\ pipeLost'[q] = pipeLost[q] /\ hb'[q] = hb[q]
  /\ pipe = q => pipe' = q

\* The process-wide handlers of one process reach no other: the only things
\* shared are the pipe and the store.
LEMMA OthersUntouched ==
  ASSUME TypeOK, NEW p \in Proc, ProcStep(p), NEW q \in Proc, q # p
  PROVE  Untouched(q)
<1> USE DEF storeVars, guardVars, stopVars, lockVars, waitVars, TypeOK
<1>m. ASSUME NEW reason, NEW rec, NEW next, MarkLost(p, reason, rec, next)
      PROVE  /\ phase'[q] = phase[q] /\ status'[q] = status[q] /\ record'[q] = record[q]
             /\ lossReason'[q] = lossReason[q] /\ pendingLoss'[q] = pendingLoss[q]
  BY <1>m DEF MarkLost
<1>f. ASSUME NEW reason, NEW rec, FailStart(p, reason, rec)
      PROVE  /\ phase'[q] = phase[q] /\ status'[q] = status[q] /\ record'[q] = record[q]
             /\ lossReason'[q] = lossReason[q] /\ pendingLoss'[q] = pendingLoss[q]
             /\ path'[q] = path[q]
  BY <1>f, <1>m DEF FailStart
<1>1. CASE AcquireProcessLock(p)
  BY <1>1, ConstantsAssumption DEF AcquireProcessLock, Untouched
<1>2. CASE RuntimeAlreadyOwned(p)
  BY <1>2 DEF RuntimeAlreadyOwned, Untouched
<1>3. CASE BeginShutdown(p)
  BY <1>3, <1>m DEF BeginShutdown, Untouched
<1>4. CASE WorkersQuiesced(p)
  BY <1>4 DEF WorkersQuiesced, Untouched
<1>5. CASE QuiescenceTimeout(p)
  BY <1>5, <1>m DEF QuiescenceTimeout, Untouched
<1>6. CASE LossRecordingDone(p)
  BY <1>6 DEF LossRecordingDone, Untouched
<1>7. CASE CloseScope(p)
  BY <1>7 DEF CloseScope, Untouched
<1>8. CASE Exit(p)
  BY <1>8 DEF Exit, Untouched
<1>9. CASE PipeClosed(p)
  BY <1>9 DEF PipeClosed, Untouched
<1>10. CASE ListenerLost(p)
  BY <1>10, <1>m DEF ListenerLost, Untouched
<1>11. ASSUME NEW now \in Time, GuardAcquire(p, now) PROVE Untouched(q)
  BY <1>11, <1>f DEF GuardAcquire, Untouched
<1>12. ASSUME NEW now \in Time, GuardAcquired(p, now) PROVE Untouched(q)
  BY <1>12, <1>f DEF GuardAcquired, Untouched
<1>13. ASSUME NEW now \in Time, Dispatch(p, now) PROVE Untouched(q)
  BY <1>13, <1>m DEF Dispatch, Untouched
<1>14. ASSUME NEW now \in Time, Settle(p, now) PROVE Untouched(q)
  BY <1>14, <1>m DEF Settle, Untouched
<1>15. ASSUME NEW now \in Time, HeartbeatAttempt(p, now) PROVE Untouched(q)
  BY <1>15, <1>m DEF HeartbeatAttempt, Untouched
<1>16. ASSUME NEW now \in Time, HeartbeatContinue(p, now) PROVE Untouched(q)
  BY <1>16, <1>m DEF HeartbeatContinue, Untouched
<1>17. ASSUME NEW now \in Time, RecordLost(p, now) PROVE Untouched(q)
  BY <1>17 DEF RecordLost, Untouched
<1>18. ASSUME NEW now \in Time, ReleaseOwnership(p, now) PROVE Untouched(q)
  BY <1>18, <1>m DEF ReleaseOwnership, Untouched
<1>19. ASSUME NEW now \in Time, NEW at \in Time, FinishStart(p, now, at) PROVE Untouched(q)
  BY <1>19, <1>f DEF FinishStart, Untouched
<1>20. ASSUME NEW now \in Time, NEW at \in Time, AssertCurrentFinish(p, now, at)
       PROVE  Untouched(q)
  BY <1>20, <1>m DEF AssertCurrentFinish, Untouched
<1>21. QED
  BY <1>1, <1>2, <1>3, <1>4, <1>5, <1>6, <1>7, <1>8, <1>9, <1>10, <1>11, <1>12, <1>13,
     <1>14, <1>15, <1>16, <1>17, <1>18, <1>19, <1>20 DEF ProcStep

-----------------------------------------------------------------------------
(***************************************************************************)
(* What a loss does to the guard.                                          *)
(***************************************************************************)

\* The checks and the heartbeat report real losses, never a cleanup fence.
LEMMA ReportedLossIsReal ==
  ASSUME NEW p, NEW now, NEW at
  PROVE  /\ LocalLoss(p, now) \notin CleanupReasons
         /\ SendLoss(p, now) \notin CleanupReasons
         /\ CheckLoss(p, now, at) \notin CleanupReasons
         /\ RenewalLoss(p, now) \notin CleanupReasons
BY DEF LocalLoss, SendLoss, CheckLoss, PersistedLoss, RenewalLoss, CleanupReasons

\* markLost fences the guard; a real loss is never hidden by a cleanup fence,
\* earlier or later, and only a real loss is queued for the store.
LEMMA MarkLostGuard ==
  ASSUME TypeOK, NEW p \in Proc, NEW reason, NEW rec, NEW next,
         MarkLost(p, reason, rec, next), LossKept(p)
  PROVE  /\ status'[p] = "LOST" /\ record'[p] = rec
         /\ reason \notin CleanupReasons => lossReason'[p] # "cleanup"
         /\ status[p] = "LOST" /\ lossReason[p] # "cleanup" => lossReason'[p] # "cleanup"
         /\ pendingLoss'[p] # "none" => lossReason'[p] # "cleanup"
         /\ phase'[p] = next \/ (phase[p] = "running" /\ phase'[p] = "draining")
         /\ phase[p] = "running" /\ path[p] = "runtime" /\ reason \notin CleanupReasons =>
              phase'[p] = "draining"
<1>1. /\ status'[p] = "LOST" /\ record'[p] = rec
      /\ lossReason'[p] = IF LossTakes(p, reason) THEN ReasonClass(reason) ELSE lossReason[p]
      /\ pendingLoss'[p] = IF LossTakes(p, reason) THEN LossToRecord(p, reason, rec)
                           ELSE pendingLoss[p]
      /\ phase'[p] = IF LossTakes(p, reason) THEN PhaseAfterLoss(p, reason, next) ELSE next
  BY DEF MarkLost, TypeOK
<1>2. reason \notin CleanupReasons => ReasonClass(reason) # "cleanup"
  BY DEF ReasonClass
<1>3. phase[p] = "running" /\ path[p] = "runtime" => LossTakes(p, reason)
  BY DEF LossTakes, LossKept
<1>4. QED
  BY <1>1, <1>2, <1>3 DEF LossTakes, LossKept, LossToRecord, PhaseAfterLoss, CleanupReasons

\* A loss found on the way (by a check, a heartbeat or the listener) keeps what
\* is known of the process, whatever phase it is in.
LEMMA LossOnTheWay ==
  ASSUME TypeOK, NEW p \in Proc, LifeKept(p), NEW reason, reason \notin CleanupReasons,
         MarkLost(p, reason, record[p], phase[p]),
         work'[p] \in {work[p], "idle"}, path'[p] = path[p], unsafe'[p] = unsafe[p],
         pipeLost'[p] = pipeLost[p], pipe' = pipe
  PROVE  LifeKept(p)'
<1>1. /\ status'[p] = "LOST" /\ record'[p] = record[p] /\ lossReason'[p] # "cleanup"
      /\ phase'[p] = phase[p] \/ (phase[p] = "running" /\ phase'[p] = "draining")
      /\ phase[p] = "running" /\ path[p] = "runtime" => phase'[p] = "draining"
  BY MarkLostGuard DEF LifeKept
<1>2. StartedOnce(p)'
  BY <1>1 DEF LifeKept, StartedOnce, Unstarted, Drained
<1>3. LossKept(p)'
  BY <1>1 DEF LossKept
<1>4. ScopeKept(p)'
  BY <1>1 DEF LifeKept, ScopeKept, Drained
<1>5. QED
  BY <1>2, <1>3, <1>4 DEF LifeKept

\* A failed start leaves a process without work, on its way to release.
LEMMA FailStartKept ==
  ASSUME TypeOK, NEW p \in Proc, LifeKept(p), phase[p] \in {"locked", "acquiring", "starting"},
         NEW reason, NEW rec, FailStart(p, reason, rec),
         UNCHANGED <<work, unsafe, pipeLost, pipe>>
  PROVE  LifeKept(p)'
<1>1. MarkLost(p, reason, rec, "releasing") /\ path'[p] = "startup"
  BY DEF FailStart, TypeOK
<1>2. /\ status'[p] = "LOST" /\ phase'[p] = "releasing"
      /\ pendingLoss'[p] # "none" => lossReason'[p] # "cleanup"
  BY <1>1, MarkLostGuard DEF LifeKept
<1>3. work'[p] = "idle"
  BY DEF LifeKept, StartedOnce, Unstarted
<1>4. StartedOnce(p)' /\ LossKept(p)' /\ ScopeKept(p)'
  BY <1>1, <1>2, <1>3 DEF LifeKept, StartedOnce, LossKept, ScopeKept, Unstarted, Drained
<1>5. QED
  BY <1>4 DEF LifeKept

-----------------------------------------------------------------------------
(***************************************************************************)
(* Handover is inductive.                                                  *)
(***************************************************************************)

\* Before any process starts nothing has been handed over.
LEMMA HandoverInit == Init => Handover
BY DEF Init, Handover, LifeKept, StartedOnce, LossKept, ScopeKept, Outcomes, Unstarted,
       Drained, NoRow

\* Every step of a process keeps what is known of its own life.
LEMMA LifeStep ==
  ASSUME TypeOK, Ledger, NEW p \in Proc, LifeKept(p), ProcStep(p)
  PROVE  LifeKept(p)'
<1> USE DEF storeVars, guardVars, stopVars, lockVars, waitVars
<1> DEFINE Life == LifeKept(p)'
<1>l. LossKept(p)
  BY DEF LifeKept
<1>r. OwnMemory(p)
  BY DEF Ledger
<1> HIDE DEF Life
<1>1. CASE AcquireProcessLock(p)
  <2>1. /\ phase[p] = "new" /\ phase'[p] = "locked" /\ pipe' = p /\ path'[p] \in Kinds
        /\ UNCHANGED <<status, lossReason, record, pendingLoss, work, unsafe, pipeLost>>
    BY <1>1 DEF AcquireProcessLock, TypeOK
  <2>2. QED
    BY <2>1, ConstantsAssumption
       DEF Life, LifeKept, StartedOnce, LossKept, ScopeKept, Unstarted, Drained
<1>2. CASE RuntimeAlreadyOwned(p)
  <2>1. /\ phase[p] = "new" /\ phase'[p] = "exited"
        /\ UNCHANGED <<path, status, lossReason, record, pendingLoss, work, unsafe, pipeLost, pipe>>
    BY <1>2 DEF RuntimeAlreadyOwned, TypeOK
  <2>2. QED
    BY <2>1 DEF Life, LifeKept, StartedOnce, LossKept, ScopeKept, Unstarted, Drained
<1>3. CASE BeginShutdown(p)
  <2>1. /\ phase[p] = "running"
        /\ \E reason : MarkLost(p, reason, record[p], "draining")
        /\ UNCHANGED <<path, work, unsafe, pipeLost, pipe>>
    BY <1>3 DEF BeginShutdown
  <2>2. /\ status'[p] = "LOST" /\ record'[p] = record[p] /\ phase'[p] = "draining"
        /\ pendingLoss'[p] # "none" => lossReason'[p] # "cleanup"
    BY <2>1, <1>l, MarkLostGuard
  <2>3. QED
    BY <2>1, <2>2 DEF Life, LifeKept, StartedOnce, LossKept, ScopeKept, Unstarted, Drained
<1>4. CASE WorkersQuiesced(p)
  <2>1. /\ phase[p] = "draining" /\ work[p] = "idle" /\ phase'[p] \in {"recording", "releasing"}
        /\ UNCHANGED <<path, status, lossReason, record, pendingLoss, work, unsafe, pipeLost, pipe>>
    BY <1>4 DEF WorkersQuiesced, Quiesced, AfterQuiescence, TypeOK
  <2>2. QED
    BY <2>1 DEF Life, LifeKept, StartedOnce, LossKept, ScopeKept, Unstarted, Drained
<1>5. CASE QuiescenceTimeout(p)
  <2>1. /\ phase[p] = "draining" /\ unsafe'[p] = TRUE
        /\ AfterQuiescence(p) \in {"recording", "releasing"}
        /\ \E reason : /\ reason \notin CleanupReasons
                       /\ MarkLost(p, reason, record[p], AfterQuiescence(p))
        /\ UNCHANGED <<path, work, pipeLost, pipe>>
    BY <1>5 DEF QuiescenceTimeout, AfterQuiescence, CleanupReasons, TypeOK
  <2>2. /\ status'[p] = "LOST" /\ record'[p] = record[p] /\ phase'[p] \in {"recording", "releasing"}
        /\ lossReason'[p] # "cleanup"
    BY <2>1, <1>l, MarkLostGuard
  <2>3. QED
    BY <2>1, <2>2 DEF Life, LifeKept, StartedOnce, LossKept, ScopeKept, Unstarted, Drained
<1>6. CASE LossRecordingDone(p)
  <2>1. /\ phase[p] = "recording" /\ phase'[p] \in {"releasing", "closing"}
        /\ UNCHANGED <<path, status, lossReason, record, pendingLoss, work, unsafe, pipeLost, pipe>>
    BY <1>6 DEF LossRecordingDone, TypeOK
  <2>2. QED
    BY <2>1 DEF Life, LifeKept, StartedOnce, LossKept, ScopeKept, Unstarted, Drained
<1>7. CASE CloseScope(p)
  <2>1. /\ phase[p] = "closing"
        /\ UNCHANGED <<path, status, lossReason, record, pendingLoss, work, unsafe, pipeLost>>
        /\ \/ phase'[p] = "stuck" /\ pipe' = pipe
           \/ phase'[p] = "stopped" /\ ~(path[p] = "runtime" /\ unsafe[p])
    BY <1>7 DEF CloseScope, RetainScope, TypeOK
  <2>2. QED
    BY <2>1 DEF Life, LifeKept, StartedOnce, LossKept, ScopeKept, Unstarted, Drained
<1>8. CASE Exit(p)
  <2>1. /\ phase'[p] = "exited" /\ path'[p] = "runtime" /\ status'[p] = "LOST"
        /\ lossReason'[p] = "none" /\ record'[p] = NoRow /\ work'[p] = "idle"
    BY <1>8 DEF Exit, TypeOK
  <2>2. QED
    BY <2>1 DEF Life, LifeKept, StartedOnce, LossKept, ScopeKept, Unstarted, Drained, NoRow
<1>9. CASE PipeClosed(p)
  <2>1. /\ pipeLost'[p] = TRUE
        /\ UNCHANGED <<phase, path, status, lossReason, record, pendingLoss, work, unsafe>>
    BY <1>9 DEF PipeClosed, TypeOK
  <2>2. QED
    BY <2>1 DEF Life, LifeKept, StartedOnce, LossKept, ScopeKept, Unstarted, Drained
<1>10. CASE ListenerLost(p)
  <2>1. /\ MarkLost(p, "PROCESS_LOCK_LOST", record[p], phase[p])
        /\ UNCHANGED <<path, work, unsafe, pipeLost, pipe>>
    BY <1>10 DEF ListenerLost
  <2>2. QED
    BY <2>1, LossOnTheWay DEF Life, CleanupReasons
<1>11. ASSUME NEW now \in Time, GuardAcquire(p, now) PROVE Life
  <2>1. phase[p] = "locked" /\ UNCHANGED <<work, unsafe, pipeLost, pipe>>
    BY <1>11 DEF GuardAcquire
  <2>2. CASE FailStart(p, "STARTUP_FAILED", NoRow)
    BY <2>1, <2>2, FailStartKept DEF Life
  <2>3. CASE phase' = [phase EXCEPT ![p] = "acquiring"] /\ UNCHANGED <<guardVars, path, canRelease>>
    <3>1. phase'[p] = "acquiring"
      BY <2>3 DEF TypeOK
    <3>2. QED
      BY <2>1, <2>3, <3>1
         DEF Life, LifeKept, StartedOnce, LossKept, ScopeKept, Unstarted, Drained
  <2>4. QED
    BY <1>11, <2>2, <2>3 DEF GuardAcquire
<1>12. ASSUME NEW now \in Time, GuardAcquired(p, now) PROVE Life
  <2>1. phase[p] = "acquiring" /\ UNCHANGED <<work, unsafe, pipeLost, pipe>>
    BY <1>12 DEF GuardAcquired
  <2>2. CASE \E reason, rec : FailStart(p, reason, rec)
    BY <2>1, <2>2, FailStartKept DEF Life
  <2>3. CASE /\ status[p] # "LOST"
             /\ phase' = [phase EXCEPT ![p] = "starting"]
             /\ UNCHANGED <<lossReason, pendingLoss, path, canRelease>>
    <3>1. phase'[p] = "starting" /\ pendingLoss[p] = "none"
      BY <2>3, <1>l DEF TypeOK, LossKept
    <3>2. QED
      BY <2>1, <2>3, <3>1
         DEF Life, LifeKept, StartedOnce, LossKept, ScopeKept, Unstarted, Drained
  <2>4. QED
    BY <1>12, <2>2, <2>3 DEF GuardAcquired
<1>13. ASSUME NEW now \in Time, Dispatch(p, now) PROVE Life
  <2>1. phase[p] = "running" /\ UNCHANGED <<path, unsafe, pipeLost, pipe>>
    BY <1>13 DEF Dispatch
  <2>2. CASE MarkLost(p, SendLoss(p, now), record[p], phase[p]) /\ UNCHANGED work
    BY <2>1, <2>2, LossOnTheWay, ReportedLossIsReal DEF Life
  <2>3. CASE UNCHANGED <<status, lossReason, pendingLoss, phase>>
    BY <2>1, <2>3 DEF Life, LifeKept, StartedOnce, LossKept, ScopeKept, Unstarted, Drained
  <2>4. QED
    BY <1>13, <2>2, <2>3 DEF Dispatch
<1>14. ASSUME NEW now \in Time, Settle(p, now) PROVE Life
  <2>1. /\ work[p] = "sent" /\ work'[p] \in {"idle", "settled"}
        /\ UNCHANGED <<path, unsafe, pipeLost, pipe>>
    BY <1>14 DEF Settle, TypeOK
  <2>2. CASE MarkLost(p, LocalLoss(p, now), record[p], phase[p]) /\ work' = [work EXCEPT ![p] = "idle"]
    <3>1. work'[p] = "idle"
      BY <2>2 DEF TypeOK
    <3>2. QED
      BY <2>1, <2>2, <3>1, LossOnTheWay, ReportedLossIsReal DEF Life
  <2>3. CASE UNCHANGED <<guardVars, phase>>
    BY <2>1, <2>3 DEF Life, LifeKept, StartedOnce, LossKept, ScopeKept, Unstarted, Drained
  <2>4. QED
    BY <1>14, <2>2, <2>3 DEF Settle
<1>15. ASSUME NEW now \in Time, HeartbeatAttempt(p, now) PROVE Life
  <2>1. UNCHANGED <<path, work, unsafe, pipeLost, pipe>>
    BY <1>15 DEF HeartbeatAttempt
  <2>2. CASE \E reason : reason \notin CleanupReasons /\ MarkLost(p, reason, record[p], phase[p])
    BY <2>1, <2>2, LossOnTheWay DEF Life
  <2>3. CASE UNCHANGED <<guardVars, phase>>
    BY <2>1, <2>3 DEF Life, LifeKept, StartedOnce, LossKept, ScopeKept
  <2>4. QED
    <3>1. /\ "HEARTBEAT_EXPIRED" \notin CleanupReasons
          /\ "PROCESS_LOCK_LOST" \notin CleanupReasons
      BY DEF CleanupReasons
    <3>2. QED
      BY <1>15, <2>2, <2>3, <3>1 DEF HeartbeatAttempt
<1>16. ASSUME NEW now \in Time, HeartbeatContinue(p, now) PROVE Life
  <2>1. UNCHANGED <<path, work, unsafe, pipeLost, pipe>>
    BY <1>16 DEF HeartbeatContinue
  <2>2. CASE MarkLost(p, RenewalLoss(p, now), record[p], phase[p])
    BY <2>1, <2>2, LossOnTheWay, ReportedLossIsReal DEF Life
  <2>3. CASE UNCHANGED <<guardVars, phase>>
    BY <2>1, <2>3 DEF Life, LifeKept, StartedOnce, LossKept, ScopeKept
  <2>4. CASE /\ record' = [record EXCEPT ![p].hb = IF hb[p].st = "renewed" THEN hb[p].at ELSE @]
             /\ UNCHANGED <<status, lossReason, pendingLoss, phase>>
    <3>1. record'[p].gen = record[p].gen
      BY <2>4 DEF TypeOK, Row
    <3>2. QED
      BY <2>1, <2>4, <3>1 DEF Life, LifeKept, StartedOnce, LossKept, ScopeKept
  <2>5. QED
    BY <1>16, <2>2, <2>3, <2>4 DEF HeartbeatContinue
<1>17. ASSUME NEW now \in Time, RecordLost(p, now) PROVE Life
  <2>1. /\ pendingLoss'[p] = "none"
        /\ UNCHANGED <<phase, path, status, lossReason, record, work, unsafe, pipeLost, pipe>>
    BY <1>17 DEF RecordLost, TypeOK
  <2>2. QED
    BY <2>1 DEF Life, LifeKept, StartedOnce, LossKept, ScopeKept
<1>18. ASSUME NEW now \in Time, ReleaseOwnership(p, now) PROVE Life
  <2>1. /\ phase[p] = "releasing" /\ AfterRelease(p) \in {"closing", "recording"}
        /\ UNCHANGED <<path, work, unsafe, pipeLost, pipe>>
    BY <1>18 DEF ReleaseOwnership, AfterRelease
  <2>2. CASE \E reason : /\ reason \notin CleanupReasons
                         /\ MarkLost(p, reason, record[p], AfterRelease(p))
    <3>1. /\ status'[p] = "LOST" /\ record'[p] = record[p] /\ lossReason'[p] # "cleanup"
          /\ phase'[p] = AfterRelease(p)
      BY <2>1, <2>2, <1>l, MarkLostGuard
    <3>2. QED
      BY <2>1, <3>1 DEF Life, LifeKept, StartedOnce, LossKept, ScopeKept, Unstarted, Drained
  <2>3. CASE UNCHANGED guardVars /\ phase' = [phase EXCEPT ![p] = AfterRelease(p)]
    <3>1. phase'[p] = AfterRelease(p)
      BY <2>3 DEF TypeOK
    <3>2. QED
      BY <2>1, <2>3, <3>1
         DEF Life, LifeKept, StartedOnce, LossKept, ScopeKept, Unstarted, Drained
  <2>4. QED
    <3>1. /\ "PERSISTED_OWNERSHIP_MISMATCH" \notin CleanupReasons
          /\ "PROCESS_LOCK_LOST" \notin CleanupReasons
      BY DEF CleanupReasons
    <3>2. QED
      BY <1>18, <2>2, <2>3, <3>1 DEF ReleaseOwnership
<1>19. ASSUME NEW now \in Time, NEW at \in Time, FinishStart(p, now, at) PROVE Life
  <2>1. phase[p] = "starting" /\ UNCHANGED <<work, unsafe, pipeLost, pipe>>
    BY <1>19 DEF FinishStart
  <2>2. CASE \E reason, rec : FailStart(p, reason, rec)
    BY <2>1, <2>2, FailStartKept DEF Life
  <2>3. CASE /\ status[p] = "OWNED"
             /\ phase' = [phase EXCEPT ![p] = "running"]
             /\ UNCHANGED <<status, lossReason, pendingLoss, path, canRelease>>
    <3>1. phase'[p] = "running"
      BY <2>3 DEF TypeOK
    <3>2. QED
      BY <2>1, <2>3, <3>1
         DEF Life, LifeKept, StartedOnce, LossKept, ScopeKept, Unstarted, Drained
  <2>4. QED
    BY <1>19, <2>2, <2>3 DEF FinishStart
<1>20. ASSUME NEW now \in Time, NEW at \in Time, AssertCurrentFinish(p, now, at)
       PROVE  Life
  <2>1. work[p] = "settled" /\ work'[p] = "idle" /\ UNCHANGED <<path, unsafe, pipeLost, pipe>>
    BY <1>20 DEF AssertCurrentFinish, TypeOK
  <2>2. CASE MarkLost(p, CheckLoss(p, now, at), record[p], phase[p])
    BY <2>1, <2>2, LossOnTheWay, ReportedLossIsReal DEF Life
  <2>3. CASE UNCHANGED <<guardVars, phase>>
    BY <2>1, <2>3 DEF Life, LifeKept, StartedOnce, LossKept, ScopeKept, Unstarted, Drained
  <2>4. CASE /\ status[p] = "OWNED" /\ CheckLoss(p, now, at) = ""
             /\ record' = [record EXCEPT ![p] = checking[p]]
             /\ UNCHANGED <<status, lossReason, pendingLoss, phase>>
    <3>1. SameOwnership(record[p], checking[p]) /\ record'[p] = checking[p]
      BY <2>4 DEF CheckLoss, LocalLoss, PersistedLoss, TypeOK
    <3>2. record'[p].gen = record[p].gen
      BY <3>1 DEF SameOwnership
    <3>3. QED
      BY <2>1, <2>4, <3>2 DEF Life, LifeKept, StartedOnce, LossKept, ScopeKept, Unstarted, Drained
  <2>5. QED
    BY <1>20, <2>2, <2>3, <2>4 DEF AssertCurrentFinish
<1>21. QED
  BY <1>1, <1>2, <1>3, <1>4, <1>5, <1>6, <1>7, <1>8, <1>9, <1>10, <1>11, <1>12, <1>13,
     <1>14, <1>15, <1>16, <1>17, <1>18, <1>19, <1>20 DEF ProcStep, Life

-----------------------------------------------------------------------------
(***************************************************************************)
(* What a step of a process can do to the store, to its outbound call and  *)
(* to its loss.                                                            *)
(***************************************************************************)

Renews(p) ==
  /\ OwnsRow(p)
  /\ \E now \in Time : now >= row.hb /\ row' = [row EXCEPT !.hb = now]
  /\ UNCHANGED <<evGen, evAt, events>>

Grants(p) ==
  /\ phase[p] = "locked" /\ phase'[p] = "acquiring"
  /\ \E now \in Time : ~Rollback(now) /\ StoreAcquire(p, now)

RecordsLoss(p) ==
  /\ OwnsRow(p) /\ pendingLoss[p] # "none" /\ row' = row
  /\ \E at \in Nat : AppendEvent(p, row.gen, "LOST", at)

Releases(p) ==
  /\ OwnsRow(p) /\ phase[p] = "releasing" /\ ~HeartbeatInFlight(p) /\ lossReason[p] = "cleanup"
  /\ row' = NoRow
  /\ \E at \in Time : AppendEvent(p, row.gen, "RELEASED", at)

StoreStep(p) ==
  UNCHANGED storeVars \/ Renews(p) \/ Grants(p) \/ RecordsLoss(p) \/ Releases(p)

StartsCall(p) ==
  /\ work[p] # "sent" /\ work'[p] = "sent"
  /\ status[p] = "OWNED" /\ SameOwnership(record[p], row) /\ record'[p] = row
  /\ UNCHANGED storeVars

EndsCall(p) == work[p] = "sent" /\ work'[p] # "sent" /\ UNCHANGED storeVars

KeepsCall(p) ==
  /\ work'[p] = "sent" <=> work[p] = "sent"
  /\ work[p] = "sent" => record'[p].gen = record[p].gen

CallStep(p) == StartsCall(p) \/ EndsCall(p) \/ KeepsCall(p)

\* A process does not start twice, and a real loss of its guard is never undone.
OneWay(p) ==
  /\ phase[p] \notin {"new", "locked"} => phase'[p] \notin {"new", "locked"}
  /\ status[p] = "LOST" /\ lossReason[p] # "cleanup" =>
       status'[p] = "LOST" /\ lossReason'[p] # "cleanup"

\* Recorded times are natural numbers.
LEMMA LostAtType ==
  ASSUME TypeOK, NEW p \in Proc, NEW now \in Time
  PROVE  LostAt(p, now) \in Nat
<1>1. /\ record[p] \in Row /\ record[p].hb \in Nat /\ now \in Nat
      /\ Expiry(record[p]) \in Nat
  BY TimeType, ExpiryType DEF TypeOK, Row
<1>2. Larger(now, record[p].hb) \in Nat
  BY <1>1, LargerType
<1>3. QED
  BY <1>1, <1>2, LargerType DEF LostAt

\* The store changes only by a renewal of its owner, a grant to a process that
\* has just bound the pipe, a recorded loss of the owner, or its clean release.
LEMMA StoreSteps ==
  ASSUME TypeOK, NEW p \in Proc, ProcStep(p)
  PROVE  StoreStep(p)
<1>1. CASE \/ AcquireProcessLock(p) \/ RuntimeAlreadyOwned(p) \/ BeginShutdown(p)
           \/ WorkersQuiesced(p) \/ QuiescenceTimeout(p) \/ LossRecordingDone(p)
           \/ CloseScope(p) \/ Exit(p) \/ PipeClosed(p) \/ ListenerLost(p)
  BY <1>1 DEF StoreStep, AcquireProcessLock, RuntimeAlreadyOwned, BeginShutdown,
     WorkersQuiesced, QuiescenceTimeout, LossRecordingDone, CloseScope, Exit, PipeClosed,
     ListenerLost
<1>2. ASSUME NEW now \in Time, GuardAcquire(p, now) PROVE StoreStep(p)
  BY <1>2 DEF GuardAcquire, StoreStep, Grants, TypeOK
<1>3. ASSUME NEW now \in Time, HeartbeatAttempt(p, now) PROVE StoreStep(p)
  <2>1. UNCHANGED <<evGen, evAt, events>>
    BY <1>3 DEF HeartbeatAttempt
  <2>2. CASE UNCHANGED row
    BY <2>1, <2>2 DEF StoreStep, storeVars
  <2>3. CASE \E out \in {RenewOutcome(p, now), "busy"} :
               row' = [row EXCEPT !.hb = IF out = "renewed" THEN now ELSE @]
    <3>1. PICK out \in {RenewOutcome(p, now), "busy"} :
            row' = [row EXCEPT !.hb = IF out = "renewed" THEN now ELSE @]
      BY <2>3
    <3>2. CASE out = "renewed"
      <4>1. OwnsRow(p) /\ ~Rollback(now)
        BY <3>2 DEF RenewOutcome
      <4>2. row.hb \in Nat /\ evAt \in Nat /\ now \in Nat
        BY TimeType DEF TypeOK, Row
      <4>3. now >= row.hb
        BY <4>1, <4>2 DEF Rollback, Larger
      <4>4. QED
        BY <2>1, <3>1, <3>2, <4>1, <4>3 DEF StoreStep, Renews
    <3>3. CASE out # "renewed"
      <4>1. row' = row
        BY <3>1, <3>3 DEF TypeOK, Row
      <4>2. QED
        BY <2>1, <4>1 DEF StoreStep, storeVars
    <3>4. QED
      BY <3>2, <3>3
  <2>4. QED
    BY <1>3, <2>2, <2>3 DEF HeartbeatAttempt
<1>4. ASSUME NEW now \in Time, RecordLost(p, now) PROVE StoreStep(p)
  BY <1>4, LostAtType DEF RecordLost, StoreStep, RecordsLoss, storeVars
<1>5. ASSUME NEW now \in Time, ReleaseOwnership(p, now) PROVE StoreStep(p)
  <2>1. CASE UNCHANGED storeVars
    BY <2>1 DEF StoreStep
  <2>2. CASE /\ ~ReleaseRefused(p) /\ ReleaseOutcome(p, now) = "released"
             /\ AppendEvent(p, row.gen, "RELEASED", now)
             /\ row' = NoRow
    <3>1. OwnsRow(p) /\ lossReason[p] = "cleanup"
      BY <2>2 DEF ReleaseOutcome, ReleaseRefused
    <3>2. phase[p] = "releasing" /\ ~HeartbeatInFlight(p)
      BY <1>5 DEF ReleaseOwnership
    <3>3. QED
      BY <2>2, <3>1, <3>2 DEF StoreStep, Releases
  <2>3. QED
    BY <1>5, <2>1, <2>2 DEF ReleaseOwnership
<1>6. CASE \E now \in Time : \/ GuardAcquired(p, now) \/ Dispatch(p, now) \/ Settle(p, now)
                             \/ HeartbeatContinue(p, now)
  BY <1>6 DEF StoreStep, GuardAcquired, Dispatch, Settle, HeartbeatContinue
<1>7. CASE \E now, at \in Time : FinishStart(p, now, at) \/ AssertCurrentFinish(p, now, at)
  BY <1>7 DEF StoreStep, FinishStart, AssertCurrentFinish
<1>8. QED
  BY <1>1, <1>2, <1>3, <1>4, <1>5, <1>6, <1>7 DEF ProcStep

\* A call begins only after the synchronous comparison with the row, and while it
\* is under way its process does not change generation.
LEMMA CallSteps ==
  ASSUME TypeOK, NEW p \in Proc, LifeKept(p), ProcStep(p)
  PROVE  CallStep(p)
<1> USE DEF storeVars, guardVars, stopVars, lockVars, waitVars
<1>m. ASSUME NEW reason, NEW next, MarkLost(p, reason, record[p], next), UNCHANGED work
      PROVE  CallStep(p)
  BY <1>m DEF MarkLost, CallStep, KeepsCall, TypeOK
<1>u. ASSUME UNCHANGED <<record, work>> PROVE CallStep(p)
  BY <1>u DEF CallStep, KeepsCall
<1>i. ASSUME phase[p] \in Unstarted, UNCHANGED work PROVE CallStep(p)
  BY <1>i DEF LifeKept, StartedOnce, CallStep, KeepsCall
<1>1. CASE \/ AcquireProcessLock(p) \/ RuntimeAlreadyOwned(p) \/ WorkersQuiesced(p)
           \/ LossRecordingDone(p) \/ CloseScope(p) \/ PipeClosed(p)
  BY <1>1, <1>u DEF AcquireProcessLock, RuntimeAlreadyOwned, WorkersQuiesced,
     LossRecordingDone, CloseScope, PipeClosed
<1>2. CASE BeginShutdown(p) \/ QuiescenceTimeout(p) \/ ListenerLost(p)
  BY <1>2, <1>m DEF BeginShutdown, QuiescenceTimeout, ListenerLost
<1>3. CASE Exit(p)
  BY <1>3 DEF Exit, CallStep, EndsCall, KeepsCall, TypeOK
<1>4. CASE \E now \in Time : \/ GuardAcquire(p, now) \/ GuardAcquired(p, now)
                             \/ \E at \in Time : FinishStart(p, now, at)
  BY <1>4, <1>i DEF GuardAcquire, GuardAcquired, FinishStart, Unstarted
<1>5. ASSUME NEW now \in Time, Dispatch(p, now) PROVE CallStep(p)
  <2>1. CASE MarkLost(p, SendLoss(p, now), record[p], phase[p]) /\ UNCHANGED work
    BY <2>1, <1>m
  <2>2. CASE /\ SendLoss(p, now) = ""
             /\ record' = [record EXCEPT ![p] = row]
             /\ work' = [work EXCEPT ![p] = "sent"]
    <3>1. SameOwnership(record[p], row)
      BY <2>2 DEF SendLoss, LocalLoss, PersistedLoss
    <3>2. record'[p] = row /\ work'[p] = "sent"
      BY <2>2 DEF TypeOK
    <3>3. work[p] # "sent" /\ status[p] = "OWNED" /\ UNCHANGED storeVars
      BY <1>5 DEF Dispatch
    <3>4. QED
      BY <3>1, <3>2, <3>3 DEF CallStep, StartsCall
  <2>3. QED
    BY <1>5, <2>1, <2>2 DEF Dispatch
<1>6. ASSUME NEW now \in Time, Settle(p, now) PROVE CallStep(p)
  BY <1>6 DEF Settle, CallStep, EndsCall, TypeOK
<1>7. ASSUME NEW now \in Time, NEW at \in Time, AssertCurrentFinish(p, now, at) PROVE CallStep(p)
  BY <1>7 DEF AssertCurrentFinish, CallStep, KeepsCall, TypeOK
<1>8. ASSUME NEW now \in Time, HeartbeatAttempt(p, now) PROVE CallStep(p)
  BY <1>8, <1>m, <1>u DEF HeartbeatAttempt
<1>9. ASSUME NEW now \in Time, HeartbeatContinue(p, now) PROVE CallStep(p)
  <2>1. CASE record' = [record EXCEPT ![p].hb = IF hb[p].st = "renewed" THEN hb[p].at ELSE @]
    <3>1. record'[p].gen = record[p].gen /\ UNCHANGED work
      BY <1>9, <2>1 DEF HeartbeatContinue, TypeOK, Row
    <3>2. QED
      BY <3>1 DEF CallStep, KeepsCall
  <2>2. QED
    BY <1>9, <2>1, <1>m, <1>u DEF HeartbeatContinue
<1>10. ASSUME NEW now \in Time, RecordLost(p, now) PROVE CallStep(p)
  BY <1>10, <1>u DEF RecordLost
<1>11. ASSUME NEW now \in Time, ReleaseOwnership(p, now) PROVE CallStep(p)
  BY <1>11, <1>m, <1>u DEF ReleaseOwnership
<1>12. QED
  BY <1>1, <1>2, <1>3, <1>4, <1>5, <1>6, <1>7, <1>8, <1>9, <1>10, <1>11 DEF ProcStep

\* Phases only advance past the lock, and no step takes back a real loss: the
\* guard becomes owned only if it was not lost, and a cleanup fence is put up
\* only over a guard that was not lost.
LEMMA OneWaySteps ==
  ASSUME TypeOK, NEW p \in Proc, LifeKept(p), ProcStep(p)
  PROVE  OneWay(p)
<1> USE DEF storeVars, guardVars, stopVars, lockVars, waitVars
<1>l. LossKept(p)
  BY DEF LifeKept
<1>m. ASSUME NEW reason, NEW rec, NEW next, MarkLost(p, reason, rec, next),
             next = phase[p] \/ next \notin {"new", "locked"}
      PROVE  OneWay(p)
  BY <1>m, <1>l, MarkLostGuard DEF OneWay
<1>f. ASSUME NEW reason, NEW rec, FailStart(p, reason, rec) PROVE OneWay(p)
  BY <1>f, <1>m DEF FailStart
<1>u. ASSUME UNCHANGED <<status, lossReason>>,
             phase' = phase \/ \E ph : phase' = [phase EXCEPT ![p] = ph] /\ ph \notin {"new", "locked"}
      PROVE  OneWay(p)
  BY <1>u DEF OneWay, TypeOK
<1>1. CASE AcquireProcessLock(p)
  <2>1. phase[p] = "new" /\ UNCHANGED <<status, lossReason>>
    BY <1>1 DEF AcquireProcessLock
  <2>2. QED
    BY <2>1 DEF OneWay
<1>2. CASE \/ RuntimeAlreadyOwned(p) \/ WorkersQuiesced(p) \/ LossRecordingDone(p)
           \/ CloseScope(p) \/ PipeClosed(p)
  BY <1>2, <1>u DEF RuntimeAlreadyOwned, WorkersQuiesced, AfterQuiescence, LossRecordingDone,
     CloseScope, PipeClosed
<1>3. CASE BeginShutdown(p) \/ QuiescenceTimeout(p) \/ ListenerLost(p)
  BY <1>3, <1>m DEF BeginShutdown, QuiescenceTimeout, AfterQuiescence, ListenerLost
<1>4. CASE Exit(p)
  BY <1>4 DEF Exit, OneWay, TypeOK
<1>5. ASSUME NEW now \in Time, GuardAcquire(p, now) PROVE OneWay(p)
  BY <1>5, <1>f, <1>u DEF GuardAcquire
<1>6. ASSUME NEW now \in Time, GuardAcquired(p, now) PROVE OneWay(p)
  <2>1. CASE \E reason, rec : FailStart(p, reason, rec)
    BY <2>1, <1>f
  <2>2. CASE status[p] # "LOST" /\ phase' = [phase EXCEPT ![p] = "starting"]
    BY <2>2 DEF OneWay, TypeOK
  <2>3. QED
    BY <1>6, <2>1, <2>2 DEF GuardAcquired
<1>7. ASSUME NEW now \in Time, NEW at \in Time, FinishStart(p, now, at) PROVE OneWay(p)
  BY <1>7, <1>f, <1>u DEF FinishStart
<1>8. ASSUME NEW now \in Time, Dispatch(p, now) PROVE OneWay(p)
  BY <1>8, <1>m, <1>u DEF Dispatch
<1>9. ASSUME NEW now \in Time, Settle(p, now) PROVE OneWay(p)
  BY <1>9, <1>m, <1>u DEF Settle
<1>10. ASSUME NEW now \in Time, NEW at \in Time, AssertCurrentFinish(p, now, at) PROVE OneWay(p)
  BY <1>10, <1>m, <1>u DEF AssertCurrentFinish
<1>11. ASSUME NEW now \in Time, HeartbeatAttempt(p, now) PROVE OneWay(p)
  BY <1>11, <1>m, <1>u DEF HeartbeatAttempt
<1>12. ASSUME NEW now \in Time, HeartbeatContinue(p, now) PROVE OneWay(p)
  <2>1. CASE UNCHANGED <<status, lossReason, phase>>
    BY <2>1, <1>u
  <2>2. CASE \E reason : MarkLost(p, reason, record[p], phase[p])
    BY <2>2, <1>m
  <2>3. QED
    BY <1>12, <2>1, <2>2 DEF HeartbeatContinue
<1>13. ASSUME NEW now \in Time, RecordLost(p, now) PROVE OneWay(p)
  BY <1>13, <1>u DEF RecordLost
<1>14. ASSUME NEW now \in Time, ReleaseOwnership(p, now) PROVE OneWay(p)
  BY <1>14, <1>m, <1>u DEF ReleaseOwnership, AfterRelease
<1>15. QED
  BY <1>1, <1>2, <1>3, <1>4, <1>5, <1>6, <1>7, <1>8, <1>9, <1>10, <1>11, <1>12, <1>13,
     <1>14 DEF ProcStep

\* What is known of the log survives every step: a grant goes to a process that
\* has no event yet, a loss or a release is logged under the generation its
\* process was given.
LEMMA OutcomesStep ==
  ASSUME TypeOK, Ledger, Handover, NEW p \in Proc, ProcStep(p)
  PROVE  Outcomes'
<1>1. LifeKept(p) /\ OneWay(p) /\ StoreStep(p)
  BY OneWaySteps, StoreSteps DEF Handover
<1>2. \A e \in events :
        /\ e.owner \in Proc /\ e.gen \in Nat /\ e.gen # 0 /\ e.gen <= evGen
        /\ phase'[e.owner] \notin {"new", "locked"}
        /\ e.type = "LOST" => status'[e.owner] = "LOST" /\ lossReason'[e.owner] # "cleanup"
        /\ \A f \in events : e.owner = f.owner => e.gen = f.gen
        /\ e.type = "RELEASED" => e.gen # row.gen
  <2> SUFFICES ASSUME NEW e \in events
               PROVE  /\ e.owner \in Proc /\ e.gen \in Nat /\ e.gen # 0 /\ e.gen <= evGen
                      /\ phase'[e.owner] \notin {"new", "locked"}
                      /\ e.type = "LOST" =>
                           status'[e.owner] = "LOST" /\ lossReason'[e.owner] # "cleanup"
                      /\ \A f \in events : e.owner = f.owner => e.gen = f.gen
                      /\ e.type = "RELEASED" => e.gen # row.gen
    OBVIOUS
  <2>1. e.owner \in Proc /\ e.gen \in Nat /\ e.gen # 0 /\ e.gen <= evGen
    BY DEF TypeOK, Event, Ledger
  <2>2. /\ phase[e.owner] \notin {"new", "locked"}
        /\ e.type = "LOST" => status[e.owner] = "LOST" /\ lossReason[e.owner] # "cleanup"
        /\ \A f \in events : e.owner = f.owner => e.gen = f.gen
        /\ e.type = "RELEASED" => e.gen # row.gen
    BY DEF Handover, Outcomes
  <2>3. CASE e.owner = p
    BY <1>1, <2>1, <2>2, <2>3 DEF OneWay
  <2>4. CASE e.owner # p
    BY <2>1, <2>2, <2>4, OthersUntouched DEF Untouched
  <2>5. QED
    BY <2>3, <2>4
<1>a. ASSUME NEW g \in Nat, NEW type \in EventTypes,
             events' = events \cup {[gen |-> g, type |-> type, owner |-> p]},
             \A f \in events : f.owner = p => f.gen = g,
             phase'[p] \notin {"new", "locked"},
             type = "LOST" => status'[p] = "LOST" /\ lossReason'[p] # "cleanup",
             \A f \in events : f.type = "RELEASED" => f.gen # row'.gen,
             type = "RELEASED" => g # row'.gen
      PROVE  Outcomes'
  BY <1>2, <1>a DEF Outcomes
<1>w. ASSUME OwnsRow(p)
      PROVE  /\ row.gen \in Nat \ {0}
             /\ \E e \in events : e.gen = row.gen /\ e.owner = p
  BY <1>w, ConstantsAssumption DEF OwnsRow, Ledger, Granted, TypeOK, Row
<1>3. CASE UNCHANGED storeVars
  BY <1>2, <1>3 DEF Outcomes, storeVars
<1>4. CASE Renews(p)
  <2>1. row'.gen = row.gen /\ events' = events
    BY <1>4 DEF Renews, TypeOK, Row
  <2>2. QED
    BY <1>2, <2>1 DEF Outcomes
<1>5. CASE Grants(p)
  <2>1. /\ phase[p] = "locked" /\ phase'[p] = "acquiring"
        /\ \E type \in {"ACQUIRED", "TAKEN_OVER"} :
             events' = events \cup {[gen |-> NextGeneration, type |-> type, owner |-> p]}
        /\ row'.gen = NextGeneration
    BY <1>5 DEF Grants, StoreAcquire, AppendEvent
  <2>2. NextGeneration \in Nat /\ NextGeneration > evGen
    <3>1. row.gen \in Nat /\ evGen \in Nat
      BY DEF TypeOK, Row
    <3>2. QED
      BY <3>1 DEF NextGeneration, Larger
  <2>3. \A f \in events : f.owner # p
    BY <2>1 DEF Handover, Outcomes
  <2>4. \A f \in events : f.gen # NextGeneration
    BY <1>2, <2>2 DEF TypeOK
  <2>5. QED
    BY <1>a, <2>1, <2>2, <2>3, <2>4 DEF EventTypes
<1>6. CASE RecordsLoss(p)
  <2>1. /\ events' = events \cup {[gen |-> row.gen, type |-> "LOST", owner |-> p]}
        /\ row' = row /\ OwnsRow(p) /\ pendingLoss[p] # "none"
    BY <1>6 DEF RecordsLoss, AppendEvent
  <2>2. status[p] = "LOST" /\ lossReason[p] # "cleanup"
    BY <1>1, <2>1 DEF LifeKept, LossKept
  <2>3. status'[p] = "LOST" /\ lossReason'[p] # "cleanup"
    BY <1>1, <2>2 DEF OneWay
  <2>4. QED
    BY <1>a, <1>w, <1>2, <2>1, <2>3 DEF EventTypes
<1>7. CASE Releases(p)
  <2>1. /\ events' = events \cup {[gen |-> row.gen, type |-> "RELEASED", owner |-> p]}
        /\ row'.gen = 0 /\ OwnsRow(p)
    BY <1>7 DEF Releases, AppendEvent, NoRow
  <2>2. QED
    BY <1>a, <1>w, <1>2, <2>1 DEF EventTypes
<1>8. QED
  BY <1>1, <1>3, <1>4, <1>5, <1>6, <1>7 DEF StoreStep

\* Handover holds after every step if it held before.
LEMMA HandoverStep == TypeOK /\ Ledger /\ Handover /\ [Next]_vars => Handover'
<1> SUFFICES ASSUME TypeOK, Ledger, Handover, [Next]_vars PROVE Handover'
  OBVIOUS
<1>1. CASE UNCHANGED vars
  BY <1>1 DEF vars, storeVars, guardVars, stopVars, lockVars, waitVars, Handover, LifeKept,
              StartedOnce, LossKept, ScopeKept, Outcomes
<1>2. CASE Next
  <2>1. PICK p \in Proc : ProcStep(p)
    BY <1>2 DEF Next
  <2>2. ASSUME NEW q \in Proc PROVE LifeKept(q)'
    <3>1. CASE q = p
      BY <2>1, <3>1, LifeStep DEF Handover
    <3>2. CASE q # p
      <4>1. Untouched(q) /\ LifeKept(q)
        BY <2>1, <3>2, OthersUntouched DEF Handover
      <4>2. QED
        BY <4>1 DEF Untouched, LifeKept, StartedOnce, LossKept, ScopeKept
    <3>3. QED
      BY <3>1, <3>2
  <2>3. Outcomes'
    BY <2>1, OutcomesStep
  <2>4. QED
    BY <2>2, <2>3 DEF Handover
<1>3. QED
  BY <1>1, <1>2

\* The invariants together, for the action properties below.
SafeState == TypeOK /\ Ledger /\ Handover

\* In every state each process is where its phase says, and the log tells the
\* truth about every loss and release.
THEOREM HandoverInvariant == Spec => []SafeState
<1>1. Init => SafeState
  BY TypeInit, LedgerInit, HandoverInit DEF SafeState
<1>2. SafeState /\ [Next]_vars => SafeState'
  BY TypeStep, LedgerStep, HandoverStep DEF SafeState
<1>3. QED
  BY <1>1, <1>2, PTL DEF Spec

-----------------------------------------------------------------------------
(***************************************************************************)
(* What the handover guarantees.                                           *)
(***************************************************************************)

\* In no state is a long-running process running with a lost guard: whichever
\* check, heartbeat or listener finds the loss, the loss handler begins the stop
\* in the same step.
THEOREM LossStops == Spec => []LossStopsRuntime
<1>1. SafeState => LossStopsRuntime
  BY DEF SafeState, Handover, LifeKept, LossKept, LossStopsRuntime
<1>2. QED
  BY <1>1, HandoverInvariant, PTL

\* A recorded loss and a clean release exclude each other, in whichever order
\* store.release and the queued store.recordLost reach the database.
LEMMA OneOutcomeStep ==
  SafeState /\ OneOutcomePerGeneration /\ [Next]_vars => OneOutcomePerGeneration'
<1> SUFFICES ASSUME SafeState, OneOutcomePerGeneration, [Next]_vars
             PROVE  OneOutcomePerGeneration'
  OBVIOUS
<1>s. TypeOK /\ Ledger /\ Handover
  BY DEF SafeState
<1>1. CASE events' = events
  BY <1>1 DEF OneOutcomePerGeneration
<1>2. ASSUME NEW p \in Proc, Grants(p) PROVE OneOutcomePerGeneration'
  <2>1. PICK type \in {"ACQUIRED", "TAKEN_OVER"} :
          events' = events \cup {[gen |-> NextGeneration, type |-> type, owner |-> p]}
    BY <1>2 DEF Grants, StoreAcquire, AppendEvent
  <2>2. row.gen \in Nat /\ evGen \in Nat
    BY <1>s DEF TypeOK, Row
  <2>3. NextGeneration \in Nat /\ NextGeneration > evGen
    BY <2>2 DEF NextGeneration, Larger
  <2>4. \A e \in events : e.gen \in Nat /\ e.gen <= evGen
    BY <1>s DEF TypeOK, Event, Ledger
  <2>5. \A e \in events : e.gen # NextGeneration
    BY <2>2, <2>3, <2>4
  <2>6. QED
    BY <2>1, <2>5 DEF OneOutcomePerGeneration
<1>3. ASSUME NEW p \in Proc, RecordsLoss(p) PROVE OneOutcomePerGeneration'
  <2>1. events' = events \cup {[gen |-> row.gen, type |-> "LOST", owner |-> p]}
    BY <1>3 DEF RecordsLoss, AppendEvent
  <2>2. \A e \in events : e.type = "RELEASED" => e.gen # row.gen
    BY <1>s DEF Handover, Outcomes
  <2>3. QED
    BY <2>1, <2>2 DEF OneOutcomePerGeneration
<1>4. ASSUME NEW p \in Proc, Releases(p) PROVE OneOutcomePerGeneration'
  <2>1. /\ events' = events \cup {[gen |-> row.gen, type |-> "RELEASED", owner |-> p]}
        /\ OwnsRow(p) /\ lossReason[p] = "cleanup"
    BY <1>4 DEF Releases, AppendEvent
  <2>2. PICK g \in events : g.gen = row.gen /\ g.owner = p
    BY <1>s, <2>1, ConstantsAssumption DEF OwnsRow, Ledger, Granted
  <2>3. \A e \in events : e.gen = row.gen => e.owner = p
    BY <1>s, <2>2 DEF Ledger, GenerationsUnique
  <2>4. \A e \in events : e.gen = row.gen => e.type # "LOST"
    BY <1>s, <2>1, <2>3 DEF Handover, Outcomes
  <2>5. QED
    BY <2>1, <2>4 DEF OneOutcomePerGeneration
<1>5. CASE UNCHANGED vars
  BY <1>1, <1>5 DEF vars, storeVars
<1>6. CASE Next
  <2>1. PICK p \in Proc : ProcStep(p)
    BY <1>6 DEF Next
  <2>2. StoreStep(p)
    BY <1>s, <2>1, StoreSteps
  <2>3. QED
    BY <2>2, <1>1, <1>2, <1>3, <1>4 DEF StoreStep, Renews, storeVars
<1>7. QED
  BY <1>5, <1>6

\* No generation is both released and recorded as lost, on any stop path.
THEOREM OneOutcome == Spec => []OneOutcomePerGeneration
<1>1. Init => OneOutcomePerGeneration
  BY DEF Init, OneOutcomePerGeneration
<1>2. SafeState /\ OneOutcomePerGeneration /\ [Next]_vars => OneOutcomePerGeneration'
  BY OneOutcomeStep
<1>3. QED
  BY <1>1, <1>2, HandoverInvariant, PTL DEF Spec

\* The heartbeat in the row never goes back: a renewal and a takeover are both
\* refused when the clock shows an earlier time than the row or the log.
THEOREM HeartbeatIsMonotone == Spec => HeartbeatMonotone
<1>1. TypeOK /\ [Next]_vars => [row.gen # 0 /\ row'.gen # 0 => row'.hb >= row.hb]_vars
  <2> SUFFICES ASSUME TypeOK, Next, row.gen # 0, row'.gen # 0 PROVE row'.hb >= row.hb
    OBVIOUS
  <2>1. PICK p \in Proc : StoreStep(p)
    BY StoreSteps DEF Next
  <2>2. row.hb \in Nat /\ evAt \in Nat
    BY DEF TypeOK, Row
  <2>3. CASE row' = row
    BY <2>2, <2>3
  <2>4. CASE Renews(p)
    BY <2>2, <2>4 DEF Renews, TypeOK, Row
  <2>5. CASE Grants(p)
    <3>1. PICK now \in Time : ~Rollback(now) /\ StoreAcquire(p, now)
      BY <2>5 DEF Grants
    <3>2. row'.hb = now /\ now \in Nat
      BY <3>1, TimeType DEF StoreAcquire
    <3>3. now >= row.hb
      BY <2>2, <3>1, <3>2 DEF Rollback, Larger
    <3>4. QED
      BY <3>2, <3>3
  <2>6. CASE Releases(p)
    BY <2>6 DEF Releases, NoRow
  <2>7. QED
    BY <2>1, <2>3, <2>4, <2>5, <2>6 DEF StoreStep, RecordsLoss, storeVars
<1>2. QED
  BY <1>1, TypeCorrect, PTL DEF Spec, HeartbeatMonotone

\* A clean release is written only by a process with no outbound call and no
\* renewal under way.
THEOREM ReleaseIsQuiescent == Spec => ReleasedQuiescent
<1>1. SafeState /\ [Next]_vars =>
        [\A p \in Proc : [gen |-> record[p].gen, type |-> "RELEASED", owner |-> p]
                            \in events' \ events
                         => work[p] = "idle" /\ ~HeartbeatInFlight(p)]_vars
  <2> SUFFICES ASSUME SafeState, Next, NEW p \in Proc,
                      [gen |-> record[p].gen, type |-> "RELEASED", owner |-> p]
                         \in events' \ events
               PROVE  work[p] = "idle" /\ ~HeartbeatInFlight(p)
    OBVIOUS
  <2>1. PICK q \in Proc : StoreStep(q)
    BY StoreSteps DEF Next, SafeState
  <2>2. Releases(q) /\ q = p
    BY <2>1 DEF StoreStep, Renews, Grants, RecordsLoss, Releases, StoreAcquire, AppendEvent,
                storeVars
  <2>3. phase[p] = "releasing" /\ lossReason[p] = "cleanup" /\ ~HeartbeatInFlight(p)
    BY <2>2 DEF Releases
  <2>4. QED
    BY <2>3 DEF SafeState, Handover, LifeKept, LossKept, Drained
<1>2. QED
  BY <1>1, HandoverInvariant, PTL DEF Spec, ReleasedQuiescent

\* A superseded process does not own the row any more, and never will again.
LEMMA SupersededOwnsNothing ==
  ASSUME SafeState, NEW p \in Proc, Superseded(p)
  PROVE  /\ row.owner # p /\ ~SameOwnership(record[p], row)
         /\ ~Grants(p) /\ ~OwnsRow(p)
<1>1. record[p].gen # 0 /\ record[p].gen < evGen /\ evGen \in Nat /\ row.gen \in Nat
      /\ record[p].gen \in Nat
  BY DEF SafeState, TypeOK, Row, Superseded
<1>2. row.gen # 0 => row.gen = evGen
  BY DEF SafeState, Ledger
<1>3. row.owner # p
  <2> SUFFICES ASSUME row.owner = p PROVE FALSE
    OBVIOUS
  <2>1. row.gen # 0
    BY ConstantsAssumption DEF SafeState, Ledger
  <2>2. PICK e \in events : e.gen = row.gen /\ e.owner = p
    BY <2>1 DEF SafeState, Ledger, Granted
  <2>3. PICK f \in events : f.gen = record[p].gen /\ f.owner = p
    BY <1>1 DEF SafeState, Ledger, OwnMemory, Granted
  <2>4. row.gen = record[p].gen
    BY <2>2, <2>3 DEF SafeState, Handover, Outcomes
  <2>5. QED
    BY <1>1, <1>2, <2>1, <2>4
<1>4. ~SameOwnership(record[p], row)
  BY <1>1, <1>2 DEF SameOwnership
<1>5. ~Grants(p)
  BY <1>1 DEF Grants, SafeState, Handover, LifeKept, StartedOnce
<1>6. QED
  BY <1>3, <1>4, <1>5 DEF OwnsRow

\* A process that was superseded starts no call, appends no event and does not
\* move the row, although it may not have noticed yet: neither its checks nor its
\* heartbeat nor its stop procedure can act on the generation of another.
THEOREM SupersededStaysInert == Spec => SupersededIsInert
<1>1. SafeState /\ [Next]_vars =>
        [\A p \in Proc : Superseded(p) =>
           /\ work'[p] = "sent" => work[p] = "sent"
           /\ \A e \in events' \ events : e.owner # p
           /\ row'.owner # p
           /\ row'.gen = row.gen /\ hb'[p] # hb[p] => row' = row]_vars
  <2> SUFFICES ASSUME SafeState, Next, NEW p \in Proc, Superseded(p)
               PROVE  /\ work'[p] = "sent" => work[p] = "sent"
                      /\ \A e \in events' \ events : e.owner # p
                      /\ row'.owner # p
                      /\ row'.gen = row.gen /\ hb'[p] # hb[p] => row' = row
    OBVIOUS
  <2>1. PICK q \in Proc : ProcStep(q)
    BY DEF Next
  <2>2. StoreStep(q)
    BY <2>1, StoreSteps DEF SafeState
  <2>3. /\ row.owner # p /\ ~SameOwnership(record[p], row)
        /\ ~Grants(p) /\ ~OwnsRow(p)
    BY SupersededOwnsNothing
  <2>4. CASE q = p
    <3>1. UNCHANGED storeVars
      BY <2>2, <2>3, <2>4 DEF StoreStep, Renews, RecordsLoss, Releases
    <3>2. CallStep(p)
      BY <2>1, <2>4, CallSteps DEF SafeState, Handover
    <3>3. work'[p] = "sent" => work[p] = "sent"
      BY <2>3, <3>2 DEF CallStep, StartsCall, EndsCall, KeepsCall
    <3>4. QED
      BY <2>3, <3>1, <3>3 DEF storeVars
  <2>5. CASE q # p
    <3>1. Untouched(p)
      BY <2>1, <2>5, OthersUntouched DEF SafeState
    <3>2. \A e \in events' \ events : e.owner = q
      BY <2>2 DEF StoreStep, Renews, Grants, RecordsLoss, Releases, StoreAcquire, AppendEvent,
                  storeVars
    <3>3. row'.owner \in {row.owner, q, NoProc}
      <4>1. CASE Renews(q)
        BY <4>1 DEF Renews, SafeState, TypeOK, Row
      <4>2. CASE Grants(q)
        BY <4>2 DEF Grants, StoreAcquire
      <4>3. QED
        BY <2>2, <4>1, <4>2 DEF StoreStep, RecordsLoss, Releases, NoRow, storeVars
    <3>4. QED
      BY <2>3, <2>5, <3>1, <3>2, <3>3, ConstantsAssumption DEF Untouched
  <2>6. QED
    BY <2>4, <2>5
<1>2. QED
  BY <1>1, HandoverInvariant, PTL DEF Spec, SupersededIsInert

\* The pipe gets a new holder only when a starting process binds it, free.
LEMMA PipeIsBoundFree ==
  ASSUME NEW p \in Proc, NEW q \in Proc, ProcStep(q), pipe # p, pipe' = p
  PROVE  pipe = NoProc /\ q = p
<1>1. CASE AcquireProcessLock(q)
  BY <1>1 DEF AcquireProcessLock
<1>2. CASE CloseScope(q) \/ Exit(q) \/ PipeClosed(q)
  BY <1>2, ConstantsAssumption DEF CloseScope, Exit, PipeClosed, lockVars
<1>3. QED
  BY <1>1, <1>2 DEF ProcStep, RuntimeAlreadyOwned, BeginShutdown, WorkersQuiesced,
     QuiescenceTimeout, LossRecordingDone, ListenerLost, GuardAcquire, GuardAcquired, Dispatch,
     Settle, HeartbeatAttempt, HeartbeatContinue, RecordLost, ReleaseOwnership, FinishStart,
     AssertCurrentFinish, lockVars

\* Where only the long-running runtime is started, a process is admitted only when
\* no other has an outbound call under way, whatever timed out and whoever
\* crashed, unless the OS closed the other's listener.
THEOREM NoOverlap ==
  ASSUME Kinds \subseteq {"runtime"}
  PROVE  Spec => NoOverlappingSideEffect
<1>1. SafeState /\ [Next]_vars =>
        [\A p, q \in Proc : pipe # p /\ pipe' = p /\ q # p /\ work[q] = "sent"
                            => pipeLost[q]]_vars
  <2> SUFFICES ASSUME SafeState, Next, NEW p \in Proc, NEW q \in Proc,
                      pipe # p, pipe' = p, q # p, work[q] = "sent"
               PROVE  pipeLost[q]
    OBVIOUS
  <2>1. pipe = NoProc
    BY PipeIsBoundFree DEF Next
  <2>2. StartedOnce(q) /\ ScopeKept(q)
    BY DEF SafeState, Handover, LifeKept
  <2>3. path[q] = "runtime"
    BY <2>2 DEF StartedOnce, SafeState, TypeOK
  <2>4. phase[q] \notin {"new", "exited", "stopped"}
    BY <2>2, <2>3 DEF StartedOnce, ScopeKept, Unstarted, Drained
  <2>5. QED
    BY <2>1, <2>2, <2>4, ConstantsAssumption DEF ScopeKept
<1>2. QED
  BY <1>1, HandoverInvariant, PTL DEF Spec, NoOverlappingSideEffect

-----------------------------------------------------------------------------
(***************************************************************************)
(* Runtime ownership implements ExecutionFence.                            *)
(***************************************************************************)

Sending == {q \in Proc : work[q] = "sent"}
Calls == {record[p].gen : p \in Sending}

\* A step of the store is a grant of the next generation, its surrender, or
\* nothing the fence can see.
LEMMA StoreStepRefines ==
  ASSUME SafeState, NEW p \in Proc, StoreStep(p)
  PROVE  \/ evGen' = evGen + 1 /\ row'.owner = p
         \/ row.owner # NoProc /\ row'.owner = NoProc /\ evGen' = evGen
         \/ row'.owner = row.owner /\ evGen' = evGen
<1>1. row.gen \in Nat /\ evGen \in Nat /\ (row.gen # 0 => row.gen = evGen)
  BY DEF SafeState, TypeOK, Row, Ledger
<1>2. CASE Renews(p)
  BY <1>2 DEF Renews, SafeState, TypeOK, Row
<1>3. CASE Grants(p)
  <2>1. row'.owner = p /\ evGen' = Larger(evGen, NextGeneration)
    BY <1>3 DEF Grants, StoreAcquire, AppendEvent
  <2>2. NextGeneration = evGen + 1
    BY <1>1 DEF NextGeneration, Larger
  <2>3. QED
    BY <1>1, <2>1, <2>2 DEF Larger
<1>4. CASE RecordsLoss(p)
  <2>1. row' = row /\ evGen' = Larger(evGen, row.gen)
    BY <1>4 DEF RecordsLoss, AppendEvent
  <2>2. QED
    BY <1>1, <2>1 DEF Larger
<1>5. CASE Releases(p)
  <2>1. row.owner = p /\ row'.owner = NoProc /\ evGen' = Larger(evGen, row.gen)
    BY <1>5 DEF Releases, AppendEvent, NoRow, OwnsRow
  <2>2. QED
    BY <1>1, <2>1, ConstantsAssumption DEF Larger
<1>6. QED
  BY <1>2, <1>3, <1>4, <1>5 DEF StoreStep, storeVars

\* A step begins a call under the generation granted last, forgets one, or leaves
\* the calls alone.
LEMMA CallStepRefines ==
  ASSUME SafeState, NEW p \in Proc, ProcStep(p)
  PROVE  \/ /\ row.owner # NoProc /\ Calls' = Calls \cup {evGen}
            /\ UNCHANGED storeVars
         \/ \E g \in Calls : Calls' = Calls \ {g} /\ UNCHANGED storeVars
         \/ Calls' = Calls
<1>1. CallStep(p)
  BY CallSteps DEF SafeState, Handover
<1>2. \A q \in Proc \ {p} : record'[q] = record[q] /\ work'[q] = work[q]
  BY OthersUntouched DEF SafeState, Untouched
<1>3. CASE StartsCall(p)
  <2>1. /\ work'[p] = "sent" /\ record'[p] = row /\ UNCHANGED storeVars
        /\ record[p].gen = row.gen /\ record[p].owner = row.owner
    BY <1>3 DEF StartsCall, SameOwnership
  <2>2. record[p].gen # 0 /\ record[p].owner = p
    BY <1>3 DEF StartsCall, SafeState, Ledger, OwnMemory
  <2>3. row.gen = evGen /\ row.owner # NoProc
    BY <2>1, <2>2, ConstantsAssumption DEF SafeState, Ledger
  <2>4. Sending' = Sending \cup {p}
    BY <1>2, <2>1 DEF Sending
  <2>5. p \notin Sending
    BY <1>3 DEF StartsCall, Sending
  <2>6. Calls' = Calls \cup {evGen}
    BY <1>2, <2>1, <2>3, <2>4, <2>5 DEF Calls, Sending
  <2>7. QED
    BY <2>1, <2>3, <2>6
<1>4. CASE EndsCall(p)
  <2>1. p \in Sending /\ Sending' = Sending \ {p} /\ UNCHANGED storeVars
    BY <1>2, <1>4 DEF EndsCall, Sending
  <2>2. Calls' = {record[q].gen : q \in Sending \ {p}}
    BY <1>2, <2>1 DEF Calls, Sending
  <2>3. CASE \E q \in Sending \ {p} : record[q].gen = record[p].gen
    BY <2>1, <2>2, <2>3 DEF Calls
  <2>4. CASE \A q \in Sending \ {p} : record[q].gen # record[p].gen
    <3>1. record[p].gen \in Calls
      BY <2>1 DEF Calls
    <3>2. Calls' = Calls \ {record[p].gen}
      BY <2>1, <2>2, <2>4 DEF Calls
    <3>3. QED
      BY <2>1, <3>1, <3>2
  <2>5. QED
    BY <2>3, <2>4
<1>5. CASE KeepsCall(p)
  <2>1. Sending' = Sending
    BY <1>2, <1>5 DEF KeepsCall, Sending
  <2>2. \A q \in Sending : record'[q].gen = record[q].gen
    BY <1>2, <1>5 DEF KeepsCall, Sending
  <2>3. QED
    BY <2>1, <2>2 DEF Calls
<1>6. QED
  BY <1>1, <1>3, <1>4, <1>5 DEF CallStep

\* Runtime ownership implements the fence: generations are granted one after the
\* other, each to one process, and a call begins only under the one granted last
\* and not given up, whatever the interleaving of takeovers, losses, heartbeats,
\* crashes and stops.
THEOREM RefinesFence == Spec => ImplementsFence
<1>1. Init => Fence!Init
  BY DEF Init, Fence!Init, NoRow
<1>2. SafeState /\ [Next]_vars => [Fence!Next]_(Fence!vars)
  <2> SUFFICES ASSUME SafeState, [Next]_vars PROVE [Fence!Next]_(Fence!vars)
    OBVIOUS
  <2>1. CASE UNCHANGED vars
    BY <2>1 DEF vars, storeVars, guardVars, waitVars, Fence!vars
  <2>2. CASE Next
    <3>1. PICK p \in Proc : ProcStep(p)
      BY <2>2 DEF Next
    <3>2. StoreStep(p)
      BY <3>1, StoreSteps DEF SafeState
    <3>3. CASE row.owner # NoProc /\ Calls' = Calls \cup {evGen} /\ UNCHANGED storeVars
      <4>1. Fence!Send
        BY <3>3 DEF Fence!Send, Calls, Sending, storeVars
      <4>2. QED
        BY <4>1 DEF Fence!Next
    <3>4. CASE \E g \in Calls : Calls' = Calls \ {g} /\ UNCHANGED storeVars
      <4>1. PICK g \in Calls : Calls' = Calls \ {g} /\ UNCHANGED storeVars
        BY <3>4
      <4>2. Fence!Forget(g)
        BY <4>1 DEF Fence!Forget, Calls, Sending, storeVars
      <4>3. QED
        BY <4>1, <4>2 DEF Fence!Next, Calls, Sending
    <3>5. CASE Calls' = Calls
      <4>1. CASE evGen' = evGen + 1 /\ row'.owner = p
        BY <3>5, <4>1 DEF Fence!Next, Fence!Grant, Calls, Sending
      <4>2. CASE row.owner # NoProc /\ row'.owner = NoProc /\ evGen' = evGen
        BY <3>5, <4>2 DEF Fence!Next, Fence!GiveUp, Calls, Sending
      <4>3. CASE row'.owner = row.owner /\ evGen' = evGen
        BY <3>5, <4>3 DEF Fence!vars, Calls, Sending
      <4>4. QED
        BY <3>2, <4>1, <4>2, <4>3, StoreStepRefines
    <3>6. QED
      BY <3>1, <3>3, <3>4, <3>5, CallStepRefines
  <2>3. QED
    BY <2>1, <2>2
<1>3. QED
  BY <1>1, <1>2, HandoverInvariant, PTL DEF Spec, ImplementsFence, Fence!Spec

=============================================================================
