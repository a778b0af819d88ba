--------------------------- MODULE RuntimeOwnership ---------------------------
(***************************************************************************)
(* Single ownership of the trading runtime: the OS process lock, the       *)
(* persisted runtime_ownership row and its event log, the in-process guard,*)
(* the heartbeat that renews the row, and the shutdown procedures          *)
(* (long-running, scoped, failed start) that hand ownership over.          *)
(*                                                                         *)
(* Every element of Proc is one incarnation of the program: it starts at   *)
(* most once, so the random owner token of the code is the process itself, *)
(* and with it go the execution mode and acquisition time that the code    *)
(* compares beside the token. A row expires TTL after its heartbeat.       *)
(* Date.now() is not monotone: each step that reads it may see any time    *)
(* now \in Time. Every await of the code is a boundary between two actions.*)
(*                                                                         *)
(* The operators named Wrong... are mistakes this code could contain; no   *)
(* definition uses them. Each makes one of the properties below fail.      *)
(***************************************************************************)
EXTENDS Naturals

CONSTANTS Proc,       \* incarnations of the program
          NoProc,     \* nobody
          MaxClock,   \* bound: the wall clock shows a time of 0..MaxClock
          TTL,        \* RUNTIME_OWNERSHIP_TTL_MS
          Kinds,      \* how a process may be started: "runtime", "scoped"
          MaxFaults   \* bound: how often the OS may fail a listener

ASSUME ConstantsAssumption == /\ NoProc \notin Proc
                              /\ MaxClock \in Nat
                              /\ TTL \in Nat \ {0}
                              /\ Kinds \subseteq {"runtime", "scoped"}
                              /\ MaxFaults \in Nat

VARIABLES
  pipe,         \* the process that has the named pipe bound, or NoProc
  row,          \* the row of runtime_ownership, NoRow when there is none
  evGen, evAt,  \* greatest generation and time of runtime_ownership_events
  events,       \* [gen, type, owner] of every event appended
  phase,        \* where each process is in its life
  path,         \* which stop procedure it follows
  lockHeld,     \* ListenerRuntimeProcessLock.held
  status,       \* guard status
  lossReason,   \* class of the guard's lossReason, "none" for null
  record,       \* guard record, NoRow for null
  acquired,     \* acquisition committed, its await not yet resumed; else NoRow
  hb,           \* heartbeat: [st, at, lease], see HeartbeatAttempt
  pendingLoss,  \* queued store.recordLost
  checking,     \* row read by a pending assertCurrent
  work,         \* an outbound call: not settled yet, or settled and checking
  canRelease,   \* whether the stop procedure may still release the row
  unsafe,       \* workers failed to quiesce before the timeout
  pipeLost,     \* history: the OS closed the listener under the process
  faults        \* how many listeners have failed

storeVars == <<row, evGen, evAt, events>>
guardVars == <<status, lossReason, record, pendingLoss>>
stopVars  == <<path, canRelease, unsafe>>
lockVars  == <<pipe, lockHeld, pipeLost, faults>>
waitVars  == <<acquired, hb, checking, work>>
vars == <<storeVars, guardVars, stopVars, lockVars, waitVars, phase>>

Time == 0 .. MaxClock
NoRow == [owner |-> NoProc, gen |-> 0, hb |-> 0]
Row == [owner : Proc \cup {NoProc}, gen : Nat, hb : Nat]
EventTypes == {"ACQUIRED", "TAKEN_OVER", "RELEASED", "LOST"}
Event == [gen : Nat, type : EventTypes, owner : Proc]
Expiry(r) == r.hb + TTL
Heartbeat == [st : {"off", "scheduled", "renewed", "null", "failed", "busy"},
              at : Nat, lease : Nat]
NoHeartbeat == [st |-> "off", at |-> 0, lease |-> 0]

Larger(a, b) == IF a >= b THEN a ELSE b

Phases == {"new", "locked", "acquiring", "starting", "running", "draining",
           "recording", "releasing", "closing", "stopped", "stuck", "exited"}
Alive(p) == phase[p] \notin {"new", "exited"}

\* The reason codes of the code, by what is done with them: a cleanup fence can
\* still be escalated to a real loss; an expiry dates its loss no earlier than
\* the expiry; the scoped stop looks for its own code.
CleanupReasons == {"RUNTIME_SHUTDOWN", "SCOPED_WORK_COMPLETE", "STARTUP_FAILED"}
ExpiryReasons == {"OWNERSHIP_EXPIRED", "HEARTBEAT_EXPIRED"}
WrongReasonClass(reason) == reason

ReasonClass(reason) ==
  IF reason \in CleanupReasons THEN "cleanup"
  ELSE IF reason = "SCOPED_WORK_QUIESCENCE_FAILED" THEN "scoped_unquiesced"
  ELSE "lost"

TypeOK ==
  /\ pipe \in Proc \cup {NoProc}
  /\ row \in Row
  /\ evGen \in Nat /\ evAt \in Nat
  /\ events \subseteq Event
  /\ phase \in [Proc -> Phases]
  /\ path \in [Proc -> {"runtime", "scoped", "startup"}]
  /\ lockHeld \in [Proc -> BOOLEAN]
  /\ status \in [Proc -> {"UNOWNED", "OWNED", "LOST"}]
  /\ lossReason \in [Proc -> {"none", "cleanup", "scoped_unquiesced", "lost"}]
  /\ record \in [Proc -> Row]
  /\ acquired \in [Proc -> Row]
  /\ hb \in [Proc -> Heartbeat]
  /\ pendingLoss \in [Proc -> {"none", "loss", "expired"}]
  /\ checking \in [Proc -> Row]
  /\ work \in [Proc -> {"idle", "sent", "settled"}]
  /\ canRelease \in [Proc -> BOOLEAN]
  /\ unsafe \in [Proc -> BOOLEAN]
  /\ pipeLost \in [Proc -> BOOLEAN]
  /\ faults \in Nat

Init ==
  /\ pipe = NoProc
  /\ row = NoRow
  /\ evGen = 0 /\ evAt = 0
  /\ events = {}
  /\ phase = [p \in Proc |-> "new"]
  /\ path = [p \in Proc |-> "runtime"]
  /\ lockHeld = [p \in Proc |-> FALSE]
  /\ status = [p \in Proc |-> "UNOWNED"]
  /\ lossReason = [p \in Proc |-> "none"]
  /\ record = [p \in Proc |-> NoRow]
  /\ acquired = [p \in Proc |-> NoRow]
  /\ hb = [p \in Proc |-> NoHeartbeat]
  /\ pendingLoss = [p \in Proc |-> "none"]
  /\ checking = [p \in Proc |-> NoRow]
  /\ work = [p \in Proc |-> "idle"]
  /\ canRelease = [p \in Proc |-> FALSE]
  /\ unsafe = [p \in Proc |-> FALSE]
  /\ pipeLost = [p \in Proc |-> FALSE]
  /\ faults = 0

-----------------------------------------------------------------------------
(***************************************************************************)
(* The store: each operator is one immediate transaction.                  *)
(***************************************************************************)

\* Trusts Date.now().
WrongRollback(at) == FALSE

\* assertNoTimestampRollback against the row's heartbeat and the latest event.
Rollback(at) == at < Larger(row.hb, evAt)

AppendEvent(p, g, type, at) ==
  /\ events' = events \cup {[gen |-> g, type |-> type, owner |-> p]}
  /\ evGen' = Larger(evGen, g)
  /\ evAt' = Larger(evAt, at)

\* Forgets the generations of released rows.
WrongNextGeneration == row.gen + 1

\* The generation an acquisition is given: above the row's and every event's,
\* so that a released and deleted row cannot lend its number to the next owner.
NextGeneration == Larger(row.gen, evGen) + 1

\* acquireAfterProcessLock: overwrite whatever row there is.
StoreAcquire(p, now) ==
  LET g == NextGeneration IN
  /\ row' = [owner |-> p, gen |-> g, hb |-> now]
  /\ AppendEvent(p, g, IF row = NoRow THEN "ACQUIRED" ELSE "TAKEN_OVER", now)

\* Any live row will do.
WrongOwnsRow(p) == row.gen # 0 /\ record[p].gen # 0

OwnsRow(p) == row.owner = p /\ row.gen = record[p].gen

\* What store.renew answers to the heartbeat of p.
RenewOutcome(p, now) ==
  IF ~OwnsRow(p) THEN "null"
  ELSE IF Rollback(now) THEN "failed"
  ELSE IF now = row.hb \/ now >= Expiry(row) THEN "null"
  ELSE "renewed"

\* What store.release answers: TRUE, FALSE or an exception.
ReleaseOutcome(p, now) ==
  IF ~OwnsRow(p) THEN "refused"
  ELSE IF Rollback(now) THEN "error"
  ELSE IF now >= Expiry(row) THEN "refused"
  ELSE "released"

SameOwnership(expected, persisted) ==
  persisted.owner = expected.owner /\ persisted.gen = expected.gen

-----------------------------------------------------------------------------
(***************************************************************************)
(* The guard.                                                              *)
(***************************************************************************)

\* The first loss is final, be it a mere cleanup fence.
WrongLossTakes(p, reason) == status[p] # "LOST"

\* markLost changes something: a first loss, or a real loss over a cleanup fence.
LossTakes(p, reason) ==
  \/ status[p] # "LOST"
  \/ lossReason[p] = "cleanup" /\ reason \notin CleanupReasons

\* The onLost listener of the context queues store.recordLost, unless the loss
\* is a cleanup fence or the guard has no record yet.
LossToRecord(p, reason, rec) ==
  IF reason \in CleanupReasons \/ rec.gen = 0 THEN pendingLoss[p]
  ELSE IF reason \in ExpiryReasons THEN "expired" ELSE "loss"

\* No process-wide loss handler.
WrongPhaseAfterLoss(p, reason, next) == next

\* The process-wide loss handler starts the shutdown of a long-running runtime.
PhaseAfterLoss(p, reason, next) ==
  IF phase[p] = "running" /\ path[p] = "runtime" /\ reason # "RUNTIME_SHUTDOWN"
  THEN "draining" ELSE next

\* markLost(reason) with its listeners; rec is the guard's record at that
\* moment and next the phase the caller moves to.
MarkLost(p, reason, rec, next) ==
  LET takes == LossTakes(p, reason) IN
  /\ status' = [status EXCEPT ![p] = "LOST"]
  /\ lossReason' = [lossReason EXCEPT ![p] = IF takes THEN ReasonClass(reason) ELSE @]
  /\ pendingLoss' = [pendingLoss EXCEPT
                       ![p] = IF takes THEN LossToRecord(p, reason, rec) ELSE @]
  /\ record' = [record EXCEPT ![p] = rec]
  /\ phase' = [phase EXCEPT ![p] = IF takes THEN PhaseAfterLoss(p, reason, next)
                                   ELSE next]

\* Why assertLocallyHeld of an owned guard would throw ("" when it would not).
LocalLoss(p, now) ==
  IF ~lockHeld[p] THEN "PROCESS_LOCK_LOST"
  ELSE IF now >= Expiry(record[p]) THEN "OWNERSHIP_EXPIRED"
  ELSE ""

\* Looks at the expiry of the persisted row only.
WrongPersistedLoss(p, seen, at) ==
  IF seen.gen = 0 \/ at >= Expiry(seen) THEN "OWNERSHIP_EXPIRED" ELSE ""

\* What comparing the guard's record with a row read for time at yields.
PersistedLoss(p, seen, at) ==
  IF ~SameOwnership(record[p], seen) THEN "PERSISTED_OWNERSHIP_MISMATCH"
  ELSE IF at >= Expiry(seen) THEN "OWNERSHIP_EXPIRED"
  ELSE ""

\* What assertCurrent(at) finds after its await.
CheckLoss(p, now, at) ==
  IF LocalLoss(p, now) # "" THEN LocalLoss(p, now)
  ELSE PersistedLoss(p, checking[p], at)

-----------------------------------------------------------------------------
(***************************************************************************)
(* Starting: bind the pipe, acquire, start the heartbeat, assertCurrent.   *)
(***************************************************************************)

\* acquireRuntimeProcessLock and the construction of the guard, by runMain or
\* by a scoped run.
AcquireProcessLock(p) ==
  /\ phase[p] = "new" /\ pipe = NoProc
  /\ pipe' = p
  /\ lockHeld' = [lockHeld EXCEPT ![p] = TRUE]
  /\ phase' = [phase EXCEPT ![p] = "locked"]
  /\ \E kind \in Kinds : path' = [path EXCEPT ![p] = kind]
  /\ UNCHANGED <<storeVars, guardVars, canRelease, unsafe, waitVars, pipeLost, faults>>

\* EADDRINUSE: the program ends without database or Telegram authority.
RuntimeAlreadyOwned(p) ==
  /\ phase[p] = "new" /\ pipe # NoProc
  /\ phase' = [phase EXCEPT ![p] = "exited"]
  /\ UNCHANGED <<storeVars, guardVars, stopVars, lockVars, waitVars>>

\* A failed start: shutdownAfterStartupFailure fences and begins to release.
FailStart(p, reason, rec) ==
  /\ MarkLost(p, reason, rec, "releasing")
  /\ path' = [path EXCEPT ![p] = "startup"]
  /\ canRelease' = [canRelease EXCEPT ![p] = TRUE]

\* guard.acquire up to the store transaction; a rolled-back clock or a lock
\* already lost fails the start.
GuardAcquire(p, now) ==
  /\ phase[p] = "locked"
  /\ \/ /\ ~lockHeld[p] \/ Rollback(now)
        /\ FailStart(p, "STARTUP_FAILED", NoRow)
        /\ UNCHANGED <<storeVars, acquired>>
     \/ /\ lockHeld[p] /\ ~Rollback(now)
        /\ StoreAcquire(p, now)
        /\ acquired' = [acquired EXCEPT ![p] = row']
        /\ phase' = [phase EXCEPT ![p] = "acquiring"]
        /\ UNCHANGED <<guardVars, path, canRelease>>
  /\ UNCHANGED <<lockVars, hb, checking, work, unsafe>>

\* guard.acquire after its await, heartbeat.start, and the first assertCurrent
\* up to its read.
GuardAcquired(p, now) ==
  /\ phase[p] = "acquiring"
  /\ acquired' = [acquired EXCEPT ![p] = NoRow]
  /\ \/ /\ status[p] = "LOST" \/ ~lockHeld[p]
        /\ FailStart(p, "PROCESS_LOCK_LOST", acquired[p])
        /\ UNCHANGED <<hb, checking>>
     \/ /\ status[p] # "LOST" /\ lockHeld[p] /\ now >= Expiry(acquired[p])
        /\ FailStart(p, "OWNERSHIP_EXPIRED", acquired[p])
        /\ UNCHANGED <<hb, checking>>
     \/ /\ status[p] # "LOST" /\ lockHeld[p] /\ now < Expiry(acquired[p])
        /\ status' = [status EXCEPT ![p] = "OWNED"]
        /\ record' = [record EXCEPT ![p] = acquired[p]]
        /\ hb' = [hb EXCEPT ![p].st = "scheduled"]
        /\ checking' = [checking EXCEPT ![p] = row]
        /\ phase' = [phase EXCEPT ![p] = "starting"]
        /\ UNCHANGED <<lossReason, pendingLoss, path, canRelease>>
  /\ UNCHANGED <<storeVars, lockVars, work, unsafe>>

\* The first assertCurrent after its await, and createApp right after it: either
\* may fail the start.
FinishStart(p, now, at) ==
  /\ phase[p] = "starting"
  /\ checking' = [checking EXCEPT ![p] = NoRow]
  /\ \/ /\ status[p] = "OWNED" /\ CheckLoss(p, now, at) = ""
        /\ record' = [record EXCEPT ![p] = checking[p]]
        /\ phase' = [phase EXCEPT ![p] = "running"]
        /\ UNCHANGED <<status, lossReason, pendingLoss, path, canRelease>>
     \/ FailStart(p, IF status[p] = "OWNED" /\ CheckLoss(p, now, at) # ""
                     THEN CheckLoss(p, now, at) ELSE "STARTUP_FAILED", record[p])
  /\ UNCHANGED <<storeVars, lockVars, acquired, hb, work, unsafe>>

-----------------------------------------------------------------------------
(***************************************************************************)
(* Working: the final combined check and the send, the check after it, and *)
(* the heartbeat.                                                          *)
(***************************************************************************)

\* Sends on the local check alone.
WrongSendLoss(p, now) == LocalLoss(p, now)

\* What the synchronous check of runWithCurrentExecutionAuthority finds.
SendLoss(p, now) ==
  IF LocalLoss(p, now) # "" THEN LocalLoss(p, now) ELSE PersistedLoss(p, row, now)

\* runWithCurrentExecutionAuthority: local check, one read of the row, the
\* comparison and the start of the outbound call, without yielding.
Dispatch(p, now) ==
  /\ phase[p] = "running" /\ status[p] = "OWNED" /\ work[p] = "idle"
  /\ \/ /\ SendLoss(p, now) # ""
        /\ MarkLost(p, SendLoss(p, now), record[p], phase[p])
        /\ UNCHANGED work
     \/ /\ SendLoss(p, now) = ""
        /\ record' = [record EXCEPT ![p] = row]
        /\ work' = [work EXCEPT ![p] = "sent"]
        /\ UNCHANGED <<status, lossReason, pendingLoss, phase>>
  /\ UNCHANGED <<storeVars, stopVars, lockVars, acquired, hb, checking>>

\* The outbound call answers or fails; its caller enters assertCurrent, which
\* throws at once or reads the row.
Settle(p, now) ==
  /\ work[p] = "sent"
  /\ \/ /\ status[p] = "OWNED" /\ LocalLoss(p, now) # ""
        /\ MarkLost(p, LocalLoss(p, now), record[p], phase[p])
        /\ work' = [work EXCEPT ![p] = "idle"]
        /\ UNCHANGED checking
     \/ /\ status[p] = "OWNED" /\ LocalLoss(p, now) = ""
        /\ work' = [work EXCEPT ![p] = "settled"]
        /\ checking' = [checking EXCEPT ![p] = row]
        /\ UNCHANGED <<guardVars, phase>>
     \/ /\ status[p] = "LOST"
        /\ work' = [work EXCEPT ![p] = "idle"]
        /\ UNCHANGED <<guardVars, phase, checking>>
  /\ UNCHANGED <<storeVars, stopVars, lockVars, acquired, hb>>

\* assertCurrent after its await; the caller finalizes or throws.
AssertCurrentFinish(p, now, at) ==
  /\ work[p] = "settled"
  /\ work' = [work EXCEPT ![p] = "idle"]
  /\ checking' = [checking EXCEPT ![p] = NoRow]
  /\ \/ /\ status[p] = "LOST"
        /\ UNCHANGED <<guardVars, phase>>
     \/ /\ status[p] = "OWNED" /\ CheckLoss(p, now, at) # ""
        /\ MarkLost(p, CheckLoss(p, now, at), record[p], phase[p])
     \/ /\ status[p] = "OWNED" /\ CheckLoss(p, now, at) = ""
        /\ record' = [record EXCEPT ![p] = checking[p]]
        /\ UNCHANGED <<status, lossReason, pendingLoss, phase>>
  /\ UNCHANGED <<storeVars, stopVars, lockVars, acquired, hb>>

\* runScheduledAttempt and attemptRenewal up to the await of store.renew: the
\* attempt remembers its time and the expiry of the lease it started from.
HeartbeatAttempt(p, now) ==
  /\ hb[p].st = "scheduled" /\ status[p] = "OWNED"
  /\ \/ /\ now >= Expiry(record[p]) \/ ~lockHeld[p]
        /\ MarkLost(p, IF now >= Expiry(record[p]) THEN "HEARTBEAT_EXPIRED"
                       ELSE "PROCESS_LOCK_LOST", record[p], phase[p])
        /\ hb' = [hb EXCEPT ![p] = NoHeartbeat]
        /\ UNCHANGED row
     \/ /\ now < Expiry(record[p]) /\ lockHeld[p]
        /\ \E out \in {RenewOutcome(p, now), "busy"} :
             /\ row' = [row EXCEPT !.hb = IF out = "renewed" THEN now ELSE @]
             /\ hb' = [hb EXCEPT ![p] = [st |-> out, at |-> now,
                                          lease |-> Expiry(record[p])]]
        /\ UNCHANGED <<guardVars, phase>>
  /\ UNCHANGED <<evGen, evAt, events, stopVars, lockVars, acquired, checking, work>>

\* The loss attemptRenewal reports once store.renew has settled.
RenewalLoss(p, now) ==
  IF hb[p].st = "null" THEN "HEARTBEAT_RENEWAL_MISMATCH"
  ELSE IF now >= hb[p].lease THEN "HEARTBEAT_EXPIRED"
  ELSE IF hb[p].st = "failed" THEN "HEARTBEAT_RENEWAL_FAILED"
  ELSE ""

HeartbeatInFlight(p) == hb[p].st \notin {"off", "scheduled"}

\* attemptRenewal after its await: give up, accept the renewal, or retry.
HeartbeatContinue(p, now) ==
  /\ HeartbeatInFlight(p)
  /\ \/ /\ status[p] # "OWNED"
        /\ hb' = [hb EXCEPT ![p] = NoHeartbeat]
        /\ UNCHANGED <<guardVars, phase>>
     \/ /\ status[p] = "OWNED" /\ RenewalLoss(p, now) # ""
        /\ MarkLost(p, RenewalLoss(p, now), record[p], phase[p])
        /\ hb' = [hb EXCEPT ![p] = NoHeartbeat]
     \/ /\ status[p] = "OWNED" /\ RenewalLoss(p, now) = ""
        /\ record' = [record EXCEPT ![p].hb = IF hb[p].st = "renewed" THEN hb[p].at
                                              ELSE @]
        /\ hb' = [hb EXCEPT ![p] = [NoHeartbeat EXCEPT !.st = "scheduled"]]
        /\ UNCHANGED <<status, lossReason, pendingLoss, phase>>
  /\ UNCHANGED <<storeVars, stopVars, lockVars, acquired, checking, work>>

-----------------------------------------------------------------------------
(***************************************************************************)
(* Stopping. A long-running runtime waits for its workers, then for the    *)
(* queued loss record, then releases the row and the lock. A scoped run    *)
(* and a failed start release the row before they wait for the loss record.*)
(***************************************************************************)

\* SIGINT, SIGTERM, a failed startup gate, or the end of scoped work: fence,
\* then tell every worker and the heartbeat to stop.
BeginShutdown(p) ==
  /\ phase[p] = "running"
  /\ MarkLost(p, IF path[p] = "runtime" THEN "RUNTIME_SHUTDOWN"
                 ELSE "SCOPED_WORK_COMPLETE", record[p], "draining")
  /\ canRelease' = [canRelease EXCEPT
                      ![p] = path[p] = "scoped" \/ status[p] = "OWNED"]
  /\ UNCHANGED <<storeVars, path, unsafe, lockVars, waitVars>>

\* A long-running stop waits for its workers and the heartbeat, a scoped one
\* for its workers.
Quiesced(p) == work[p] = "idle" /\ (path[p] = "runtime" => ~HeartbeatInFlight(p))

AfterQuiescence(p) == IF path[p] = "runtime" THEN "recording" ELSE "releasing"

WorkersQuiesced(p) ==
  /\ phase[p] = "draining" /\ Quiesced(p)
  /\ phase' = [phase EXCEPT ![p] = AfterQuiescence(p)]
  /\ UNCHANGED <<storeVars, guardVars, stopVars, lockVars, waitVars>>

\* RUNTIME_SHUTDOWN_TIMEOUT_MS passes with a worker still busy.
QuiescenceTimeout(p) ==
  /\ phase[p] = "draining" /\ ~Quiesced(p)
  /\ MarkLost(p, IF path[p] = "runtime" THEN "RUNTIME_WORK_QUIESCENCE_FAILED"
                 ELSE "SCOPED_WORK_QUIESCENCE_FAILED", record[p], AfterQuiescence(p))
  /\ unsafe' = [unsafe EXCEPT ![p] = TRUE]
  /\ canRelease' = [canRelease EXCEPT ![p] = path[p] = "scoped"]
  /\ UNCHANGED <<storeVars, path, lockVars, waitVars>>

\* The time a queued loss is recorded with: not before the last heartbeat and,
\* for an expiry, not before the expiry.
LostAt(p, now) ==
  Larger(Larger(now, record[p].hb),
         IF pendingLoss[p] = "expired" THEN Expiry(record[p]) ELSE 0)

\* store.recordLost of the queued loss: only the exact generation, errors ignored.
RecordLost(p, now) ==
  /\ pendingLoss[p] # "none" /\ phase[p] # "stopped"
  /\ pendingLoss' = [pendingLoss EXCEPT ![p] = "none"]
  /\ \/ /\ OwnsRow(p) /\ ~Rollback(LostAt(p, now))
        /\ AppendEvent(p, row.gen, "LOST", LostAt(p, now))
     \/ /\ ~OwnsRow(p) \/ Rollback(LostAt(p, now))
        /\ UNCHANGED <<evGen, evAt, events>>
  /\ UNCHANGED <<row, status, lossReason, record, stopVars, lockVars, waitVars, phase>>

\* waitForLossRecording; a long-running stop bounds the wait and gives up the
\* release when it passes.
LossRecordingDone(p) ==
  /\ phase[p] = "recording"
  /\ pendingLoss[p] = "none" \/ path[p] = "runtime"
  /\ canRelease' = [canRelease EXCEPT ![p] = @ /\ pendingLoss[p] = "none"]
  /\ phase' = [phase EXCEPT ![p] = IF path[p] = "runtime" THEN "releasing" ELSE "closing"]
  /\ UNCHANGED <<storeVars, guardVars, path, unsafe, lockVars, waitVars>>

AfterRelease(p) == IF path[p] = "runtime" THEN "closing" ELSE "recording"

\* Releases after a recorded loss.
WrongReleaseRefused(p) == ~canRelease[p] \/ record[p].gen = 0

\* releaseCurrentOwnership does not ask the store: the stop gave the release up,
\* there is no record, or the loss is a real one.
ReleaseRefused(p) ==
  ~canRelease[p] \/ record[p].gen = 0 \/ lossReason[p] # "cleanup"

\* releaseCurrentOwnership after heartbeat.stop, and store.release with it. A
\* lock found lost here is a loss that forbids the release.
ReleaseOwnership(p, now) ==
  /\ phase[p] = "releasing" /\ ~HeartbeatInFlight(p)
  /\ \/ /\ canRelease[p] /\ ~lockHeld[p]
        /\ MarkLost(p, "PROCESS_LOCK_LOST", record[p], AfterRelease(p))
        /\ UNCHANGED storeVars
     \/ /\ ReleaseRefused(p) \/ (lockHeld[p] /\ ReleaseOutcome(p, now) = "error")
        /\ ~canRelease[p] \/ lockHeld[p]
        /\ phase' = [phase EXCEPT ![p] = AfterRelease(p)]
        /\ UNCHANGED <<guardVars, storeVars>>
     \/ /\ ~ReleaseRefused(p) /\ lockHeld[p] /\ ReleaseOutcome(p, now) = "refused"
        /\ MarkLost(p, "PERSISTED_OWNERSHIP_MISMATCH", record[p], AfterRelease(p))
        /\ UNCHANGED storeVars
     \/ /\ ~ReleaseRefused(p) /\ lockHeld[p] /\ ReleaseOutcome(p, now) = "released"
        /\ AppendEvent(p, row.gen, "RELEASED", now)
        /\ row' = NoRow
        /\ phase' = [phase EXCEPT ![p] = AfterRelease(p)]
        /\ UNCHANGED guardVars
  /\ UNCHANGED <<stopVars, lockVars, waitVars>>

\* Judges every stop by the reason code of the scoped one.
WrongRetainScope(p) == lossReason[p] = "scoped_unquiesced"

\* Whether the stop procedure keeps the databases and the process lock open.
RetainScope(p) ==
  \/ path[p] = "runtime" /\ unsafe[p]
  \/ path[p] = "scoped" /\ lossReason[p] = "scoped_unquiesced"

\* Close the databases and release the process lock, or retain the whole scope.
CloseScope(p) ==
  /\ phase[p] = "closing"
  /\ \/ /\ RetainScope(p)
        /\ phase' = [phase EXCEPT ![p] = "stuck"]
        /\ UNCHANGED lockVars
     \/ /\ ~RetainScope(p)
        /\ phase' = [phase EXCEPT ![p] = "stopped"]
        /\ pipe' = IF pipe = p THEN NoProc ELSE pipe
        /\ lockHeld' = [lockHeld EXCEPT ![p] = FALSE]
        /\ UNCHANGED <<pipeLost, faults>>
  /\ UNCHANGED <<storeVars, guardVars, stopVars, waitVars>>

-----------------------------------------------------------------------------
(***************************************************************************)
(* The environment: process exit or crash, and the pipe.                   *)
(***************************************************************************)

\* The process ends, by a crash or after its stop procedure: its memory is gone,
\* the OS frees the pipe, and an unsettled call loses its waiter.
Exit(p) ==
  /\ Alive(p)
  /\ phase' = [phase EXCEPT ![p] = "exited"]
  /\ pipe' = IF pipe = p THEN NoProc ELSE pipe
  /\ lockHeld' = [lockHeld EXCEPT ![p] = FALSE]
  /\ status' = [status EXCEPT ![p] = "LOST"]
  /\ lossReason' = [lossReason EXCEPT ![p] = "none"]
  /\ record' = [record EXCEPT ![p] = NoRow]
  /\ acquired' = [acquired EXCEPT ![p] = NoRow]
  /\ hb' = [hb EXCEPT ![p] = NoHeartbeat]
  /\ pendingLoss' = [pendingLoss EXCEPT ![p] = "none"]
  /\ checking' = [checking EXCEPT ![p] = NoRow]
  /\ work' = [work EXCEPT ![p] = "idle"]
  /\ canRelease' = [canRelease EXCEPT ![p] = FALSE]
  /\ unsafe' = [unsafe EXCEPT ![p] = FALSE]
  /\ pipeLost' = [pipeLost EXCEPT ![p] = FALSE]
  /\ path' = [path EXCEPT ![p] = "runtime"]
  /\ UNCHANGED <<storeVars, faults>>

\* The OS closes the listener; the process has not been told yet.
PipeClosed(p) ==
  /\ pipe = p /\ faults < MaxFaults
  /\ pipe' = NoProc
  /\ faults' = faults + 1
  /\ pipeLost' = [pipeLost EXCEPT ![p] = TRUE]
  /\ UNCHANGED <<storeVars, guardVars, stopVars, lockHeld, waitVars, phase>>

\* The close event, or an error of a listener that stays bound, reaches the
\* process: handleClose, handleError and the guard's listener.
ListenerLost(p) ==
  /\ Alive(p) /\ lockHeld[p]
  /\ \/ pipeLost[p] /\ UNCHANGED faults
     \/ ~pipeLost[p] /\ faults < MaxFaults /\ faults' = faults + 1
  /\ lockHeld' = [lockHeld EXCEPT ![p] = FALSE]
  /\ MarkLost(p, "PROCESS_LOCK_LOST", record[p], phase[p])
  /\ UNCHANGED <<storeVars, stopVars, pipe, pipeLost, waitVars>>

ProcStep(p) ==
  \/ AcquireProcessLock(p) \/ RuntimeAlreadyOwned(p)
  \/ BeginShutdown(p) \/ WorkersQuiesced(p) \/ QuiescenceTimeout(p)
  \/ LossRecordingDone(p) \/ CloseScope(p)
  \/ Exit(p) \/ PipeClosed(p) \/ ListenerLost(p)
  \/ \E now \in Time :
       \/ GuardAcquire(p, now) \/ GuardAcquired(p, now)
       \/ Dispatch(p, now) \/ Settle(p, now)
       \/ HeartbeatAttempt(p, now) \/ HeartbeatContinue(p, now)
       \/ RecordLost(p, now) \/ ReleaseOwnership(p, now)
       \/ \E at \in Time : FinishStart(p, now, at) \/ AssertCurrentFinish(p, now, at)

Next == \E p \in Proc : ProcStep(p)

Spec == Init /\ [][Next]_vars

\* Once a stop has begun its own steps are scheduled by timers and settled
\* promises, whatever the workers do: the quiescence wait has a timeout, a
\* renewal and a loss record are single synchronous transactions.
StopStep(p) ==
  \/ WorkersQuiesced(p) \/ QuiescenceTimeout(p) \/ LossRecordingDone(p) \/ CloseScope(p)
  \/ \E now \in Time : HeartbeatContinue(p, now) \/ RecordLost(p, now)
                        \/ ReleaseOwnership(p, now)

-----------------------------------------------------------------------------
(***************************************************************************)
(* Properties.                                                             *)
(***************************************************************************)

\* A generation belongs to one process for ever: whatever events the log holds
\* for a generation (acquired, taken over, released, lost), they are the same
\* owner's, although acquireAfterProcessLock computes the number from a row
\* that release deletes.
GenerationsUnique ==
  \A e, f \in events : e.gen = f.gen => e.owner = f.owner

\* A generation that was released cleanly is not also recorded as lost, although
\* store.release and the queued store.recordLost race in the scoped and the
\* failed-start stop.
OneOutcomePerGeneration ==
  \A e, f \in events : e.gen = f.gen /\ e.type = "RELEASED" => f.type # "LOST"

\* A call that begins begins under the newest generation ever granted.
CallsAreFenced ==
  \A p \in Proc : work[p] # "sent" /\ work'[p] = "sent" =>
    row.owner = p /\ \A e \in events : e.gen <= row.gen

\* runWithCurrentExecutionAuthority starts a call only for the process whose
\* generation is the newest ever granted, whoever took the lock in between.
DispatchFenced == [][CallsAreFenced]_vars

\* A later generation than the one the process holds has been granted.
Superseded(p) == record[p].gen # 0 /\ record[p].gen < evGen

\* A superseded process changes nothing any more: it starts no call, appends no
\* event, and the heartbeat in the row moves only by its owner's own attempt.
SupersededIsInert ==
  [][\A p \in Proc : Superseded(p) =>
       /\ work'[p] = "sent" => work[p] = "sent"
       /\ \A e \in events' \ events : e.owner # p
       /\ row'.owner # p
       /\ row'.gen = row.gen /\ hb'[p] # hb[p] => row' = row]_vars

\* The persisted heartbeat never goes back, within a generation or from one to
\* the next, although Date.now() may.
HeartbeatMonotone ==
  [][row.gen # 0 /\ row'.gen # 0 => row'.hb >= row.hb]_vars

\* Ownership is released cleanly only by a process with no call and no renewal
\* under way, on every stop path and after a quiescence timeout too.
ReleasedQuiescent ==
  [][\A p \in Proc : [gen |-> record[p].gen, type |-> "RELEASED", owner |-> p]
                        \in events' \ events
                     => work[p] = "idle" /\ ~HeartbeatInFlight(p)]_vars

\* A process is admitted (binds the pipe) only when no other process still has an
\* outbound call under way, unless the OS closed that one's listener: this is
\* what retaining the process lock after a failed quiescence is for.
NoOverlappingSideEffect ==
  [][\A p, q \in Proc : pipe # p /\ pipe' = p /\ q # p /\ work[q] = "sent"
                        => pipeLost[q]]_vars

\* The log shows that p was given generation g.
Granted(g, p) == \E e \in events : e.gen = g /\ e.owner = p

\* What p remembers of its ownership was really given to it.
OwnMemory(p) ==
  /\ record[p].gen # 0 => record[p].owner = p /\ Granted(record[p].gen, p)
  /\ acquired[p].gen # 0 => acquired[p].owner = p /\ Granted(acquired[p].gen, p)
  /\ status[p] = "OWNED" => record[p].gen # 0
  /\ phase[p] = "acquiring" => acquired[p].gen # 0

\* The inductive strengthening of GenerationsUnique: what ties the row, the log
\* and the memory of the processes together.
Ledger ==
  /\ GenerationsUnique
  /\ \A e \in events : e.gen # 0 /\ e.gen <= evGen
  /\ row.gen = 0 => row.owner = NoProc
  /\ row.gen # 0 => row.gen = evGen /\ Granted(row.gen, row.owner)
  /\ \A p \in Proc : OwnMemory(p)

\* A long-running process whose guard is lost is never left running: the loss
\* handler begins its stop in the step of the loss, also on the first check.
LossStopsRuntime ==
  \A p \in Proc : phase[p] = "running" /\ path[p] = "runtime" => status[p] = "OWNED"

\* Runtime ownership implements the fence, with the calls of the processes that
\* still wait for an answer.
Fence == INSTANCE ExecutionFence WITH
           latest <- evGen, owner <- row.owner,
           calls <- {record[p].gen : p \in {q \in Proc : work[q] = "sent"}}
ImplementsFence == Fence!Spec

===============================================================================
