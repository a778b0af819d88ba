--------------------------- MODULE StrategyScheduler ---------------------------
(***************************************************************************)
(* The strategy scheduler of a LIVE runtime and the run controller it      *)
(* shares with the operator's /run: cycles at startup, one after the       *)
(* other; timers whose cycles pass through one queue; the operator's       *)
(* manual runs. A cycle awaits an account refresh (shared when one is in   *)
(* flight), a preflight over the stored health, the insertion of its       *)
(* history row, the controller, and the recording of its result. Each      *)
(* await is a point where the other actors, the clock, a stop or the loss  *)
(* of runtime ownership come in between.                                   *)
(*                                                                         *)
(* The operators named Wrong... are mistakes this code could contain; no   *)
(* definition uses them. Each makes one of the properties below fail.      *)
(***************************************************************************)
EXTENDS Naturals, Sequences, FiniteSets

CONSTANTS Markets,      \* the sequence of configured markets
          Candidate,    \* markets whose preparation the controller owns
          Interval,     \* the scheduling interval of both markets
          Granularity,  \* clock units in a batch key's second
          RunOnStart, Manual,  \* is there a startup cycle, does the operator send /run
          MaxTime       \* bound: the clock

Market == {Markets[i] : i \in 1 .. Len(Markets)}

\* createDefaultStrategySchedulerConfig names each market once.
SchedulerAssumption ==
  /\ Markets \in Seq(Market) /\ Len(Markets) > 0
  /\ \A i, j \in 1 .. Len(Markets) : Markets[i] = Markets[j] => i = j
  /\ Interval \in Nat \ {0} /\ Granularity \in Nat \ {0} /\ MaxTime \in Nat
  /\ RunOnStart \in BOOLEAN /\ Manual \in BOOLEAN

VARIABLES
  now, started, stopBegun,
  launched,   \* start was called
  quiesced,   \* stopAndWait: not called, waiting, or returned with quiesced
  waiting,    \* what stopAndWait waits for
  held,       \* runtime ownership is held locally
  due,        \* each market's timer
  queue,      \* scheduledRunQueue, with the cycle in progress at its head
  toStart,    \* markets still to run at startup, the one in progress first
  actor,      \* where each caller of a run stands
  busy,       \* who holds the controller's running flag
  running,    \* each market status's running flag
  refresh,    \* accountRefreshInFlight; is it younger than the last order
  lastKey,    \* orderSubmittedBatchKey
  health      \* the stored account health: when it was taken, and whether it is sound

vars == <<now, started, stopBegun, launched, quiesced, waiting, held, due, queue, toStart,
          actor, busy, running, refresh, lastKey, health>>

Schedulers == {"startup", "queue"}
Actors == Schedulers \cup {"operator"}
NoTimer == MaxTime + Interval + 1
NoKey == NoTimer
Results == {"none", "submitted", "other", "FAILED", "SKIPPED", "ALREADY_RUNNING"}
Idle(m) == [step |-> "idle", market |-> m, key |-> NoKey, fresh |-> FALSE, row |-> FALSE,
            result |-> "none"]

\* buildSchedulerBatchKey
BatchKey(t) == t \div Granularity

MaxKey == (MaxTime + Interval) \div Granularity

TypeOK ==
  /\ now \in 0 .. MaxTime
  /\ {started, stopBegun, launched, held} \subseteq BOOLEAN
  /\ quiesced \in {"no", "waiting", "yes"}
  /\ waiting \subseteq Schedulers
  /\ due \in [Market -> 0 .. NoTimer]
  /\ \A i \in 1 .. Len(queue) : queue[i] \in [market : Market, key : 0 .. MaxKey]
  /\ Len(queue) <= Cardinality(Market) /\ Len(toStart) <= Cardinality(Market)
  /\ actor \in [Actors -> [step : {"idle", "refreshing", "preflight", "persisting", "requesting",
                                   "preparing", "running", "recording"},
                           market : Market, key : 0 .. MaxKey \cup {NoKey},
                           fresh : BOOLEAN, row : BOOLEAN, result : Results]]
  /\ busy \in Actors \cup {"nobody"}
  /\ running \in [Market -> BOOLEAN]
  /\ refresh \in [inFlight : BOOLEAN, fresh : BOOLEAN]
  /\ lastKey \in 0 .. MaxKey \cup {NoKey}
  /\ health \in [at : 0 .. MaxTime, sound : BOOLEAN]

Init ==
  /\ now = 0 /\ started = FALSE /\ stopBegun = FALSE /\ launched = FALSE /\ quiesced = "no"
  /\ waiting = {} /\ held = TRUE
  /\ due = [m \in Market |-> NoTimer] /\ queue = <<>> /\ toStart = <<>>
  /\ actor = [a \in Actors |-> Idle(Markets[1])]
  /\ busy = "nobody" /\ running = [m \in Market |-> FALSE]
  /\ refresh = [inFlight |-> FALSE, fresh |-> FALSE]
  /\ lastKey = NoKey
  /\ health \in [at : {0}, sound : BOOLEAN]

-----------------------------------------------------------------------------
(***************************************************************************)
(* Start, timers and the queue                                             *)
(***************************************************************************)

\* evaluateLiveStrategyRunPreflight: the operator state runs, no order is active, the
\* last reconciliation is clean, and the snapshots are not older than an interval.
HealthPasses == health.sound /\ now - health.at <= Interval

Start ==
  /\ ~launched /\ ~stopBegun /\ held
  /\ launched' = TRUE
  /\ started' = HealthPasses
  /\ toStart' = IF HealthPasses /\ RunOnStart THEN Markets ELSE <<>>
  /\ due' = IF HealthPasses /\ ~RunOnStart THEN [m \in Market |-> now + Interval] ELSE due
  /\ UNCHANGED <<now, stopBegun, quiesced, waiting, held, queue, actor, busy, running, refresh,
                 lastKey, health>>

\* The callback of scheduleMarket's timer: enqueueScheduledMarketRun. The event loop
\* runs overdue timers in the order in which they fell due.
TimerFires(m) ==
  /\ due[m] # NoTimer /\ now >= due[m] /\ \A n \in Market : due[m] <= due[n]
  /\ due' = [due EXCEPT ![m] = NoTimer]
  /\ queue' = Append(queue, [market |-> m, key |-> BatchKey(due[m])])
  /\ UNCHANGED <<now, started, stopBegun, launched, quiesced, waiting, held, toStart, actor, busy,
                 running, refresh, lastKey, health>>

\* What the queue and the startup loop look at before the next cycle.
MayContinue == started

\* Who refreshes and checks the account before the strategy runs: resolveRunPreparationOwner.
FirstStep(m) == IF m \in Candidate THEN "persisting" ELSE "refreshing"

\* executeMarketNow up to its first await. A cycle of the same market in progress is
\* only recorded as skipped; an account refresh in flight is joined.
BeginRun(a, m, key) ==
  IF running[m]
  THEN /\ actor' = [actor EXCEPT ![a] = [Idle(m) EXCEPT !.step = "recording", !.key = key,
                                                        !.result = "ALREADY_RUNNING"]]
       /\ UNCHANGED <<running, refresh>>
  ELSE /\ running' = [running EXCEPT ![m] = TRUE]
       /\ actor' = [actor EXCEPT ![a] = [Idle(m) EXCEPT !.step = FirstStep(m), !.key = key]]
       /\ refresh' = IF FirstStep(m) = "refreshing" /\ ~refresh.inFlight
                     THEN [inFlight |-> TRUE, fresh |-> TRUE] ELSE refresh

\* orderSubmittedBatchKey === batchKey
AlreadyOrdered(key) == lastKey = key

\* The next link of scheduledRunQueue: a cycle whose batch has submitted an order
\* already is recorded as skipped.
TakeQueued ==
  /\ queue # <<>> /\ actor["queue"].step = "idle" /\ held
  /\ LET e == Head(queue) IN
     IF ~MayContinue
     THEN /\ queue' = Tail(queue)
          /\ waiting' = IF queue' = <<>> THEN waiting \ {"queue"} ELSE waiting
          /\ UNCHANGED <<actor, running, refresh>>
     ELSE IF AlreadyOrdered(e.key)
     THEN /\ actor' = [actor EXCEPT !["queue"] = [Idle(e.market) EXCEPT !.step = "recording",
                                                     !.key = e.key, !.result = "SKIPPED"]]
          /\ running' = [running EXCEPT ![e.market] = FALSE]
          /\ UNCHANGED <<queue, waiting, refresh>>
     ELSE BeginRun("queue", e.market, e.key) /\ UNCHANGED <<queue, waiting>>
  /\ UNCHANGED <<now, started, stopBegun, launched, quiesced, held, due, toStart, busy, lastKey,
                 health>>

\* runMarketsOnStartSequentially, outside the queue.
StartupCycle ==
  /\ toStart # <<>> /\ actor["startup"].step = "idle" /\ held
  /\ IF MayContinue
     THEN BeginRun("startup", Head(toStart), NoKey) /\ UNCHANGED toStart
     ELSE toStart' = <<>> /\ UNCHANGED <<actor, running, refresh>>
  /\ UNCHANGED <<now, started, stopBegun, launched, quiesced, waiting, held, due, queue, busy,
                 lastKey, health>>

-----------------------------------------------------------------------------
(***************************************************************************)
(* The steps of a cycle                                                    *)
(***************************************************************************)

\* applyRunResult with a FAILED result; then the history row and the report are awaited.
Failed(a) ==
  /\ actor' = [actor EXCEPT ![a] = [@ EXCEPT !.step = "recording", !.result = "FAILED"]]
  /\ running' = [running EXCEPT ![actor[a].market] = FALSE]

\* beforeRunAccountRefresh settles for all who await it. A reconciliation may leave an
\* order active or report an issue: the health it stores is sound or not.
RefreshEnds(ok, sound) ==
  /\ refresh.inFlight /\ held
  /\ refresh' = [refresh EXCEPT !.inFlight = FALSE]
  /\ health' = IF ok THEN [at |-> now, sound |-> sound] ELSE health
  /\ LET joined == {a \in Schedulers : actor[a].step = "refreshing"} IN
     /\ actor' = [a \in Actors |->
                    IF a \notin joined THEN actor[a]
                    ELSE IF ok THEN [actor[a] EXCEPT !.step = "preflight", !.fresh = refresh.fresh]
                    ELSE [actor[a] EXCEPT !.step = "recording", !.result = "FAILED"]]
     /\ running' = [m \in Market |->
                      IF ~ok /\ m \in {actor[a].market : a \in joined} THEN FALSE ELSE running[m]]
  /\ UNCHANGED <<now, started, stopBegun, launched, quiesced, waiting, held, due, queue, toStart,
                 busy, lastKey>>

\* beforeRunPreflight reads the stored health; BLOCK or an error fails the cycle.
Preflight(a, ok) ==
  /\ actor[a].step = "preflight" /\ held
  /\ IF ok /\ HealthPasses
     THEN actor' = [actor EXCEPT ![a] = [@ EXCEPT !.step = "persisting"]] /\ UNCHANGED running
     ELSE Failed(a)
  /\ UNCHANGED <<now, started, stopBegun, launched, quiesced, waiting, held, due, queue, toStart,
                 busy, refresh, lastKey, health>>

\* persistSchedulerRun returns false when the database refuses the row.
StartPersisted(ok) == ok

PersistStart(a, ok) ==
  /\ actor[a].step = "persisting" /\ held
  /\ IF StartPersisted(ok)
     THEN /\ actor' = [actor EXCEPT ![a] = [@ EXCEPT !.step = "requesting", !.row = ok]]
          /\ UNCHANGED running
     ELSE Failed(a)
  /\ UNCHANGED <<now, started, stopBegun, launched, quiesced, waiting, held, due, queue, toStart,
                 busy, refresh, lastKey, health>>

\* Only a manual run respects the flag.
WrongControllerFree(a) == a # "operator" \/ busy = "nobody"

\* requestRun's running flag
ControllerFree(a) == busy = "nobody"

\* controller.requestRun for a scheduled cycle.
RequestRun(a) ==
  /\ actor[a].step = "requesting" /\ held
  /\ IF ControllerFree(a)
     THEN /\ busy' = a
          /\ actor' = [actor EXCEPT ![a] = [@ EXCEPT !.step = IF actor[a].market \in Candidate
                                                             THEN "preparing" ELSE "running"]]
          /\ UNCHANGED running
     ELSE /\ actor' = [actor EXCEPT ![a] = [@ EXCEPT !.step = "recording",
                                                    !.result = "ALREADY_RUNNING"]]
          /\ running' = [running EXCEPT ![actor[a].market] = FALSE]
          /\ UNCHANGED busy
  /\ UNCHANGED <<now, started, stopBegun, launched, quiesced, waiting, held, due, queue, toStart,
                 refresh, lastKey, health>>

\* controller.requestRun for the operator's /run: a market the scheduler would prepare
\* passes the preflight over the stored health, without a refresh.
RequestManualRun(m) ==
  /\ Manual /\ actor["operator"].step = "idle" /\ held
  /\ ControllerFree("operator") /\ (m \in Candidate \/ HealthPasses)
  /\ busy' = "operator"
  /\ actor' = [actor EXCEPT !["operator"] =
                 [Idle(m) EXCEPT !.step = IF m \in Candidate THEN "preparing" ELSE "running"]]
  /\ UNCHANGED <<now, started, stopBegun, launched, quiesced, waiting, held, due, queue, toStart,
                 running, refresh, lastKey, health>>

\* The end of a request: the controller's finally, and the caller's result.
Return(a, result) ==
  /\ busy' = IF busy = a THEN "nobody" ELSE busy
  /\ running' = IF a \in Schedulers THEN [running EXCEPT ![actor[a].market] = FALSE] ELSE running
  /\ LET done == IF a \in Schedulers
                 THEN [actor[a] EXCEPT !.step = "recording", !.result = result]
                 ELSE Idle(actor[a].market)
     IN actor' = [b \in Actors |->
                    IF b = a THEN done
                    ELSE IF result = "submitted" THEN [actor[b] EXCEPT !.fresh = FALSE]
                    ELSE actor[b]]

\* candidateBtcRunPreparation.prepare synchronizes and checks the account itself.
Prepare(a, ready) ==
  /\ actor[a].step = "preparing" /\ held
  /\ IF ready
     THEN /\ health' = [at |-> now, sound |-> TRUE]
          /\ actor' = [actor EXCEPT ![a] = [@ EXCEPT !.step = "running", !.fresh = TRUE]]
          /\ UNCHANGED <<busy, running>>
     ELSE Return(a, "FAILED") /\ UNCHANGED health
  /\ UNCHANGED <<now, started, stopBegun, launched, quiesced, waiting, held, due, queue, toStart,
                 refresh, lastKey>>

\* runner.runOnce settles. An order it submitted is active until a reconciliation
\* finds it settled, so the stored health no longer passes.
RunnerEnds(a, result) ==
  /\ actor[a].step = "running" /\ held
  /\ Return(a, result)
  /\ health' = IF result = "submitted" THEN [health EXCEPT !.sound = FALSE] ELSE health
  /\ refresh' = IF result = "submitted" THEN [refresh EXCEPT !.fresh = FALSE] ELSE refresh
  /\ UNCHANGED <<now, started, stopBegun, launched, quiesced, waiting, held, due, queue, toStart,
                 lastKey>>

\* scheduleMarket
Reschedule(m, result) == started

\* The row and the report were awaited: the cycle returns to the queue's or the
\* startup loop's continuation, which schedules the market's next cycle.
Recorded(a) ==
  /\ actor[a].step = "recording" /\ held
  /\ LET m == actor[a].market IN
     /\ due' = IF Reschedule(m, actor[a].result) THEN [due EXCEPT ![m] = now + Interval] ELSE due
     /\ actor' = [actor EXCEPT ![a] = Idle(m)]
  /\ queue' = IF a = "queue" THEN Tail(queue) ELSE queue
  /\ toStart' = IF a = "startup" THEN Tail(toStart) ELSE toStart
  /\ waiting' = IF a = "startup" \/ queue' = <<>> THEN waiting \ {a} ELSE waiting
  /\ lastKey' = IF a = "queue" /\ actor[a].result = "submitted" THEN actor[a].key ELSE lastKey
  /\ UNCHANGED <<now, started, stopBegun, launched, quiesced, held, busy, running, refresh, health>>

-----------------------------------------------------------------------------
(***************************************************************************)
(* Stop, ownership, time                                                   *)
(***************************************************************************)

\* What stopAndWait waits for: the runs in flight and the queue as it is now.
Stopping ==
  /\ stopBegun' = TRUE /\ started' = FALSE
  /\ due' = [m \in Market |-> NoTimer]

Stop ==
  /\ launched /\ quiesced = "no" /\ quiesced' = "waiting"
  /\ Stopping
  /\ waiting' = {a \in Schedulers : actor[a].step # "idle"}
                  \cup (IF queue # <<>> THEN {"queue"} ELSE {})
  /\ UNCHANGED <<now, launched, held, queue, toStart, actor, busy, running, refresh, lastKey,
                 health>>

StopReturns ==
  /\ quiesced = "waiting" /\ waiting = {}
  /\ quiesced' = "yes"
  /\ UNCHANGED <<now, started, stopBegun, launched, waiting, held, due, queue, toStart, actor, busy,
                 running, refresh, lastKey, health>>

LoseOwnership ==
  /\ launched /\ held /\ held' = FALSE
  /\ UNCHANGED <<now, started, stopBegun, launched, quiesced, waiting, due, queue, toStart, actor,
                 busy, running, refresh, lastKey, health>>

\* The assertion after an await throws. handleRuntimeOwnershipFailure stops the
\* scheduler; the market's running flag stays as it is.
Throws(a) ==
  /\ ~held /\ actor[a].step # "idle"
  /\ IF a \in Schedulers THEN Stopping ELSE UNCHANGED <<stopBegun, started, due>>
  /\ actor' = [actor EXCEPT ![a] = Idle(actor[a].market)]
  /\ busy' = IF busy = a THEN "nobody" ELSE busy
  /\ queue' = IF a = "queue" THEN Tail(queue) ELSE queue
  /\ toStart' = IF a = "startup" THEN <<>> ELSE toStart
  /\ waiting' = IF a = "startup" \/ queue' = <<>> THEN waiting \ {a} ELSE waiting
  /\ UNCHANGED <<now, launched, quiesced, held, running, refresh, lastKey, health>>

\* runMarketNow refuses a cycle the queue or the startup loop would begin now.
RunRefused ==
  /\ ~held
  /\ \/ /\ queue # <<>> /\ actor["queue"].step = "idle"
        /\ queue' = Tail(queue) /\ UNCHANGED toStart
        /\ waiting' = IF queue' = <<>> THEN waiting \ {"queue"} ELSE waiting
     \/ /\ toStart # <<>> /\ actor["startup"].step = "idle"
        /\ toStart' = <<>> /\ UNCHANGED <<queue, waiting>>
  /\ Stopping
  /\ UNCHANGED <<now, launched, quiesced, held, actor, busy, running, refresh, lastKey, health>>

Tick ==
  /\ now < MaxTime /\ now' = now + 1
  /\ UNCHANGED <<started, stopBegun, launched, quiesced, waiting, held, due, queue, toStart, actor,
                 busy, running, refresh, lastKey, health>>

Cycle(a) ==
  \/ \E ok \in BOOLEAN : Preflight(a, ok) \/ PersistStart(a, ok)
  \/ RequestRun(a) \/ Recorded(a)

Request(a) ==
  \/ \E ready \in BOOLEAN : Prepare(a, ready)
  \/ \E result \in {"submitted", "other", "FAILED"} : RunnerEnds(a, result)
  \/ Throws(a)

Next ==
  \/ Start \/ TakeQueued \/ StartupCycle \/ Stop \/ StopReturns \/ LoseOwnership \/ RunRefused
  \/ Tick
  \/ \E m \in Market : TimerFires(m) \/ RequestManualRun(m)
  \/ \E ok, sound \in BOOLEAN : RefreshEnds(ok, sound)
  \/ \E a \in Schedulers : Cycle(a)
  \/ \E a \in Actors : Request(a)

Spec == Init /\ [][Next]_vars

-----------------------------------------------------------------------------
(***************************************************************************)
(* Properties                                                              *)
(***************************************************************************)

\* The queue, the startup loop and /run never have two strategy runs in progress,
\* whichever of the three comes first.
OneStrategyRun ==
  \A a, b \in Actors : actor[a].step \in {"preparing", "running"}
                         /\ actor[b].step \in {"preparing", "running"} => a = b

\* While the scheduler runs, each market has a timer or a cycle that will set one:
\* no failure, skip or refusal drops a market until the next restart.
NoMarketForgotten ==
  started /\ held =>
    \A m \in Market : \/ due[m] # NoTimer
                      \/ \E i \in 1 .. Len(queue) : queue[i].market = m
                      \/ \E i \in 1 .. Len(toStart) : toStart[i] = m

\* A strategy run the scheduler asked for has its history row in the database.
RunHasHistory == \A a \in Schedulers : actor[a].step \in {"preparing", "running"} => actor[a].row

\* quiesced is reported only when nothing of the scheduler can act any more.
QuiescedMeansIdle ==
  quiesced = "yes" => \A a \in Schedulers : actor[a].step = "idle"

\* With timers only, no decision is made on an account refresh older than the last
\* order: the queue lets no other cycle's order come after the refresh.
RefreshedSinceOrder ==
  \A a \in Schedulers : actor[a].step = "running" => actor[a].fresh

\* In one batch at most one cycle submits an order.
BatchOrdersOnce ==
  actor["queue"].step = "running" /\ actor'["queue"].result = "submitted"
    => lastKey # actor["queue"].key

=============================================================================
