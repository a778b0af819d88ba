----------------------------- MODULE MCLiveness -------------------------------
(***************************************************************************)
(* What must eventually happen, under the fairness of the code's own       *)
(* scheduling: stops, polls, deliveries and scheduled runs end, and recovery*)
(* and the opening of the database complete.  A behaviour is of the one    *)
(* component "part" names, with the bounds of that instance.               *)
(***************************************************************************)
EXTENDS MigrationFiles, TLC

CONSTANTS Parts  \* Parts: the components to explore

VARIABLES
  part,  \* the component this behaviour is of
  pipe, evGen, evAt, events, path, lockHeld, status, lossReason, record, acquired, hb,
  pendingLoss, checking, work, canRelease, unsafe, pipeLost,  \* RuntimeOwnership
  unconfirmed, stored, nextOffset, offsetLoaded, step, batch, effects, outcome,  \* TelegramInbound
  note, todo, current, result, token, rerun, stopped, runs, sends, delivered, lost, reports,  \* NotificationDelivery
  started, stopBegun, launched, quiesced, waiting, due, queue, toStart, actor, busy, refresh,
  lastKey, health,  \* StrategyScheduler
  local, cp, late, lastStart,  \* HistoryRecovery
  fills, seen, marked, shape, trouble,  \* ReconciliationSweep
  db, pc, at, crashes, past,  \* DatabaseMigrations
  row, phase, faults, held, running, now, ex, run, report  \* of several

\* One update of each kind, and two commands of the operator.
Updates == <<"foreign", "badCallback", "command", "callback", "command">>
CanonicalCache == [shadows |-> Shadows, deltas |-> Deltas]

Stop == INSTANCE RuntimeOwnership WITH Proc <- {"p1", "p2"}, NoProc <- "nobody", MaxClock <- 1,
  TTL <- 1, Kinds <- {"runtime"}, MaxFaults <- 0
Inbound == INSTANCE TelegramInbound WITH Kind <- Updates, MaxCrashes <- 0, MaxLoadErrors <- 1,
  MaxSaveErrors <- 0, MaxHttpErrors <- 2
Queue == INSTANCE NotificationDelivery WITH Proc <- {"p1"}, Note <- {"n1", "n2"},
  MaxAttempts <- 2, Limit <- 2, MaxReports <- 2, MaxFaults <- 0
Timers == INSTANCE StrategyScheduler WITH Markets <- <<"KRW-BTC", "KRW-ETH">>, Candidate <- {},
  Interval <- 2, Granularity <- 2, RunOnStart <- FALSE, Manual <- FALSE, MaxTime <- 5
History == INSTANCE HistoryRecovery WITH Lookback <- 1, StopBefore <- 3, Retention <- 4,
  FirstDay <- 3, Markets <- {"KRW-BTC"}, Orders <- {1, 2}, Capacity <- 3, Resting <- FALSE,
  MaxTime <- 5, MaxGap <- 1, MaxFaults <- 0
Sweep == INSTANCE ReconciliationSweep WITH Runs <- {"startup"}, Orders <- {1, 2}, Budget <- 1,
  Enough <- 2, Shapes <- {"uncertain", "persisted", "bareFilled"}, Troubles <- {"transient"},
  MaxTroubled <- 0, MaxFaults <- 0
Starving == INSTANCE ReconciliationSweep WITH Runs <- {"startup"}, Orders <- {1, 2, 3},
  Budget <- 2, Enough <- 2, Shapes <- {"persisted"}, Troubles <- {"transient"},
  MaxTroubled <- 1, MaxFaults <- 0
Opening == INSTANCE DatabaseMigrations WITH Procs <- {"p1", "p2"}, Cache <- CanonicalCache,
  MaxCrashes <- 1

ASSUME Inbound!InboundAssumption /\ Queue!DeliveryAssumption /\ Timers!SchedulerAssumption /\
       History!HistoryConstants /\ Sweep!SweepConstants /\ Starving!SweepConstants /\
       Opening!BoundsAssumption

ownershipVars == <<pipe, evGen, evAt, events, path, lockHeld, status, lossReason, record,
                   acquired, hb, pendingLoss, checking, work, canRelease, unsafe, pipeLost>>
inboundVars == <<unconfirmed, stored, nextOffset, offsetLoaded, step, batch, effects, outcome>>
queueVars == <<note, todo, current, result, token, rerun, stopped, runs, sends, delivered, lost,
               reports>>
timersVars == <<started, stopBegun, launched, quiesced, waiting, due, queue, toStart, actor,
                busy, refresh, lastKey, health>>
historyVars == <<local, cp, late, lastStart>>
sweepVars == <<fills, seen, marked, shape, trouble>>
openingVars == <<db, pc, at, crashes, past>>
vars == <<part, ownershipVars, inboundVars, queueVars, timersVars, historyVars, sweepVars,
          openingVars, row, phase, faults, held, running, now, ex, run, report>>

Off == 0
ownershipOff == pipe = Off /\ evGen = Off /\ evAt = Off /\ events = Off /\ path = Off /\
                lockHeld = Off /\ status = Off /\ lossReason = Off /\ record = Off /\
                acquired = Off /\ hb = Off /\ pendingLoss = Off /\ checking = Off /\
                work = Off /\ canRelease = Off /\ unsafe = Off /\ pipeLost = Off
inboundOff == unconfirmed = Off /\ stored = Off /\ nextOffset = Off /\ offsetLoaded = Off /\
              step = Off /\ batch = Off /\ effects = Off /\ outcome = Off
queueOff == note = Off /\ todo = Off /\ current = Off /\ result = Off /\ token = Off /\
            rerun = Off /\ stopped = Off /\ runs = Off /\ sends = Off /\ delivered = Off /\
            lost = Off /\ reports = Off
timersOff == started = Off /\ stopBegun = Off /\ launched = Off /\ quiesced = Off /\
             waiting = Off /\ due = Off /\ queue = Off /\ toStart = Off /\ actor = Off /\
             busy = Off /\ refresh = Off /\ lastKey = Off /\ health = Off
historyOff == local = Off /\ cp = Off /\ late = Off /\ lastStart = Off
sweepOff == fills = Off /\ seen = Off /\ marked = Off /\ shape = Off /\ trouble = Off
openingOff == db = Off /\ pc = Off /\ at = Off /\ crashes = Off /\ past = Off

Init == /\ part \in Parts
        /\ \/ part = "stop" /\ Stop!Init /\ inboundOff /\ queueOff /\ timersOff /\ historyOff /\
              sweepOff /\ openingOff /\ held = Off /\ running = Off /\ now = Off /\ ex = Off /\
              run = Off /\ report = Off
           \/ part = "inbound" /\ Inbound!Init /\ ownershipOff /\ queueOff /\ timersOff /\
              historyOff /\ sweepOff /\ openingOff /\ row = Off /\ phase = Off /\ now = Off /\
              ex = Off /\ run = Off /\ report = Off
           \/ part = "queue" /\ Queue!Init /\ ownershipOff /\ inboundOff /\ timersOff /\
              historyOff /\ sweepOff /\ openingOff /\ row = Off /\ running = Off /\ now = Off /\
              ex = Off /\ run = Off /\ report = Off
           \/ part = "timers" /\ Timers!Init /\ ownershipOff /\ inboundOff /\ queueOff /\
              historyOff /\ sweepOff /\ openingOff /\ row = Off /\ phase = Off /\
              faults = Off /\ ex = Off /\ run = Off /\ report = Off
           \/ part = "history" /\ History!Init /\ ownershipOff /\ inboundOff /\ queueOff /\
              timersOff /\ sweepOff /\ openingOff /\ row = Off /\ phase = Off /\ held = Off /\
              running = Off
           \/ part = "sweep" /\ Sweep!Init /\ ownershipOff /\ inboundOff /\ queueOff /\
              timersOff /\ historyOff /\ openingOff /\ phase = Off /\ held = Off /\
              running = Off /\ now = Off
           \/ part = "starving" /\ Starving!Init /\ ownershipOff /\ inboundOff /\ queueOff /\
              timersOff /\ historyOff /\ openingOff /\ phase = Off /\ held = Off /\
              running = Off /\ now = Off
           \/ part = "opening" /\ Opening!Init /\ ownershipOff /\ inboundOff /\ queueOff /\
              timersOff /\ historyOff /\ sweepOff /\ row = Off /\ phase = Off /\ faults = Off /\
              held = Off /\ running = Off /\ now = Off /\ ex = Off /\ run = Off /\ report = Off

StopStep == part = "stop" /\ Stop!Next /\ UNCHANGED <<part, inboundVars, queueVars, timersVars,
            historyVars, sweepVars, openingVars, held, running, now, ex, run, report>>
InboundStep == part = "inbound" /\ Inbound!Next /\ UNCHANGED <<part, ownershipVars, queueVars,
            timersVars, historyVars, sweepVars, openingVars, row, phase, now, ex, run, report>>
QueueStep == part = "queue" /\ Queue!Next /\ UNCHANGED <<part, ownershipVars, inboundVars,
            timersVars, historyVars, sweepVars, openingVars, row, running, now, ex, run,
            report>>
TimersStep == part = "timers" /\ Timers!Next /\ UNCHANGED <<part, ownershipVars, inboundVars,
            queueVars, historyVars, sweepVars, openingVars, row, phase, faults, ex, run,
            report>>
HistoryStep == part = "history" /\ History!Next /\ UNCHANGED <<part, ownershipVars, inboundVars,
            queueVars, timersVars, sweepVars, openingVars, row, phase, held, running>>
SweepStep == part = "sweep" /\ Sweep!Next /\ UNCHANGED <<part, ownershipVars, inboundVars,
            queueVars, timersVars, historyVars, openingVars, phase, held, running, now>>
StarvingStep == part = "starving" /\ Starving!Next /\ UNCHANGED <<part, ownershipVars,
            inboundVars, queueVars, timersVars, historyVars, openingVars, phase, held, running,
            now>>
OpeningStep == part = "opening" /\ Opening!Next /\ UNCHANGED <<part, ownershipVars, inboundVars,
            queueVars, timersVars, historyVars, sweepVars, row, phase, faults, held, running,
            now, ex, run, report>>

Next == StopStep \/ InboundStep \/ QueueStep \/ TimersStep \/ HistoryStep \/ SweepStep \/
        StarvingStep \/ OpeningStep

StopState == Stop!vars
InboundState == Inbound!vars
QueueState == Queue!vars
TimersState == Timers!vars
HistoryState == History!vars
SweepState == Sweep!vars
OpeningState == Opening!vars

\* The fairness of the code's own scheduling, and of nothing else: the event loop goes on
\* once a stop has begun; the timer of the next poll fires and its request and handlers
\* settle; a delivery run goes on (requests time out); a refresh, a cycle and a request
\* under way go on; recovery runs are repeated and their calls return, and a market order
\* closes by itself; a process that opens the database goes on, and one that failed to
\* open it tries again.
Fairness ==
  /\ \A p \in {"p1", "p2"} : WF_StopState(part = "stop" /\ Stop!StopStep(p))
  /\ WF_InboundState(part = "inbound" /\ Inbound!PollSucceeds)
  /\ WF_QueueState(part = "queue" /\ Queue!RunStep("p1"))
  /\ WF_TimersState(part = "timers" /\ \E ok, sound \in BOOLEAN : Timers!RefreshEnds(ok, sound))
  /\ \A a \in Timers!Schedulers : WF_TimersState(part = "timers" /\ Timers!Cycle(a))
  /\ \A a \in Timers!Actors : WF_TimersState(part = "timers" /\ Timers!Request(a))
  /\ WF_HistoryState(part = "history" /\ History!RunStep)
  /\ WF_SweepState(part = "sweep" /\ Sweep!RunStep("startup"))
  /\ \A o \in {1, 2} : WF_SweepState(part = "sweep" /\ Sweep!Closes(o))
  /\ WF_SweepState(part = "starving" /\ Starving!RunStep("startup"))
  /\ \A o \in {1, 2, 3} : WF_SweepState(part = "starving" /\ Starving!Closes(o))
  /\ \A p \in {"p1", "p2"} : WF_OpeningState(part = "opening" /\ Opening!Step(p))

Spec == Init /\ [][Next]_vars /\ Fairness

-----------------------------------------------------------------------------
\* Something the running program began or took on and has not brought to an end: a stop, an
\* update to handle, a notification no delivery run has claimed, a market's scheduled run.
Unconcluded ==
  \/ part = "stop" /\ \E p \in {"p1", "p2"} : phase[p] = "draining"
  \/ part = "inbound" /\ held /\ running /\ \E u \in DOMAIN Updates : outcome[u] = "none"
  \/ part = "queue" /\ faults = 0 /\ ~stopped["p1"]
       /\ \E n \in {"n1", "n2"} : note[n].status = "PENDING" /\ note[n].attempts = 0
  \/ part = "timers" /\ held /\ \E m \in {"KRW-BTC", "KRW-ETH"} : running[m]

\* Everything comes to an end. A stop that began ends even when a worker never settles;
\* every update is handled while the process polls, whatever requests fail on the way; a
\* row reported to a healthy delivery service is claimed, so that no kick is lost between
\* a run's last look at the rerun request and its finally callback (Limit covers the
\* backlog); a market's running flag does not outlive its cycle.
OperationsConclude == Unconcluded ~> ~Unconcluded

\* Something recovery owes: coverage of the archive, an order without trouble of its own
\* that is not settled, a database no process has open.
Unrecovered ==
  \/ part = "history" /\ (report.level \in {"NONE", "FAILED"} \/ report.coverage # "COMPLETE")
  \/ part \in {"sweep", "starving"} /\ \E o \in DOMAIN trouble : trouble[o] = "none"
       /\ (Sweep!IsCandidate(o, row[o], fills[o]) \/ row[o].status \in Sweep!Active)
  \/ part = "opening" /\ ~Opening!Incompatible(past) /\ \A p \in {"p1", "p2"} : pc[p] # "opened"

\* Recovery completes. The archive is covered although its end moves with the clock; with
\* fewer troubled orders than the budget of lookups every other order is settled or
\* confirmed absent, however many rows compete; a database that is not incompatible is
\* opened, although two processes may refuse each other and one may crash.
RecoveryCompletes == Unrecovered ~> ~Unrecovered
===============================================================================
