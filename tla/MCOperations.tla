---------------------------- MODULE MCOperations ------------------------------
(***************************************************************************)
(* The components around the operator: the operator's state, the delivery of*)
(* notifications, inbound Telegram commands, the scheduler and the readers of*)
(* readiness.  They share no variable; a behaviour is of one of them, the one*)
(* "part" names, and TLC explores all of them, each with the bounds of its *)
(* instance.  The theorems at the end hold for every value of the bounds.  *)
(***************************************************************************)
EXTENDS Integers, Sequences, TLAPS

CONSTANTS Parts,  \* the components to explore
          OperatorBounds, TakeoverBounds, QueueBounds, InboundBounds, SchedulerBounds,
          TimersBounds, LiveBounds, ClockBounds,
          DryRunBounds  \* what the instances below give to each component's constants

VARIABLES
  part,  \* the component this behaviour is of
  state, logged, pauses, cmd, fault, crashes,  \* OperatorState
  note, todo, current, result, token, rerun, stopped, sends, delivered, lost, reports,  \* NotificationDelivery
  unconfirmed, stored, nextOffset, offsetLoaded, step, batch, effects, outcome,  \* TelegramInbound
  started, stopBegun, launched, quiesced, waiting, due, queue, toStart, actor, busy, refresh,
  lastKey, health,  \* StrategyScheduler
  config, exec, balance, position, sync, submitting, lease, active, ticks, riskBlock, pending,
  setBacks,  \* ReadinessReaders
  now, phase, commands, held, runs, faults, running  \* of several

Markets == {"KRW-BTC", "KRW-ETH"}
LiveConfig == [live |-> TRUE, gate |-> TRUE, creds |-> TRUE, scheduler |-> FALSE, kill |-> FALSE]
DryRunConfig == [LiveConfig EXCEPT !.live = FALSE, !.gate = FALSE]

\* The bounds of the run.
SmallOperator == [submission |-> {"f1"}, recovery |-> {"f2"}, projection |-> {"f3"},
                  time |-> 1, commands |-> 2, crashes |-> 1]
TwoRuntimes == [procs |-> {"p1", "p2"}, notes |-> {"n1"}, attempts |-> 2, limit |-> 1,
                reports |-> 1, faults |-> 2]
TwoNotes == [procs |-> {"p1"}, notes |-> {"n1", "n2"}, attempts |-> 2, limit |-> 2,
             reports |-> 4, faults |-> 0]
\* One update of each kind, and two commands of the operator.
FiveUpdates == [kinds |-> <<"foreign", "badCallback", "command", "callback", "command">>,
                crashes |-> 2, saves |-> 1, https |-> 1]
TwoMarkets == [markets |-> <<"KRW-BTC", "KRW-ETH">>, candidate |-> {"KRW-BTC"}, interval |-> 2,
               granularity |-> 2, time |-> 5]
TwoTimers == [TwoMarkets EXCEPT !.candidate = {}, !.time = 7]
TwoSyncs == [configs |-> {LiveConfig, DryRunConfig}, commands |-> 2, setbacks |-> 0, age |-> 1,
             ttl |-> 1, sample |-> 3, time |-> 3, runs |-> 2, ticks |-> 0]
SetBackClock == [TwoSyncs EXCEPT !.configs = {LiveConfig}, !.commands = 0, !.setbacks = 1]
TwoTicks == [TwoSyncs EXCEPT !.configs = {DryRunConfig, [DryRunConfig EXCEPT !.creds = FALSE]},
                             !.commands = 0, !.sample = 1, !.time = 1, !.runs = 1, !.ticks = 2]

Operator == INSTANCE OperatorStateProofs WITH
  SubmissionFault <- OperatorBounds.submission, RecoveryFault <- OperatorBounds.recovery,
  ProjectionFault <- OperatorBounds.projection, MaxTime <- OperatorBounds.time,
  MaxCommands <- OperatorBounds.commands, MaxCrashes <- OperatorBounds.crashes
Takeover == INSTANCE NotificationDeliveryProofs WITH
  Proc <- TakeoverBounds.procs, Note <- TakeoverBounds.notes,
  MaxAttempts <- TakeoverBounds.attempts, Limit <- TakeoverBounds.limit,
  MaxReports <- TakeoverBounds.reports, MaxFaults <- TakeoverBounds.faults
Queue == INSTANCE NotificationDeliveryProofs WITH
  Proc <- QueueBounds.procs, Note <- QueueBounds.notes, MaxAttempts <- QueueBounds.attempts,
  Limit <- QueueBounds.limit, MaxReports <- QueueBounds.reports, MaxFaults <- QueueBounds.faults
Inbound == INSTANCE TelegramInboundProofs WITH
  Kind <- InboundBounds.kinds, MaxCrashes <- InboundBounds.crashes, MaxLoadErrors <- 0,
  MaxSaveErrors <- InboundBounds.saves, MaxHttpErrors <- InboundBounds.https
Scheduler == INSTANCE StrategySchedulerProofs WITH
  Markets <- SchedulerBounds.markets, Candidate <- SchedulerBounds.candidate,
  Interval <- SchedulerBounds.interval, Granularity <- SchedulerBounds.granularity,
  RunOnStart <- TRUE, Manual <- TRUE, MaxTime <- SchedulerBounds.time
Timers == INSTANCE StrategySchedulerProofs WITH
  Markets <- TimersBounds.markets, Candidate <- TimersBounds.candidate,
  Interval <- TimersBounds.interval, Granularity <- TimersBounds.granularity,
  RunOnStart <- FALSE, Manual <- FALSE, MaxTime <- TimersBounds.time
Live == INSTANCE ReadinessReadersProofs WITH Syncs <- {"sync"}, Markets <- Markets,
  Configs <- LiveBounds.configs, MaxCommands <- LiveBounds.commands, MaxSetBacks <- 0,
  MaxAge <- LiveBounds.age, LeaseTtl <- LiveBounds.ttl, SampleLimit <- LiveBounds.sample,
  MaxTime <- LiveBounds.time, MaxRuns <- LiveBounds.runs, MaxTicks <- LiveBounds.ticks
Clock == INSTANCE ReadinessReadersProofs WITH Syncs <- {"sync"}, Markets <- Markets,
  Configs <- ClockBounds.configs, MaxCommands <- ClockBounds.commands,
  MaxSetBacks <- ClockBounds.setbacks, MaxAge <- ClockBounds.age, LeaseTtl <- ClockBounds.ttl,
  SampleLimit <- ClockBounds.sample, MaxTime <- ClockBounds.time, MaxRuns <- ClockBounds.runs,
  MaxTicks <- ClockBounds.ticks
DryRun == INSTANCE ReadinessReadersProofs WITH Syncs <- {"sync"}, Markets <- Markets,
  Configs <- DryRunBounds.configs, MaxCommands <- DryRunBounds.commands,
  MaxSetBacks <- DryRunBounds.setbacks, MaxAge <- DryRunBounds.age, LeaseTtl <- DryRunBounds.ttl,
  SampleLimit <- DryRunBounds.sample, MaxTime <- DryRunBounds.time, MaxRuns <- DryRunBounds.runs,
  MaxTicks <- DryRunBounds.ticks

ASSUME BoundsAssumption ==
  /\ Operator!OperatorConstants /\ Takeover!DeliveryAssumption /\ Queue!DeliveryAssumption
  /\ Inbound!InboundAssumption /\ Scheduler!SchedulerAssumption /\ Timers!SchedulerAssumption
  /\ Live!Bounds /\ Clock!Bounds /\ DryRun!Bounds

operatorVars == <<state, logged, pauses, cmd, fault, crashes>>
deliveryVars == <<note, todo, current, result, token, rerun, stopped, sends, delivered, lost,
                  reports>>
inboundVars == <<unconfirmed, stored, nextOffset, offsetLoaded, step, batch, effects, outcome>>
schedulerVars == <<started, stopBegun, launched, quiesced, waiting, due, queue, toStart, actor,
                   busy, refresh, lastKey, health>>
readersVars == <<config, exec, balance, position, sync, submitting, lease, active, ticks,
                 riskBlock, pending, setBacks>>
vars == <<part, operatorVars, deliveryVars, inboundVars, schedulerVars, readersVars, now, phase,
          commands, held, runs, faults, running>>

Off == 0
operatorOff == state = Off /\ logged = Off /\ pauses = Off /\ cmd = Off /\ fault = Off /\
               crashes = Off
deliveryOff == note = Off /\ todo = Off /\ current = Off /\ result = Off /\ token = Off /\
               rerun = Off /\ stopped = Off /\ sends = Off /\ delivered = Off /\ lost = Off /\
               reports = Off
inboundOff == unconfirmed = Off /\ stored = Off /\ nextOffset = Off /\ offsetLoaded = Off /\
              step = Off /\ batch = Off /\ effects = Off /\ outcome = Off
schedulerOff == started = Off /\ stopBegun = Off /\ launched = Off /\ quiesced = Off /\
                waiting = Off /\ due = Off /\ queue = Off /\ toStart = Off /\ actor = Off /\
                busy = Off /\ refresh = Off /\ lastKey = Off /\ health = Off
readersOff == config = Off /\ exec = Off /\ balance = Off /\ position = Off /\ sync = Off /\
              submitting = Off /\ lease = Off /\ active = Off /\ ticks = Off /\
              riskBlock = Off /\ pending = Off /\ setBacks = Off

Init == /\ part \in Parts
        /\ \/ part = "operator" /\ Operator!Init /\ deliveryOff /\ inboundOff /\ schedulerOff /\
              readersOff /\ held = Off /\ runs = Off /\ faults = Off /\ running = Off
           \/ part = "takeover" /\ Takeover!Init /\ operatorOff /\ inboundOff /\ schedulerOff /\
              readersOff /\ now = Off /\ commands = Off /\ running = Off
           \/ part = "queue" /\ Queue!Init /\ operatorOff /\ inboundOff /\ schedulerOff /\
              readersOff /\ now = Off /\ commands = Off /\ running = Off
           \/ part = "inbound" /\ Inbound!Init /\ operatorOff /\ deliveryOff /\ schedulerOff /\
              readersOff /\ now = Off /\ phase = Off /\ commands = Off /\ runs = Off
           \/ part = "scheduler" /\ Scheduler!Init /\ operatorOff /\ deliveryOff /\
              inboundOff /\ readersOff /\ phase = Off /\ commands = Off /\ runs = Off /\
              faults = Off
           \/ part = "timers" /\ Timers!Init /\ operatorOff /\ deliveryOff /\ inboundOff /\
              readersOff /\ phase = Off /\ commands = Off /\ runs = Off /\ faults = Off
           \/ part = "live" /\ Live!Init /\ operatorOff /\ deliveryOff /\ inboundOff /\
              schedulerOff /\ phase = Off /\ held = Off /\ faults = Off /\ running = Off
           \/ part = "clock" /\ Clock!Init /\ operatorOff /\ deliveryOff /\ inboundOff /\
              schedulerOff /\ phase = Off /\ held = Off /\ faults = Off /\ running = Off
           \/ part = "dryrun" /\ DryRun!Init /\ operatorOff /\ deliveryOff /\ inboundOff /\
              schedulerOff /\ phase = Off /\ held = Off /\ faults = Off /\ running = Off

OperatorStep == part = "operator" /\ Operator!Next /\ UNCHANGED <<part, deliveryVars,
            inboundVars, schedulerVars, readersVars, held, runs, faults, running>>
TakeoverStep == part = "takeover" /\ Takeover!Next /\ UNCHANGED <<part, operatorVars,
            inboundVars, schedulerVars, readersVars, now, commands, running>>
QueueStep == part = "queue" /\ Queue!Next /\ UNCHANGED <<part, operatorVars, inboundVars,
            schedulerVars, readersVars, now, commands, running>>
InboundStep == part = "inbound" /\ Inbound!Next /\ UNCHANGED <<part, operatorVars, deliveryVars,
            schedulerVars, readersVars, now, phase, commands, runs>>
SchedulerStep == part = "scheduler" /\ Scheduler!Next /\ UNCHANGED <<part, operatorVars,
            deliveryVars, inboundVars, readersVars, phase, commands, runs, faults>>
TimersStep == part = "timers" /\ Timers!Next /\ UNCHANGED <<part, operatorVars, deliveryVars,
            inboundVars, readersVars, phase, commands, runs, faults>>
LiveStep == part = "live" /\ Live!Next /\ UNCHANGED <<part, operatorVars, deliveryVars,
            inboundVars, schedulerVars, phase, held, faults, running>>
ClockStep == part = "clock" /\ Clock!Next /\ UNCHANGED <<part, operatorVars, deliveryVars,
            inboundVars, schedulerVars, phase, held, faults, running>>
DryRunStep == part = "dryrun" /\ DryRun!Next /\ UNCHANGED <<part, operatorVars, deliveryVars,
            inboundVars, schedulerVars, phase, held, faults, running>>

Next == OperatorStep \/ TakeoverStep \/ QueueStep \/ InboundStep \/ SchedulerStep \/
        TimersStep \/ LiveStep \/ ClockStep \/ DryRunStep

Spec == Init /\ [][Next]_vars

-----------------------------------------------------------------------------
\* The operator's state: the kill switch stops the system whoever wrote the state
\* last, and a degraded portfolio never runs, whatever was read before whatever was
\* written (operator state repository, command router, startup policy).
OperatorSound ==
  part = "operator" => Operator!TypeOK /\ Operator!KillSwitchDominates /\ Operator!DegradedNeverRuns

\* Telegram: a row says SENT only if the message arrived, every request was charged to
\* the row before it was made, the attempt budget holds, and a message arrives twice
\* only after a crash, an expiry or a lost answer (delivery.ts); no command is executed
\* twice, and what the poller forgot it had handled (inbound.ts).
TelegramSound ==
  /\ part = "takeover" => Takeover!TypeOK /\ Takeover!SentWasDelivered /\ Takeover!SendsAreCharged
  /\ part = "queue" => Queue!BudgetKept /\ Queue!DuplicateHasCause
  /\ part = "inbound" => Inbound!TypeOK /\ Inbound!AtMostOnce /\ Inbound!ForgottenWasHandled

\* The scheduler: one strategy run at a time however ticks, /run and /sync overlap, no
\* market is dropped from the queue, a run has a history refreshed since the last
\* order, and a scheduler that reported quiescence is idle (strategy-scheduler.ts).
SchedulerSound ==
  /\ part = "scheduler" => /\ Scheduler!TypeOK /\ Scheduler!OneStrategyRun /\ Scheduler!NoMarketForgotten
                           /\ Scheduler!RunHasHistory /\ Scheduler!QuiescedMeansIdle
  /\ part = "timers" => Timers!RefreshedSinceOrder

\* The readers of readiness: the ones for live trading agree, what the pilot's
\* inspector calls clean the runtime does too, a passed lease check means that nothing
\* is being submitted, every refusal names an action, and the completion smoke passes
\* only a system that is ready (inspection/, smoke scripts).
ReadersSound ==
  /\ part = "live" => /\ Live!TypeOK /\ Live!LiveReadersAgree /\ Live!CleanForPilotIsCleanForRuntime
                      /\ Live!LeasePassMeansNoSubmission
  /\ part = "clock" => Clock!EveryProblemHasAnAction
  /\ part = "dryrun" => DryRun!CompletionMeansReady

\* What no step may do: reset the kill switch, lift an automatic pause without /resume,
\* change a notification's final status, move the update offset back, submit a batch's
\* orders a second time, or end a sync that a failing check advised
\* (smoke/live-readiness.ts) with that check still failing.
OperationsStep ==
  /\ part = "operator" => Operator!KillSwitchLatched /\ Operator!OnlyResumeLiftsFaultPause
  /\ part = "takeover" => Takeover!FinalStatusStays
  /\ part = "inbound" => Inbound!OffsetNeverMovesBack
  /\ part = "timers" => Timers!BatchOrdersOnce
  /\ part = "clock" => Clock!SyncAdviceWorks

OperationsSteps == [][OperationsStep]_vars

-----------------------------------------------------------------------------
(***************************************************************************)
(* Theorems.  Each component's proofs are in its own module; here its      *)
(* invariant holds in the behaviours that are of this component.           *)
(***************************************************************************)

OperationsInv ==
  /\ part = "operator" => Operator!OperatorInv
  /\ part = "takeover" => Takeover!CalmInv
  /\ part = "queue" => Queue!CalmInv
  /\ part = "inbound" => Inbound!InboundInv
  /\ part = "scheduler" => Scheduler!SchedulerInv
  /\ part = "timers" => Timers!SchedulerInv /\ Timers!Quiet
  /\ part = "live" => Live!ReadersInv /\ Live!Ordered
  /\ part = "clock" => Clock!ReadersInv /\ Clock!Advised
  /\ part = "dryrun" => DryRun!ReadersInv

LEMMA OneSyncAtATime == Live!OneSync /\ Clock!OneSync
BY DEF Live!OneSync, Clock!OneSync

LEMMA OperationsInit == Init => OperationsInv
<1>1. ASSUME part = "operator", Init PROVE Operator!OperatorInv
  <2>1. Operator!Init
    BY <1>1 DEF Init
  <2>2. QED
    BY <2>1, BoundsAssumption, Operator!OperatorInit
<1>2. ASSUME part = "takeover", Init PROVE Takeover!CalmInv
  <2>1. Takeover!Init
    BY <1>2 DEF Init
  <2>2. QED
    BY <2>1, BoundsAssumption, Takeover!DeliveryInit
<1>3. ASSUME part = "queue", Init PROVE Queue!CalmInv
  <2>1. Queue!Init
    BY <1>3 DEF Init
  <2>2. QED
    BY <2>1, BoundsAssumption, Queue!DeliveryInit
<1>4. ASSUME part = "inbound", Init PROVE Inbound!InboundInv
  <2>1. Inbound!Init
    BY <1>4 DEF Init
  <2>2. QED
    BY <2>1, BoundsAssumption, Inbound!InboundInit
<1>5. ASSUME part = "scheduler", Init PROVE Scheduler!SchedulerInv
  <2>1. Scheduler!Init
    BY <1>5 DEF Init
  <2>2. QED
    BY <2>1, BoundsAssumption, Scheduler!SchedulerInit
<1>6. ASSUME part = "timers", Init PROVE Timers!SchedulerInv /\ Timers!Quiet
  <2>1. Timers!Init
    BY <1>6 DEF Init
  <2>2. QED
    BY <2>1, BoundsAssumption, Timers!SchedulerInit, Timers!QuietInit
<1>7. ASSUME part = "live", Init PROVE Live!ReadersInv /\ Live!Ordered
  <2>1. Live!Init
    BY <1>7 DEF Init
  <2>2. QED
    BY <2>1, BoundsAssumption, Live!ReadersInit, Live!OrderedInit
<1>8. ASSUME part = "clock", Init PROVE Clock!ReadersInv /\ Clock!Advised
  <2>1. Clock!Init
    BY <1>8 DEF Init
  <2>2. QED
    BY <2>1, BoundsAssumption, Clock!ReadersInit, Clock!AdvisedInit
<1>9. ASSUME part = "dryrun", Init PROVE DryRun!ReadersInv
  <2>1. DryRun!Init
    BY <1>9 DEF Init
  <2>2. QED
    BY <2>1, BoundsAssumption, DryRun!ReadersInit
<1>10. QED
  BY <1>1, <1>2, <1>3, <1>4, <1>5, <1>6, <1>7, <1>8, <1>9 DEF OperationsInv

\* A step of the suite is a step of the component the behaviour is of.
LEMMA PartSteps ==
  ASSUME [Next]_vars
  PROVE  /\ part' = part
         /\ part = "operator" => [Operator!Next]_(Operator!vars)
         /\ part = "takeover" => [Takeover!Next]_(Takeover!vars)
         /\ part = "queue" => [Queue!Next]_(Queue!vars)
         /\ part = "inbound" => [Inbound!Next]_(Inbound!vars)
         /\ part = "scheduler" => [Scheduler!Next]_(Scheduler!vars)
         /\ part = "timers" => [Timers!Next]_(Timers!vars)
         /\ part = "live" => [Live!Next]_(Live!vars)
         /\ part = "clock" => [Clock!Next]_(Clock!vars)
         /\ part = "dryrun" => [DryRun!Next]_(DryRun!vars)
<1>1. CASE UNCHANGED vars
  BY <1>1 DEF vars, operatorVars, deliveryVars, inboundVars, schedulerVars, readersVars,
     Operator!vars, Takeover!vars, Takeover!runVars, Takeover!flagVars, Takeover!histVars,
     Queue!vars, Queue!runVars, Queue!flagVars, Queue!histVars, Inbound!vars, Scheduler!vars,
     Timers!vars, Live!vars, Clock!vars, DryRun!vars
<1>2. CASE Next
  <2>1. part' = part
    BY <1>2, Zenon DEF Next, OperatorStep, TakeoverStep, QueueStep, InboundStep, SchedulerStep,
       TimersStep, LiveStep, ClockStep, DryRunStep
  <2>2. OperatorStep \/ TakeoverStep \/ QueueStep \/ InboundStep \/ SchedulerStep \/
        TimersStep \/ LiveStep \/ ClockStep \/ DryRunStep
    BY <1>2 DEF Next
  <2>3. /\ part = "operator" => Operator!Next
        /\ part = "takeover" => Takeover!Next
        /\ part = "queue" => Queue!Next
        /\ part = "inbound" => Inbound!Next
        /\ part = "scheduler" => Scheduler!Next
        /\ part = "timers" => Timers!Next
        /\ part = "live" => Live!Next
        /\ part = "clock" => Clock!Next
        /\ part = "dryrun" => DryRun!Next
    BY <2>2 DEF OperatorStep, TakeoverStep, QueueStep, InboundStep, SchedulerStep, TimersStep,
       LiveStep, ClockStep, DryRunStep
  <2>4. QED
    BY <2>1, <2>3
<1>3. QED
  BY <1>1, <1>2

LEMMA OperationsInductive == OperationsInv /\ [Next]_vars => OperationsInv'
<1>1. SUFFICES ASSUME OperationsInv, [Next]_vars PROVE OperationsInv'
  OBVIOUS
<1>2. part' = part
  BY <1>1, PartSteps
<1>3. ASSUME part = "operator" PROVE Operator!OperatorInv'
  BY <1>1, <1>3, PartSteps, BoundsAssumption, Operator!OperatorStep DEF OperationsInv
<1>4. ASSUME part = "takeover" PROVE Takeover!CalmInv'
  BY <1>1, <1>4, PartSteps, BoundsAssumption, Takeover!DeliveryStep DEF OperationsInv
<1>5. ASSUME part = "queue" PROVE Queue!CalmInv'
  BY <1>1, <1>5, PartSteps, BoundsAssumption, Queue!DeliveryStep DEF OperationsInv
<1>6. ASSUME part = "inbound" PROVE Inbound!InboundInv'
  BY <1>1, <1>6, PartSteps, BoundsAssumption, Inbound!InboundStep DEF OperationsInv
<1>7. ASSUME part = "scheduler" PROVE Scheduler!SchedulerInv'
  BY <1>1, <1>7, PartSteps, BoundsAssumption, Scheduler!SchedulerStep DEF OperationsInv
<1>8. ASSUME part = "timers" PROVE (Timers!SchedulerInv /\ Timers!Quiet)'
  BY <1>1, <1>8, PartSteps, BoundsAssumption, Timers!SchedulerStep, Timers!QuietKept DEF OperationsInv
<1>9. ASSUME part = "live" PROVE (Live!ReadersInv /\ Live!Ordered)'
  BY <1>1, <1>9, PartSteps, BoundsAssumption, OneSyncAtATime, Live!ReadersStep, Live!OrderedKept
     DEF OperationsInv
<1>10. ASSUME part = "clock" PROVE (Clock!ReadersInv /\ Clock!Advised)'
  BY <1>1, <1>10, PartSteps, BoundsAssumption, OneSyncAtATime, Clock!ReadersStep, Clock!AdvisedKept
     DEF OperationsInv
<1>11. ASSUME part = "dryrun" PROVE DryRun!ReadersInv'
  BY <1>1, <1>11, PartSteps, BoundsAssumption, DryRun!ReadersStep DEF OperationsInv
<1>12. QED
  BY <1>2, <1>3, <1>4, <1>5, <1>6, <1>7, <1>8, <1>9, <1>10, <1>11 DEF OperationsInv

\* Every behaviour of every component keeps that component's inductive invariant.
THEOREM OperationsInvariant == Spec => []OperationsInv
BY OperationsInit, OperationsInductive, PTL DEF Spec

\* However commands, faults, crashes and startup policies interleave, a kill-switched or
\* degraded system is never RUNNING.
THEOREM OperatorIsSound == Spec => []OperatorSound
<1>1. OperationsInv => OperatorSound
  BY Operator!OperatorConsequences DEF OperationsInv, OperatorSound
<1>2. QED
  BY <1>1, OperationsInvariant, PTL

\* In both directions: SENT means delivered, no request is free of charge, the budget of
\* attempts holds, a duplicate has a cause, no command is executed twice, and Telegram is
\* asked to forget only what was handled.
THEOREM TelegramIsSound == Spec => []TelegramSound
<1>1. OperationsInv => TelegramSound
  <2>1. SUFFICES ASSUME OperationsInv PROVE TelegramSound
    OBVIOUS
  <2>2. ASSUME part = "takeover"
        PROVE  Takeover!TypeOK /\ Takeover!SentWasDelivered /\ Takeover!SendsAreCharged
    BY <2>1, <2>2, BoundsAssumption, Takeover!DeliveryConsequences DEF OperationsInv
  <2>3. ASSUME part = "queue" PROVE Queue!BudgetKept /\ Queue!DuplicateHasCause
    BY <2>1, <2>3, BoundsAssumption, Queue!DeliveryConsequences DEF OperationsInv
  <2>4. ASSUME part = "inbound"
        PROVE  Inbound!TypeOK /\ Inbound!AtMostOnce /\ Inbound!ForgottenWasHandled
    <3>1. Inbound!TypeOK /\ (faults.load = 0 => Inbound!AtMostOnce) /\ Inbound!ForgottenWasHandled
      BY <2>1, <2>4, Inbound!InboundConsequences DEF OperationsInv
    <3>2. faults.load = 0
      BY <3>1 DEF Inbound!TypeOK
    <3>3. QED
      BY <3>1, <3>2
  <2>5. QED
    BY <2>2, <2>3, <2>4 DEF TelegramSound
<1>2. QED
  BY <1>1, OperationsInvariant, PTL

\* With startup cycles, timers and /run: one strategy run at a time, no market forgotten,
\* every run recorded, quiescence real; with timers only, no decision on an account
\* refresh older than the last order.
THEOREM SchedulerIsSound == Spec => []SchedulerSound
<1>1. OperationsInv => SchedulerSound
  <2>1. SUFFICES ASSUME OperationsInv PROVE SchedulerSound
    OBVIOUS
  <2>2. ASSUME part = "scheduler"
        PROVE  /\ Scheduler!TypeOK /\ Scheduler!OneStrategyRun /\ Scheduler!NoMarketForgotten
               /\ Scheduler!RunHasHistory /\ Scheduler!QuiescedMeansIdle
    BY <2>1, <2>2, BoundsAssumption, Scheduler!SchedulerConsequences DEF OperationsInv
  <2>3. ASSUME part = "timers" PROVE Timers!RefreshedSinceOrder
    BY <2>1, <2>3, Timers!QuietRuns DEF OperationsInv
  <2>4. QED
    BY <2>2, <2>3 DEF SchedulerSound
<1>2. QED
  BY <1>1, OperationsInvariant, PTL

\* The readers agree where operators rely on it: live smoke and preflight, inspector and
\* runtime, completion and readiness; every problem has an action, and a passed lease means
\* that nothing is being submitted.
THEOREM ReadersAreSound == Spec => []ReadersSound
<1>1. OperationsInv => ReadersSound
  <2>1. SUFFICES ASSUME OperationsInv PROVE ReadersSound
    OBVIOUS
  <2>2. ASSUME part = "live"
        PROVE  /\ Live!TypeOK /\ Live!LiveReadersAgree /\ Live!CleanForPilotIsCleanForRuntime
               /\ Live!LeasePassMeansNoSubmission
    <3>1. Live!ReadersInv /\ Live!Ordered
      BY <2>1, <2>2 DEF OperationsInv
    <3>2. Live!TypeOK
      BY <3>1 DEF Live!ReadersInv
    <3>3. QED
      BY <3>1, <3>2, BoundsAssumption, Live!ReadersAgree, Live!PilotAndRuntime, Live!LeaseConsequence
  <2>3. ASSUME part = "clock" PROVE Clock!EveryProblemHasAnAction
    <3>1. Clock!TypeOK
      BY <2>1, <2>3 DEF OperationsInv, Clock!ReadersInv
    <3>2. QED
      BY <3>1, BoundsAssumption, Clock!ActionForEveryProblem
  <2>4. ASSUME part = "dryrun" PROVE DryRun!CompletionMeansReady
    <3>1. DryRun!TypeOK
      BY <2>1, <2>4 DEF OperationsInv, DryRun!ReadersInv
    <3>2. QED
      BY <3>1, BoundsAssumption, DryRun!CompletionIsStricter
  <2>5. QED
    BY <2>2, <2>3, <2>4 DEF ReadersSound
<1>2. QED
  BY <1>1, OperationsInvariant, PTL

\* No step resets the kill switch, lifts an automatic pause without /resume, changes a
\* final delivery status, moves the update offset back, or runs towards an order in a
\* batch that has one; and the advice to run /sync works, whatever happened to the clock
\* before.
THEOREM OperationsStepsHold == Spec => OperationsSteps
<1>1. OperationsInv /\ [Next]_vars => [OperationsStep]_vars
  <2>1. SUFFICES ASSUME OperationsInv, [Next]_vars PROVE OperationsStep
    OBVIOUS
  <2>2. ASSUME part = "operator" PROVE Operator!KillSwitchLatched /\ Operator!OnlyResumeLiftsFaultPause
    BY <2>1, <2>2, PartSteps, BoundsAssumption, Operator!OperatorStepConsequences DEF OperationsInv
  <2>3. ASSUME part = "takeover" PROVE Takeover!FinalStatusStays
    BY <2>1, <2>3, PartSteps, Takeover!DeliveryStepConsequences DEF OperationsInv
  <2>4. ASSUME part = "inbound" PROVE Inbound!OffsetNeverMovesBack
    <3>1. Inbound!InboundInv /\ [Inbound!Next]_(Inbound!vars)
      BY <2>1, <2>4, PartSteps DEF OperationsInv
    <3>2. Inbound!TypeOK
      BY <3>1, Inbound!InboundConsequences
    <3>3. faults.load = 0
      BY <3>2 DEF Inbound!TypeOK
    <3>4. QED
      BY <3>1, <3>3, BoundsAssumption, Inbound!InboundStepConsequences
  <2>5. ASSUME part = "timers" PROVE Timers!BatchOrdersOnce
    BY <2>1, <2>5, Timers!BatchConsequence DEF OperationsInv
  <2>6. ASSUME part = "clock" PROVE Clock!SyncAdviceWorks
    BY <2>1, <2>6, PartSteps, BoundsAssumption, OneSyncAtATime, Clock!AdviceConsequence DEF OperationsInv
  <2>7. QED
    BY <2>2, <2>3, <2>4, <2>5, <2>6 DEF OperationsStep
<1>2. QED
  BY <1>1, OperationsInvariant, PTL DEF Spec, OperationsSteps

===============================================================================
