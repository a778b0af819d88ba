--------------------------- MODULE ReadinessReaders ---------------------------
(***************************************************************************)
(* Six programs read the same tables and answer whether trading may go on: *)
(* the scheduler's preflight, which the runtime itself obeys; and the two  *)
(* live smokes, the two dry-run smokes and the pilot inspector, which      *)
(* operators run beside it. Each was written on its own.                   *)
(*                                                                         *)
(* What they read is written by syncs (snapshots, a reconciliation run),   *)
(* by operator commands and startup policy (execution_state), by order     *)
(* submissions (the lease, active orders), by the scheduler (its runs),    *)
(* and by risk checks and notifications. Instants are clock readings; the  *)
(* clock may be set back.                                                  *)
(*                                                                         *)
(* An issue is one of three kinds: the seven codes every reader blocks on, *)
(* the codes the inspector has reviewed as harmless, and the others.       *)
(*                                                                         *)
(* The operators named Wrong... are mistakes this code could contain; no   *)
(* definition uses them. Each makes one of the properties below fail.      *)
(***************************************************************************)
EXTENDS Integers, FiniteSets, Sequences

CONSTANTS Syncs,        \* callers that may sync at the same time
          Markets,
          Configs,      \* configurations the process may be started with
          MaxAge,       \* the evidence threshold, the same for every reader
          LeaseTtl,
          SampleLimit,  \* scheduler runs the completion smoke reads
          MaxTime,      \* bound: the clock
          MaxRuns,      \* bound: reconciliation runs
          MaxTicks,     \* bound: scheduler runs
          MaxCommands,  \* bound: operator commands and startup policies
          MaxSetBacks   \* bound: times the clock is set back

Bounds == /\ IsFiniteSet(Syncs)
          /\ Configs \subseteq [live : BOOLEAN, gate : BOOLEAN, creds : BOOLEAN,
                                scheduler : BOOLEAN, kill : BOOLEAN]
          /\ MaxAge \in Nat /\ LeaseTtl \in Nat /\ SampleLimit \in Nat
          /\ MaxTime \in Nat /\ MaxRuns \in Nat /\ MaxTicks \in Nat
          /\ MaxCommands \in Nat /\ MaxSetBacks \in Nat

VARIABLES
  config,     \* mode, gate, credentials, whether the scheduler is enabled, the kill switch seed
  now,
  exec,       \* the row of execution_state
  runs,       \* reconciliation_runs in the order of their rowids
  balance, position,   \* captured_at of the latest snapshots
  sync,       \* each sync: when it was requested, what it has done, and whether the live
              \* readiness smoke told the operator to look at the clock then
  submitting, \* an order submission is in progress
  lease,      \* when the account's lease expires, Never if there is no row
  active,     \* an active or reconciliation-required order is stored
  ticks,      \* strategy_scheduler_runs in the order of their rowids
  riskBlock, pending,  \* a recent BLOCK risk event; a pending notification
  commands, setBacks

vars == <<config, now, exec, runs, balance, position, sync, submitting, lease, active,
          ticks, riskBlock, pending, commands, setBacks>>

Never == -1
Instant == 0 .. MaxTime
Kinds == {"blocking", "reviewed", "other"}
Statuses == {"RUNNING", "PAUSED", "DEGRADED", "KILL_SWITCHED"}
Run == [start : Instant, done : Instant, status : {"SUCCESS", "DRIFT_DETECTED", "ERROR"},
        issues : SUBSET Kinds]
Tick == [market : Markets, status : {"RUNNING", "COMPLETED", "FAILED"},
         order : {"none", "open", "filled"}]
Idle == [at |-> Never, step |-> "idle", clock |-> FALSE]

TypeOK ==
  /\ config \in Configs
  /\ now \in Instant
  /\ exec \in [live : BOOLEAN, gate : BOOLEAN, status : Statuses, kill : BOOLEAN,
               reason : BOOLEAN, degraded : BOOLEAN]
  /\ runs \in Seq(Run) /\ Len(runs) <= MaxRuns
  /\ balance \in Instant \cup {Never} /\ position \in Instant \cup {Never}
  /\ sync \in [Syncs -> [at : Instant \cup {Never},
                         step : {"idle", "requested", "valued", "saved"},
                         clock : BOOLEAN]]
  /\ submitting \in BOOLEAN /\ active \in BOOLEAN
  /\ lease \in (Nat \cup {Never})
  /\ ticks \in Seq(Tick) /\ Len(ticks) <= MaxTicks
  /\ riskBlock \in BOOLEAN /\ pending \in BOOLEAN
  /\ commands \in 0 .. MaxCommands /\ setBacks \in 0 .. MaxSetBacks

\* The row of execution_state may have been seeded by a process of another configuration.
Init ==
  /\ config \in Configs
  /\ now = 0
  /\ \E seed \in Configs :
       exec = [live |-> seed.live, gate |-> seed.gate, kill |-> seed.kill,
               status |-> IF seed.kill THEN "KILL_SWITCHED" ELSE "RUNNING",
               reason |-> FALSE, degraded |-> FALSE]
  /\ runs = <<>>
  /\ balance = Never /\ position = Never
  /\ sync = [s \in Syncs |-> Idle]
  /\ submitting = FALSE /\ lease = Never /\ active = FALSE
  /\ ticks = <<>>
  /\ riskBlock = FALSE /\ pending = FALSE
  /\ commands = 0 /\ setBacks = 0

Larger(a, b) == IF a > b THEN a ELSE b

\* LIVE_ADAPTER
LivePath == config.live /\ config.gate /\ config.creds

\* detectExecutionStateSeedMismatches
SeedMatches == /\ exec.live = config.live
               /\ exec.gate = config.gate
               /\ exec.kill = config.kill

-----------------------------------------------------------------------------
(***************************************************************************)
(* What the readers read: latest rows, grades                              *)
(***************************************************************************)

\* BLOCK if any check blocks, else WARN if any warns.
Summary(checks) ==
  LET grades == {checks[c] : c \in DOMAIN checks} IN
  IF "BLOCK" \in grades THEN "BLOCK"
  ELSE IF "WARN" \in grades THEN "WARN"
  ELSE "PASS"

Blocks(ok) == IF ok THEN "PASS" ELSE "BLOCK"
Warns(ok) == IF ok THEN "PASS" ELSE "WARN"

\* listReconciliationRuns(account, 1): ORDER BY started_at DESC, rowid DESC
LatestRun ==
  LET newer(i, j) == runs[i].start > runs[j].start \/ (runs[i].start = runs[j].start /\ i >= j)
  IN runs[CHOOSE i \in DOMAIN runs : \A j \in DOMAIN runs : newer(i, j)]

Missing == runs = <<>>

\* The age of an instant; evidence exactly as old as the threshold is fresh.
Freshness(t) == IF t = Never THEN "missing"
                ELSE IF t > now THEN "future"
                ELSE IF now - t <= MaxAge THEN "fresh"
                ELSE "stale"

-----------------------------------------------------------------------------
(***************************************************************************)
(* The scheduler's preflight, obeyed by the scheduler and by /run          *)
(***************************************************************************)

\* isRunnableExecutionState
PreflightRunnable ==
  /\ exec.live /\ exec.gate
  /\ exec.status = "RUNNING" /\ ~exec.kill
  /\ ~exec.reason /\ ~exec.degraded

\* describeTimestampFreshness
PreflightFreshness(t) == Blocks(Freshness(t) = "fresh")

\* A summary that says SUCCESS is taken at its word; drift is weighed by its codes.
PreflightReconciliation ==
  IF Missing THEN "BLOCK"
  ELSE LET r == LatestRun IN
       IF r.start > r.done \/ r.start > now \/ r.done > now THEN "BLOCK"
       ELSE IF PreflightFreshness(r.done) = "BLOCK" THEN "BLOCK"
       ELSE IF r.status = "SUCCESS" THEN Blocks(r.issues = {})
       ELSE IF r.status # "DRIFT_DETECTED" THEN "BLOCK"
       ELSE IF r.issues = {} THEN "BLOCK"
       ELSE IF "blocking" \in r.issues THEN "BLOCK"
       ELSE "WARN"

PreflightChecks ==
  [live_gate |-> Blocks(config.gate),
   live_send_path |-> Blocks(LivePath),
   execution_state |-> Blocks(PreflightRunnable),
   upbit_read_credentials |-> Blocks(config.creds),
   balance_snapshot |-> PreflightFreshness(balance),
   position_snapshot |-> PreflightFreshness(position),
   latest_reconciliation |-> PreflightReconciliation,
   active_orders |-> Blocks(~active)]

\* buildStrategySchedulerStartupPreflight
StartupPreflight(enabled) ==
  IF ~enabled THEN "NOT_REQUIRED"
  ELSE IF ~config.live THEN "PASS"
  ELSE Summary(PreflightChecks)

-----------------------------------------------------------------------------
(***************************************************************************)
(* The live smokes                                                         *)
(***************************************************************************)

\* The scheduler smoke asks the startup preflight with the scheduler assumed enabled.
AssumedEnabled == TRUE

SmokeChecks ==
  LET preflight == StartupPreflight(AssumedEnabled)
      normalized == IF preflight = "NOT_REQUIRED" THEN "BLOCK" ELSE preflight
  IN [live_mode |-> Blocks(config.live),
      preflight_scope |-> Blocks(config.live),
      scheduler_startup_preflight |-> normalized]

SchedulerSmoke == Summary(SmokeChecks)

\* buildLiveSchedulerPreflightNextActions: one per blocking check of the preflight
SmokeActions ==
  {a \in {"use LIVE"} : ~config.live}
    \cup {c \in DOMAIN PreflightChecks : config.live /\ PreflightChecks[c] = "BLOCK"}
    \cup {a \in {"review warnings"} : SmokeChecks.scheduler_startup_preflight = "WARN"}

\* isLiveRunnableExecutionState
LiveRunnable ==
  /\ exec.live /\ exec.gate
  /\ exec.status = "RUNNING" /\ ~exec.kill /\ ~exec.degraded

\* describeHealthEvidenceFreshness: stale evidence is a warning here
LiveFreshness(t) == IF Freshness(t) = "fresh" THEN "PASS"
                    ELSE IF Freshness(t) = "future" THEN "BLOCK"
                    ELSE "WARN"

LiveReconciliation ==
  IF Missing THEN "WARN"
  ELSE LET r == LatestRun IN
       IF "blocking" \in r.issues THEN "BLOCK"
       ELSE IF LiveFreshness(r.done) = "BLOCK" THEN "BLOCK"
       ELSE IF r.status # "SUCCESS" THEN "WARN"
       ELSE LiveFreshness(r.done)

LiveChecks ==
  [live_mode |-> Blocks(config.live),
   live_gate |-> Blocks(config.gate),
   upbit_credentials |-> Blocks(config.creds),
   live_send_path |-> Blocks(LivePath),
   scheduler_disabled_for_validation |-> Blocks(~config.scheduler),
   execution_state |-> Blocks(LiveRunnable),
   execution_state_seed |-> Blocks(SeedMatches),
   balance_snapshot |-> LiveFreshness(balance),
   position_snapshot |-> LiveFreshness(position),
   latest_reconciliation |-> LiveReconciliation,
   active_orders |-> Blocks(~active)]

LiveReadiness == Summary(LiveChecks)

HealthChecks == {"balance_snapshot", "position_snapshot", "latest_reconciliation"}

\* The checks whose detail says that the timestamp is ahead of the clock
Uncomparable ==
  {c \in HealthChecks :
     \/ c = "balance_snapshot" /\ Freshness(balance) = "future"
     \/ c = "position_snapshot" /\ Freshness(position) = "future"
     \/ c = "latest_reconciliation" /\ ~Missing /\ Freshness(LatestRun.done) = "future"}

\* buildLiveReadinessNextActions
LiveActions ==
  {c \in DOMAIN LiveChecks \ HealthChecks : LiveChecks[c] # "PASS"}
    \cup {a \in {"investigate clock"} : Uncomparable # {}}
    \cup {a \in {"run /sync"} : \E c \in HealthChecks :
                                  \/ LiveChecks[c] = "WARN"
                                  \/ LiveChecks[c] = "BLOCK" /\ c \notin Uncomparable}

-----------------------------------------------------------------------------
(***************************************************************************)
(* The dry-run smokes                                                      *)
(***************************************************************************)

\* isDryRunRunnableExecutionState
DryRunnable ==
  /\ ~exec.live /\ ~exec.gate
  /\ exec.status = "RUNNING" /\ ~exec.kill /\ ~exec.degraded

\* validateDryRunReadinessSmokeSafety: the smoke forces its own environment
DryRunSafe == ~config.live /\ ~config.gate /\ ~LivePath /\ ~config.scheduler

\* classifyLatestReconciliation
DryRunReconciliation ==
  IF Missing THEN "WARN"
  ELSE IF "blocking" \in LatestRun.issues THEN "BLOCK"
  ELSE Warns(LatestRun.status = "SUCCESS")

DryRunChecks ==
  [dry_run_safety_env |-> Blocks(DryRunSafe),
   execution_state |-> Blocks(DryRunnable),
   execution_state_seed |-> Blocks(SeedMatches),
   upbit_read_credentials |-> Warns(config.creds),
   balance_snapshot |-> Warns(balance # Never),
   position_snapshot |-> Warns(position # Never),
   latest_reconciliation |-> DryRunReconciliation,
   active_orders |-> Warns(~active),
   recent_risk_blocks |-> Warns(~riskBlock),
   pending_notifications |-> Warns(~pending)]

DryRunReadiness == Summary(DryRunChecks)

\* buildDryRunReadinessNextActions: several checks share an action
DryRunActions ==
  LET bad == {c \in DOMAIN DryRunChecks : DryRunChecks[c] # "PASS"}
      shared == [execution_state |-> "align DATABASE_PATH", execution_state_seed |-> "align DATABASE_PATH",
                 balance_snapshot |-> "run /sync", position_snapshot |-> "run /sync",
                 latest_reconciliation |-> "run /sync"]
  IN {IF c \in DOMAIN shared THEN shared[c] ELSE c : c \in bad}

\* What the sample of recent scheduler runs says of a market
Sampled == {i \in DOMAIN ticks : i > Len(ticks) - SampleLimit}

\* buildSchedulerMarketEvidence
MarketEvidence(m) ==
  LET own == {i \in Sampled : ticks[i].market = m} IN
  IF own = {} THEN [market |-> m, status |-> "missing", order |-> "none"]
  ELSE ticks[CHOOSE i \in own : \A j \in own : j <= i]

\* classifyLatestReconciliation of the completion smoke
CompletionReconciliation ==
  IF Missing THEN "BLOCK"
  ELSE IF "blocking" \in LatestRun.issues THEN "BLOCK"
  ELSE Blocks(LatestRun.status = "SUCCESS")

CompletionChecks ==
  [dry_run_safety_env |-> Blocks(DryRunSafe),
   execution_state |-> Blocks(DryRunnable),
   execution_state_seed |-> Blocks(SeedMatches),
   upbit_read_credentials |-> Blocks(config.creds),
   balance_snapshot |-> Blocks(balance # Never),
   position_snapshot |-> Blocks(position # Never),
   latest_reconciliation |-> CompletionReconciliation,
   active_orders |-> Blocks(~active),
   recent_risk_blocks |-> Blocks(~riskBlock),
   pending_notifications |-> Blocks(~pending),
   scheduler_latest_runs |-> Blocks(\A m \in Markets : MarketEvidence(m).status = "COMPLETED"),
   scheduler_order_states |-> Blocks(\A m \in Markets : MarketEvidence(m).order # "open")]

Completion == Summary(CompletionChecks)

\* buildDryRunCompletionNextActions
CompletionActions ==
  LET bad == {c \in DOMAIN CompletionChecks : CompletionChecks[c] # "PASS"}
      shared == [execution_state |-> "inspect /status", execution_state_seed |-> "inspect /status",
                 balance_snapshot |-> "sync smoke", position_snapshot |-> "sync smoke",
                 latest_reconciliation |-> "sync smoke",
                 active_orders |-> "inspect /orders", scheduler_order_states |-> "inspect /orders"]
  IN {IF c \in DOMAIN shared THEN shared[c] ELSE c : c \in bad}

-----------------------------------------------------------------------------
(***************************************************************************)
(* The pilot inspector's health part                                       *)
(***************************************************************************)

\* selectLatestReconciliationRow throws on any row that completed before it started.
HistoryValid == \A i \in DOMAIN runs : runs[i].start <= runs[i].done

\* The latest by completion; the ids that decide a tie say nothing of time.
PilotLatest == {i \in DOMAIN runs : \A j \in DOMAIN runs : runs[j].done <= runs[i].done}

\* classifyFreshness
PilotFreshness(t) == Blocks(Freshness(t) = "fresh")

\* classifyReconciliation
PilotClass(r) ==
  IF PilotFreshness(r.done) = "BLOCK" THEN "BLOCK"
  ELSE IF r.status = "SUCCESS" /\ r.issues = {} THEN "PASS"
  ELSE IF r.status = "DRIFT_DETECTED" /\ r.issues # {} /\ r.issues \subseteq {"reviewed"} THEN "WARN"
  ELSE "BLOCK"

\* The grades the inspector may give the history, by the choice among ties
PilotReconciliation ==
  IF Missing THEN {"WARN"}
  ELSE IF ~HistoryValid THEN {"BLOCK"}
  ELSE {PilotClass(runs[i]) : i \in PilotLatest}

\* inspectLease
PilotLease == IF lease = Never THEN "PASS"
              ELSE IF lease > now THEN "BLOCK"
              ELSE "WARN"

-----------------------------------------------------------------------------
(***************************************************************************)
(* What writes the evidence                                                *)
(***************************************************************************)

\* PortfolioSyncService.run: everything it writes carries the instant of the request.
\* A sync takes longer than the clock's unit, and the next begins later than that.
SyncBegin(s) ==
  /\ sync[s] = Idle
  /\ Len(runs) + Cardinality({t \in Syncs : sync[t] # Idle}) < MaxRuns
  /\ \A i \in DOMAIN runs : setBacks > 0 \/ runs[i].done < now
  /\ sync' = [sync EXCEPT ![s] = [at |-> now, step |-> "requested",
                                    clock |-> "investigate clock" \in LiveActions]]
  /\ UNCHANGED <<config, now, exec, runs, balance, position, submitting, lease, active,
                 ticks, riskBlock, pending, commands, setBacks>>

SyncSavesBalance(s) ==
  /\ sync[s].step = "requested"
  /\ balance' = Larger(balance, sync[s].at)
  /\ sync' = [sync EXCEPT ![s] = [@ EXCEPT !.step = "valued"]]
  /\ UNCHANGED <<config, now, exec, runs, position, submitting, lease, active,
                 ticks, riskBlock, pending, commands, setBacks>>

SyncSavesPosition(s) ==
  /\ sync[s].step = "valued"
  /\ position' = Larger(position, sync[s].at)
  /\ sync' = [sync EXCEPT ![s] = [@ EXCEPT !.step = "saved"]]
  /\ UNCHANGED <<config, now, exec, runs, balance, submitting, lease, active,
                 ticks, riskBlock, pending, commands, setBacks>>

\* ReconciliationService.runWithRecord
RunStatus(issues) == IF issues = {} THEN "SUCCESS" ELSE "DRIFT_DETECTED"

SyncComplete(s, issues) ==
  /\ sync[s].step = "saved"
  /\ now # sync[s].at
  /\ runs' = Append(runs, [start |-> sync[s].at, done |-> now,
                           status |-> RunStatus(issues), issues |-> issues])
  /\ sync' = [sync EXCEPT ![s] = Idle]
  /\ UNCHANGED <<config, now, exec, balance, position, submitting, lease, active,
                 ticks, riskBlock, pending, commands, setBacks>>

\* The catch of PortfolioSyncService.run: the run is dated by its request only.
SyncFails(s) ==
  /\ sync[s] # Idle
  /\ now # sync[s].at
  /\ runs' = Append(runs, [start |-> sync[s].at, done |-> sync[s].at,
                           status |-> "ERROR", issues |-> {}])
  /\ sync' = [sync EXCEPT ![s] = Idle]
  /\ UNCHANGED <<config, now, exec, balance, position, submitting, lease, active,
                 ticks, riskBlock, pending, commands, setBacks>>

\* resolveResumedSystemStatus
ResumedStatus(e) == IF e.kill THEN "KILL_SWITCHED" ELSE IF e.degraded THEN "DEGRADED" ELSE "RUNNING"

\* The pause's reason outlives the pause.
WrongResumed(e) ==
  [e EXCEPT !.status = ResumedStatus(e)]

\* resume
Resumed(e) ==
  [e EXCEPT !.status = ResumedStatus(e), !.reason = FALSE]

\* pause, resume, activateKillSwitch, markDegraded, clearDegraded
Command ==
  /\ commands < MaxCommands
  /\ exec' \in {[exec EXCEPT !.status = IF exec.kill THEN "KILL_SWITCHED" ELSE "PAUSED",
                             !.reason = TRUE],
                Resumed(exec),
                [exec EXCEPT !.status = "KILL_SWITCHED", !.kill = TRUE, !.reason = TRUE],
                [exec EXCEPT !.status = IF exec.kill THEN "KILL_SWITCHED"
                                        ELSE IF exec.status = "PAUSED" THEN "PAUSED"
                                        ELSE "DEGRADED",
                             !.degraded = TRUE],
                [exec EXCEPT !.status = IF exec.status = "DEGRADED" THEN "RUNNING" ELSE exec.status,
                             !.degraded = FALSE]}
  /\ commands' = commands + 1
  /\ UNCHANGED <<config, now, runs, balance, position, sync, submitting, lease, active,
                 ticks, riskBlock, pending, setBacks>>

\* acquireAccountExecutionLease, for an order that is stored as active while it is sent
Submit ==
  /\ ~submitting /\ ~active
  /\ lease = Never \/ lease <= now
  /\ submitting' = TRUE
  /\ lease' = now + LeaseTtl
  /\ UNCHANGED <<config, now, exec, runs, balance, position, sync, active,
                 ticks, riskBlock, pending, commands, setBacks>>

\* The submission ends, with the order open at the exchange or not; the lease is released.
Submitted ==
  /\ submitting
  /\ submitting' = FALSE
  /\ lease' = Never
  /\ active' \in BOOLEAN
  /\ UNCHANGED <<config, now, exec, runs, balance, position, sync,
                 ticks, riskBlock, pending, commands, setBacks>>

\* The process dies while it submits: the lease stays behind.
Dies ==
  /\ submitting
  /\ submitting' = FALSE
  /\ active' = TRUE
  /\ UNCHANGED <<config, now, exec, runs, balance, position, sync, lease,
                 ticks, riskBlock, pending, commands, setBacks>>

\* Reconciliation finds the order closed.
OrderCloses ==
  /\ active
  /\ active' = FALSE
  /\ UNCHANGED <<config, now, exec, runs, balance, position, sync, submitting, lease,
                 ticks, riskBlock, pending, commands, setBacks>>

\* persistSchedulerRun: a row when the tick starts, updated when it ends with the order's
\* state of that moment.
TickBegins(m) ==
  /\ Len(ticks) < MaxTicks
  /\ \A i \in DOMAIN ticks : ~(ticks[i].market = m /\ ticks[i].status = "RUNNING")
  /\ ticks' = Append(ticks, [market |-> m, status |-> "RUNNING", order |-> "none"])
  /\ UNCHANGED <<config, now, exec, runs, balance, position, sync, submitting, lease, active,
                 riskBlock, pending, commands, setBacks>>

TickEnds(i) ==
  /\ ticks[i].status = "RUNNING"
  /\ \E s \in {"COMPLETED", "FAILED"}, o \in {"none", "open", "filled"} :
       /\ o = "open" => active
       /\ s = "FAILED" => o = "none"
       /\ ticks' = [ticks EXCEPT ![i] = [@ EXCEPT !.status = s, !.order = o]]
  /\ UNCHANGED <<config, now, exec, runs, balance, position, sync, submitting, lease, active,
                 riskBlock, pending, commands, setBacks>>

\* A risk check blocks, or the sample moves on; a notification is created or sent.
Reports ==
  /\ MaxTicks > 0
  /\ riskBlock' \in BOOLEAN /\ pending' \in BOOLEAN
  /\ <<riskBlock', pending'>> # <<riskBlock, pending>>
  /\ UNCHANGED <<config, now, exec, runs, balance, position, sync, submitting, lease, active,
                 ticks, commands, setBacks>>

ClockTicks ==
  /\ now < MaxTime
  /\ now' = now + 1
  /\ UNCHANGED <<config, exec, runs, balance, position, sync, submitting, lease, active,
                 ticks, riskBlock, pending, commands, setBacks>>

\* The host's clock is set back, not while a sync is under way.
ClockSetBack ==
  /\ setBacks < MaxSetBacks
  /\ \A s \in Syncs : sync[s] = Idle
  /\ now' \in {t \in Instant : t < now}
  /\ setBacks' = setBacks + 1
  /\ UNCHANGED <<config, exec, runs, balance, position, sync, submitting, lease, active,
                 ticks, riskBlock, pending, commands>>

Next ==
  \/ \E s \in Syncs : \/ SyncBegin(s) \/ SyncSavesBalance(s) \/ SyncSavesPosition(s)
                      \/ SyncFails(s)
                      \/ \E issues \in SUBSET Kinds : SyncComplete(s, issues)
  \/ Command
  \/ Submit \/ Submitted \/ Dies \/ OrderCloses
  \/ \E m \in Markets : TickBegins(m)
  \/ \E i \in DOMAIN ticks : TickEnds(i)
  \/ Reports
  \/ ClockTicks \/ ClockSetBack

Spec == Init /\ [][Next]_vars

-----------------------------------------------------------------------------
(***************************************************************************)
(* Properties                                                              *)
(***************************************************************************)

\* The live readiness smoke and the scheduler preflight it prepares the operator for agree:
\* with the scheduler still disabled and a row of this configuration, one gives PASS exactly
\* when the other does, although their notions of a runnable state and of stale evidence differ.
LiveReadersAgree ==
  (config.live /\ ~config.scheduler /\ SeedMatches)
    => (LiveReadiness = "PASS" <=> SchedulerSmoke = "PASS")

\* What the pilot inspector may call a clean reconciliation history, the runtime's own
\* preflight accepts too, although one looks at the run that completed last and the other at
\* the run that started last (one sync at a time).
CleanForPilotIsCleanForRuntime ==
  "PASS" \in PilotReconciliation => PreflightReconciliation = "PASS"

\* The inspector passes the lease only when no order is being submitted, however long the
\* submission takes.
LeasePassMeansNoSubmission == PilotLease = "PASS" => ~submitting

\* A database the completion smoke accepts is one the readiness smoke accepts, and both of
\* its markets have had a completed run.
CompletionMeansReady ==
  Completion = "PASS" => /\ DryRunReadiness = "PASS"
                         /\ \A m \in Markets : \E i \in DOMAIN ticks :
                              ticks[i].market = m /\ ticks[i].status = "COMPLETED"

\* No smoke reports a problem without telling the operator what to do, or tells him to do
\* something when there is none.
EveryProblemHasAnAction ==
  /\ LiveReadiness # "PASS" <=> LiveActions # {}
  /\ SchedulerSmoke # "PASS" <=> SmokeActions # {}
  /\ DryRunReadiness # "PASS" <=> DryRunActions # {}
  /\ Completion # "PASS" <=> CompletionActions # {}

\* The advice to run /sync works: a clean sync (syncs one at a time) that is not longer
\* than the threshold makes every evidence check of the live readiness smoke pass, unless the
\* report had sent the operator to the clock.
SyncAdviceWorks ==
  \A s \in Syncs :
    (/\ sync[s].step = "saved" /\ sync'[s] = Idle
     /\ runs' # runs /\ runs'[Len(runs')].status = "SUCCESS"
     /\ now - sync[s].at <= MaxAge
     /\ ~sync[s].clock)
    => \A c \in HealthChecks : LiveChecks'[c] = "PASS"

=============================================================================
