------------------------ MODULE ReadinessReadersProofs ------------------------
(***************************************************************************)
(* The readers of readiness, for any configurations, thresholds and        *)
(* bounds. That the smokes always name an action, and that the completion  *)
(* smoke is the stricter one, follows from how they grade; that the        *)
(* readers agree, and that the advice to sync works, follows from how the  *)
(* evidence is written.                                                    *)
(***************************************************************************)
EXTENDS ReadinessReaders, FiniteSetTheorems, WellFoundedInduction, TLAPS

\* A nonempty set of naturals has a least element; a bounded one has a greatest.
LEMMA Least ==
  ASSUME NEW T, T \subseteq Nat, T # {}
  PROVE  \E x \in T : \A y \in T : x <= y
<1> DEFINE R == {ss \in Nat \X Nat : ss[1] < ss[2]}
<1>1. IsWellFoundedOn(R, Nat)
  BY NatLessThanWellFounded, Zenon DEF OpToRel
<1>2. \E x \in T : \A y \in T : ~(<<y, x>> \in R)
  <2> HIDE DEF R
  <2> QED
    BY <1>1, WFMin
<1>3. PICK x \in T : \A y \in T : ~(<<y, x>> \in R)
  BY <1>2
<1>4. \A y \in T : ~(y < x)
  BY <1>3
<1>5. QED
  BY <1>3, <1>4

LEMMA Greatest ==
  ASSUME NEW n \in Nat, NEW T, T \subseteq 0 .. n, T # {}
  PROVE  \E x \in T : \A y \in T : y <= x
<1> DEFINE U == {n - x : x \in T}
<1>0. \A x \in T : n - x \in Nat
  OBVIOUS
<1>1. U \subseteq Nat /\ U # {}
  BY <1>0, Zenon
<1>2. PICK u \in U : \A y \in U : u <= y
  <2> HIDE DEF U
  <2> QED
    BY <1>1, Least
<1>3. PICK x \in T : u = n - x
  OBVIOUS
<1>4. \A y \in T : n - y \in U
  OBVIOUS
<1>5. \A y \in T : n - x <= n - y
  <2> HIDE DEF U
  <2> QED
    BY <1>2, <1>3, <1>4
<1>6. QED
  BY <1>5

-----------------------------------------------------------------------------
Grades == {"PASS", "WARN", "BLOCK"}

-----------------------------------------------------------------------------
(***************************************************************************)
(* Grades                                                                  *)
(***************************************************************************)

\* A summary passes when every check does.
LEMMA SummaryPasses ==
  ASSUME NEW checks, \A c \in DOMAIN checks : checks[c] \in Grades
  PROVE  Summary(checks) = "PASS" <=> \A c \in DOMAIN checks : checks[c] = "PASS"
BY DEF Summary, Grades

LEMMA GradeFacts ==
  ASSUME NEW ok \in BOOLEAN
  PROVE  /\ Blocks(ok) \in Grades /\ Warns(ok) \in Grades
         /\ Blocks(ok) = "PASS" <=> ok
         /\ Warns(ok) = "PASS" <=> ok
BY DEF Blocks, Warns, Grades

LEMMA LiveGrades ==
  /\ DOMAIN LiveChecks = {"live_mode", "live_gate", "upbit_credentials", "live_send_path",
       "scheduler_disabled_for_validation", "execution_state", "execution_state_seed",
       "balance_snapshot", "position_snapshot", "latest_reconciliation", "active_orders"}
  /\ \A c \in DOMAIN LiveChecks : LiveChecks[c] \in Grades
  /\ LiveChecks["balance_snapshot"] = LiveFreshness(balance)
  /\ LiveChecks["position_snapshot"] = LiveFreshness(position)
  /\ LiveChecks["latest_reconciliation"] = LiveReconciliation
<1>1. LiveReconciliation \in Grades /\ LiveFreshness(balance) \in Grades /\ LiveFreshness(position) \in Grades
  BY DEF LiveReconciliation, LiveFreshness, Grades
<1>2. \A ok : Blocks(ok) \in Grades
  BY DEF Blocks, Grades
<1>3. DOMAIN LiveChecks = {"live_mode", "live_gate", "upbit_credentials", "live_send_path",
       "scheduler_disabled_for_validation", "execution_state", "execution_state_seed",
       "balance_snapshot", "position_snapshot", "latest_reconciliation", "active_orders"}
  BY DEF LiveChecks
<1>4. QED
  BY <1>1, <1>2, <1>3 DEF LiveChecks

LEMMA PreflightGrades ==
  /\ DOMAIN PreflightChecks = {"live_gate", "live_send_path", "execution_state",
       "upbit_read_credentials", "balance_snapshot", "position_snapshot",
       "latest_reconciliation", "active_orders"}
  /\ \A c \in DOMAIN PreflightChecks : PreflightChecks[c] \in Grades
<1>1. /\ PreflightReconciliation \in Grades
      /\ PreflightFreshness(balance) \in Grades /\ PreflightFreshness(position) \in Grades
  BY DEF PreflightReconciliation, PreflightFreshness, Blocks, Grades
<1>2. \A ok : Blocks(ok) \in Grades
  BY DEF Blocks, Grades
<1>3. DOMAIN PreflightChecks = {"live_gate", "live_send_path", "execution_state",
       "upbit_read_credentials", "balance_snapshot", "position_snapshot",
       "latest_reconciliation", "active_orders"}
  BY DEF PreflightChecks
<1>4. QED
  BY <1>1, <1>2, <1>3 DEF PreflightChecks

LEMMA SmokeGrades ==
  /\ DOMAIN SmokeChecks = {"live_mode", "preflight_scope", "scheduler_startup_preflight"}
  /\ \A c \in DOMAIN SmokeChecks : SmokeChecks[c] \in Grades
<1>1. StartupPreflight(AssumedEnabled) \in Grades \cup {"NOT_REQUIRED"}
  BY DEF StartupPreflight, Summary, Grades
<1>2. \A ok : Blocks(ok) \in Grades
  BY DEF Blocks, Grades
<1>3. DOMAIN SmokeChecks = {"live_mode", "preflight_scope", "scheduler_startup_preflight"}
  BY DEF SmokeChecks
<1>4. QED
  BY <1>1, <1>2, <1>3 DEF SmokeChecks, Grades

LEMMA DryRunGrades ==
  /\ DOMAIN DryRunChecks = {"dry_run_safety_env", "execution_state", "execution_state_seed",
       "upbit_read_credentials", "balance_snapshot", "position_snapshot",
       "latest_reconciliation", "active_orders", "recent_risk_blocks", "pending_notifications"}
  /\ \A c \in DOMAIN DryRunChecks : DryRunChecks[c] \in Grades
<1>1. DryRunReconciliation \in Grades
  BY DEF DryRunReconciliation, Warns, Grades
<1>2. \A ok : Blocks(ok) \in Grades /\ Warns(ok) \in Grades
  BY DEF Blocks, Warns, Grades
<1>3. DOMAIN DryRunChecks = {"dry_run_safety_env", "execution_state", "execution_state_seed",
       "upbit_read_credentials", "balance_snapshot", "position_snapshot",
       "latest_reconciliation", "active_orders", "recent_risk_blocks", "pending_notifications"}
  BY DEF DryRunChecks
<1>4. QED
  BY <1>1, <1>2, <1>3 DEF DryRunChecks

LEMMA CompletionGrades ==
  /\ DOMAIN CompletionChecks = {"dry_run_safety_env", "execution_state", "execution_state_seed",
       "upbit_read_credentials", "balance_snapshot", "position_snapshot",
       "latest_reconciliation", "active_orders", "recent_risk_blocks", "pending_notifications",
       "scheduler_latest_runs", "scheduler_order_states"}
  /\ \A c \in DOMAIN CompletionChecks : CompletionChecks[c] \in Grades
<1>1. CompletionReconciliation \in Grades
  BY DEF CompletionReconciliation, Blocks, Grades
<1>2. \A ok : Blocks(ok) \in Grades
  BY DEF Blocks, Grades
<1>3. DOMAIN CompletionChecks = {"dry_run_safety_env", "execution_state", "execution_state_seed",
       "upbit_read_credentials", "balance_snapshot", "position_snapshot",
       "latest_reconciliation", "active_orders", "recent_risk_blocks", "pending_notifications",
       "scheduler_latest_runs", "scheduler_order_states"}
  BY DEF CompletionChecks
<1>4. ASSUME NEW c \in DOMAIN CompletionChecks PROVE CompletionChecks[c] \in Grades
  <2>1. CASE c = "latest_reconciliation"
    BY <1>1, <2>1 DEF CompletionChecks
  <2>2. CASE c \in {"scheduler_latest_runs", "scheduler_order_states"}
    BY <2>2 DEF CompletionChecks, Blocks, Grades
  <2>3. CASE c \notin {"latest_reconciliation", "scheduler_latest_runs", "scheduler_order_states"}
    BY <1>2, <1>3, <2>3 DEF CompletionChecks
  <2>4. QED
    BY <2>1, <2>2, <2>3
<1>5. QED
  BY <1>3, <1>4

-----------------------------------------------------------------------------
(***************************************************************************)
(* Every problem has an action                                             *)
(***************************************************************************)

LEMMA LiveProblems == LiveReadiness # "PASS" <=> LiveActions # {}
<1> DEFINE Bad == {c \in DOMAIN LiveChecks : LiveChecks[c] # "PASS"}
<1>1. LiveReadiness # "PASS" <=> Bad # {}
  BY LiveGrades, SummaryPasses DEF LiveReadiness
<1>2. HealthChecks \subseteq DOMAIN LiveChecks
  BY LiveGrades DEF HealthChecks
<1>3. ASSUME NEW c \in Uncomparable PROVE c \in Bad
  <2>1. c \in HealthChecks
    BY <1>3 DEF Uncomparable
  <2>2. LiveChecks[c] = "BLOCK"
    BY <1>3, LiveGrades DEF Uncomparable, LiveFreshness, LiveReconciliation
  <2>3. QED
    BY <1>2, <2>1, <2>2
<1>4. ASSUME NEW c \in Bad PROVE LiveActions # {}
  <2>1. CASE c \notin HealthChecks
    BY <2>1 DEF LiveActions
  <2>2. CASE c \in Uncomparable
    BY <2>2 DEF LiveActions
  <2>3. CASE c \in HealthChecks /\ c \notin Uncomparable
    <3>1. LiveChecks[c] \in {"WARN", "BLOCK"}
      BY LiveGrades DEF Grades
    <3>2. "run /sync" \in LiveActions
      BY <2>3, <3>1 DEF LiveActions
    <3>3. QED
      BY <3>2
  <2>4. QED
    BY <2>1, <2>2, <2>3
<1>5. ASSUME NEW a \in LiveActions PROVE Bad # {}
  <2>1. CASE a \in DOMAIN LiveChecks \ HealthChecks /\ LiveChecks[a] # "PASS"
    BY <2>1
  <2>2. CASE Uncomparable # {}
    BY <2>2, <1>3
  <2>3. CASE \E c \in HealthChecks : LiveChecks[c] = "WARN" \/ LiveChecks[c] = "BLOCK"
    BY <2>3, <1>2
  <2>4. QED
    BY <1>5, <2>1, <2>2, <2>3 DEF LiveActions
<1>6. QED
  BY <1>1, <1>4, <1>5

LEMMA SmokeProblems ==
  ASSUME config.live \in BOOLEAN
  PROVE  SchedulerSmoke # "PASS" <=> SmokeActions # {}
<1>1. SchedulerSmoke = "PASS" <=> \A c \in DOMAIN SmokeChecks : SmokeChecks[c] = "PASS"
  BY SmokeGrades, SummaryPasses DEF SchedulerSmoke
<1>2. CASE ~config.live
  <2>1. SmokeChecks["live_mode"] = "BLOCK"
    BY <1>2 DEF SmokeChecks, Blocks
  <2>2. SchedulerSmoke # "PASS"
    BY <1>1, <2>1, SmokeGrades
  <2>3. "use LIVE" \in SmokeActions
    BY <1>2 DEF SmokeActions
  <2>4. QED
    BY <2>2, <2>3
<1>3. CASE config.live
  <2> DEFINE p == SmokeChecks["scheduler_startup_preflight"]
  <2>1. p = Summary(PreflightChecks)
    BY <1>3 DEF SmokeChecks, StartupPreflight, AssumedEnabled, Summary
  <2>2. SmokeChecks["live_mode"] = "PASS" /\ SmokeChecks["preflight_scope"] = "PASS"
    BY <1>3 DEF SmokeChecks, Blocks
  <2>3. SchedulerSmoke = "PASS" <=> p = "PASS"
    BY <1>1, <2>2, SmokeGrades
  <2>4. p = "BLOCK" <=> \E c \in DOMAIN PreflightChecks : PreflightChecks[c] = "BLOCK"
    BY <2>1 DEF Summary
  <2>5. p \in Grades
    BY SmokeGrades
  <2>6. SmokeActions # {} <=> (p = "BLOCK" \/ p = "WARN")
    <3>1. SmokeActions = {c \in DOMAIN PreflightChecks : PreflightChecks[c] = "BLOCK"}
                           \cup {a \in {"review warnings"} : p = "WARN"}
      BY <1>3 DEF SmokeActions
    <3>2. QED
      BY <3>1, <2>4
  <2>7. QED
    BY <2>3, <2>5, <2>6 DEF Grades
<1>4. QED
  BY <1>2, <1>3

LEMMA DryRunProblems ==
  /\ DryRunReadiness # "PASS" <=> DryRunActions # {}
  /\ Completion # "PASS" <=> CompletionActions # {}
<1>1. DryRunReadiness # "PASS" <=> {c \in DOMAIN DryRunChecks : DryRunChecks[c] # "PASS"} # {}
  BY DryRunGrades, SummaryPasses DEF DryRunReadiness
<1>2. Completion # "PASS" <=> {c \in DOMAIN CompletionChecks : CompletionChecks[c] # "PASS"} # {}
  BY CompletionGrades, SummaryPasses DEF Completion
<1>3. DryRunActions # {} <=> {c \in DOMAIN DryRunChecks : DryRunChecks[c] # "PASS"} # {}
  BY Zenon DEF DryRunActions
<1>4. CompletionActions # {} <=> {c \in DOMAIN CompletionChecks : CompletionChecks[c] # "PASS"} # {}
  <2> DEFINE bad == {c \in DOMAIN CompletionChecks : CompletionChecks[c] # "PASS"}
  <2> DEFINE shared == [execution_state |-> "inspect /status", execution_state_seed |-> "inspect /status",
                        balance_snapshot |-> "sync smoke", position_snapshot |-> "sync smoke",
                        latest_reconciliation |-> "sync smoke",
                        active_orders |-> "inspect /orders", scheduler_order_states |-> "inspect /orders"]
  <2>0. CompletionActions = {IF c \in DOMAIN shared THEN shared[c] ELSE c : c \in bad}
    BY DEF CompletionActions
  <2>1. ASSUME NEW c \in bad PROVE CompletionActions # {}
    <3> HIDE DEF bad, shared
    <3>1. (IF c \in DOMAIN shared THEN shared[c] ELSE c) \in CompletionActions
      BY <2>0, <2>1, Zenon
    <3>2. QED
      BY <3>1, Zenon
  <2>2. ASSUME NEW a \in CompletionActions PROVE bad # {}
    BY <2>2, Zenon DEF CompletionActions
  <2>3. QED
    BY <2>1, <2>2, Zenon
<1>5. QED
  BY <1>1, <1>2, <1>3, <1>4

LEMMA ActionForEveryProblem ==
  ASSUME Bounds, TypeOK
  PROVE  EveryProblemHasAnAction
<1>1. config.live \in BOOLEAN
  BY DEF Bounds, TypeOK
<1>2. QED
  BY <1>1, LiveProblems, SmokeProblems, DryRunProblems DEF EveryProblemHasAnAction

-----------------------------------------------------------------------------
(***************************************************************************)
(* The latest rows                                                         *)
(***************************************************************************)

\* ORDER BY started_at DESC, rowid DESC
Newer(i, j) ==
  runs[i].start > runs[j].start \/ (runs[i].start = runs[j].start /\ i >= j)

\* The row a reader gets is one of the runs, and no run is newer.
LatestIs(k) ==
  /\ k \in DOMAIN runs
  /\ LatestRun = runs[k]
  /\ \A j \in DOMAIN runs : Newer(k, j)

LEMMA LatestExists ==
  ASSUME MaxTime \in Nat, runs \in Seq(Run), runs # <<>>
  PROVE  \E k : LatestIs(k)
<1>1. DOMAIN runs = 1 .. Len(runs) /\ Len(runs) \in Nat /\ Len(runs) > 0
  OBVIOUS
<1>2. \A i \in DOMAIN runs : runs[i].start \in 0 .. MaxTime
  <2>1. \A i \in DOMAIN runs : runs[i] \in Run
    OBVIOUS
  <2>2. QED
    BY <2>1 DEF Run, Instant
<1> DEFINE S == {runs[i].start : i \in DOMAIN runs}
<1>3. S \subseteq 0 .. MaxTime /\ S # {}
  <2>1. 1 \in DOMAIN runs
    BY <1>1
  <2>2. QED
    BY <1>2, <2>1, Zenon
<1>4. PICK m \in S : \A x \in S : x <= m
  <2> HIDE DEF S
  <2> QED
    BY <1>3, Greatest
<1> DEFINE T == {i \in DOMAIN runs : runs[i].start = m}
<1>5. T \subseteq 0 .. Len(runs) /\ T # {}
  <2>1. T \subseteq 0 .. Len(runs)
    BY <1>1
  <2>2. QED
    BY <2>1, <1>4, Zenon
<1>6. PICK k \in T : \A x \in T : x <= k
  <2> HIDE DEF T, S
  <2> QED
    BY <1>1, <1>5, Greatest
<1>7. k \in DOMAIN runs /\ \A j \in DOMAIN runs : Newer(k, j)
  <2>1. ASSUME NEW j \in DOMAIN runs PROVE Newer(k, j)
    <3>1. runs[j].start \in S
      BY <2>1, Zenon
    <3>2. runs[j].start <= m /\ runs[k].start = m
      BY <3>1, <1>4, <1>6
    <3>3. CASE runs[j].start = m
      <4>1. j \in T
        BY <3>3
      <4>2. j <= k
        BY <4>1, <1>6
      <4>3. QED
        BY <4>2, <3>2, <3>3, <1>1 DEF Newer
    <3>4. CASE runs[j].start # m
      <4>1. runs[j].start \in Int /\ runs[k].start \in Int
        BY <1>2, <1>6
      <4>2. QED
        BY <4>1, <3>2, <3>4 DEF Newer
    <3>5. QED
      BY <3>3, <3>4
  <2>2. QED
    BY <2>1, <1>6
<1>8. PICK i \in DOMAIN runs : LatestRun = runs[i] /\ \A j \in DOMAIN runs : Newer(i, j)
  BY <1>7, Zenon DEF LatestRun, Newer
<1>9. QED
  BY <1>8 DEF LatestIs

\* The completion smoke's evidence of a market is a row of that market.
LEMMA EvidenceIs ==
  ASSUME ticks \in Seq(Tick), NEW m, MarketEvidence(m).status = "COMPLETED"
  PROVE  \E i \in DOMAIN ticks : ticks[i].market = m /\ ticks[i].status = "COMPLETED"
<1> DEFINE own == {i \in Sampled : ticks[i].market = m}
<1>1. own # {}
  BY DEF MarketEvidence
<1>2. own \subseteq 0 .. Len(ticks) /\ Len(ticks) \in Nat
  BY DEF Sampled
<1>3. PICK k \in own : \A j \in own : j <= k
  <2> HIDE DEF own
  <2> QED
    BY <1>1, <1>2, Greatest
<1>4. PICK i \in own : MarketEvidence(m) = ticks[i]
  <2>1. MarketEvidence(m) = ticks[CHOOSE i \in own : \A j \in own : j <= i]
    BY <1>1 DEF MarketEvidence
  <2> HIDE DEF own
  <2>2. (CHOOSE i \in own : \A j \in own : j <= i) \in own
    BY <1>3
  <2>3. QED
    BY <2>1, <2>2
<1>5. i \in DOMAIN ticks /\ ticks[i].market = m
  BY DEF Sampled
<1>6. QED
  BY <1>4, <1>5

LEMMA CompletionIsStricter ==
  ASSUME Bounds, TypeOK
  PROVE  CompletionMeansReady
<1>1. SUFFICES ASSUME Completion = "PASS" PROVE CompletionMeansReady
  BY DEF CompletionMeansReady
<1>2. \A c \in DOMAIN CompletionChecks : CompletionChecks[c] = "PASS"
  BY <1>1, CompletionGrades, SummaryPasses DEF Completion
<1>3. \A c \in DOMAIN DryRunChecks : CompletionChecks[c] = "PASS"
  BY <1>2, CompletionGrades, DryRunGrades
<1>4. \A c \in DOMAIN DryRunChecks : DryRunChecks[c] = "PASS"
  <2>1. config.creds \in BOOLEAN /\ active \in BOOLEAN /\ riskBlock \in BOOLEAN /\ pending \in BOOLEAN
    BY DEF Bounds, TypeOK
  <2>2. DryRunReconciliation = "PASS"
    <3>1. CompletionReconciliation = "PASS"
      BY <1>2, CompletionGrades DEF CompletionChecks
    <3>2. QED
      BY <3>1 DEF CompletionReconciliation, DryRunReconciliation, Blocks, Warns
  <2>3. /\ Blocks(DryRunSafe) = "PASS" /\ Blocks(DryRunnable) = "PASS" /\ Blocks(SeedMatches) = "PASS"
        /\ config.creds /\ balance # Never /\ position # Never /\ ~active /\ ~riskBlock /\ ~pending
    BY <1>3, <2>1, DryRunGrades DEF CompletionChecks, Blocks
  <2>4. QED
    BY <2>2, <2>3, DryRunGrades DEF DryRunChecks, Warns
<1>5. DryRunReadiness = "PASS"
  BY <1>4, DryRunGrades, SummaryPasses DEF DryRunReadiness
<1>6. \A m \in Markets : MarketEvidence(m).status = "COMPLETED"
  <2>1. CompletionChecks["scheduler_latest_runs"] = "PASS"
    BY <1>2, CompletionGrades
  <2>2. QED
    BY <2>1 DEF CompletionChecks, Blocks
<1>7. ticks \in Seq(Tick)
  BY DEF TypeOK
<1>8. QED
  BY <1>5, <1>6, <1>7, EvidenceIs DEF CompletionMeansReady

-----------------------------------------------------------------------------
(***************************************************************************)
(* How the evidence is written                                             *)
(***************************************************************************)

Open == {t \in Syncs : sync[t] # Idle}

\* Every open sync has room for its run.
Room == Len(runs) + Cardinality(Open) <= MaxRuns

\* A run does not end before it started, and a clean one has no issue.
RunsDated ==
  \A i \in DOMAIN runs : /\ runs[i].start <= runs[i].done
                         /\ runs[i].status = "SUCCESS" => runs[i].issues = {}

\* An open sync was requested in the past: the clock is not set back under it.
SyncsDated ==
  \A s \in Syncs : /\ sync[s].step = "idle" <=> sync[s] = Idle
                   /\ sync[s] # Idle => sync[s].at \in Instant /\ sync[s].at <= now

\* The kill switch and the status agree, and a reason for a pause is there only while the
\* system is paused or stopped.
ReasonsKept ==
  /\ exec.kill <=> exec.status = "KILL_SWITCHED"
  /\ exec.reason => exec.status \in {"PAUSED", "KILL_SWITCHED"}

\* Who submits has a row in the lease table, expired or not.
LeaseHeld == submitting => lease # Never

ReadersInv == TypeOK /\ Room /\ RunsDated /\ SyncsDated /\ ReasonsKept /\ LeaseHeld

LEMMA ReadersInit ==
  ASSUME Bounds, Init
  PROVE  ReadersInv
<1>1. TypeOK
  <2>1. exec \in [live : BOOLEAN, gate : BOOLEAN, status : Statuses, kill : BOOLEAN,
                  reason : BOOLEAN, degraded : BOOLEAN]
    <3>1. PICK seed \in Configs :
            exec = [live |-> seed.live, gate |-> seed.gate, kill |-> seed.kill,
                    status |-> IF seed.kill THEN "KILL_SWITCHED" ELSE "RUNNING",
                    reason |-> FALSE, degraded |-> FALSE]
      BY DEF Init
    <3>2. seed \in [live : BOOLEAN, gate : BOOLEAN, creds : BOOLEAN, scheduler : BOOLEAN,
                    kill : BOOLEAN]
      BY DEF Bounds
    <3>3. QED
      BY <3>1, <3>2 DEF Statuses
  <2>2. sync \in [Syncs -> [at : Instant \cup {Never}, step : {"idle", "requested", "valued", "saved"},
                            clock : BOOLEAN]]
    BY DEF Init, Idle
  <2>3. runs \in Seq(Run) /\ ticks \in Seq(Tick) /\ Len(runs) <= MaxRuns /\ Len(ticks) <= MaxTicks
    BY DEF Init, Bounds
  <2>4. now \in Instant /\ commands \in 0 .. MaxCommands /\ setBacks \in 0 .. MaxSetBacks
    BY DEF Init, Bounds, Instant
  <2>5. QED
    BY <2>1, <2>2, <2>3, <2>4 DEF Init, TypeOK
<1>2. Room
  <2>1. Open = {}
    BY DEF Open, Init
  <2>2. QED
    BY <2>1, FS_EmptySet DEF Room, Init, Bounds
<1>3. RunsDated /\ LeaseHeld
  BY DEF RunsDated, LeaseHeld, Init
<1>4. SyncsDated
  BY DEF SyncsDated, Init, Idle
<1>5. ReasonsKept
  BY DEF ReasonsKept, Init, Bounds
<1>6. QED
  BY <1>1, <1>2, <1>3, <1>4, <1>5 DEF ReadersInv

\* What a step that touches neither runs, syncs nor the clock keeps.
LEMMA EvidenceKept ==
  ASSUME Room, RunsDated, SyncsDated, UNCHANGED <<runs, sync, now>>
  PROVE  Room' /\ RunsDated' /\ SyncsDated'
<1>1. Open' = Open
  BY DEF Open
<1>2. QED
  BY <1>1 DEF Room, RunsDated, SyncsDated

LEMMA BeginSets ==
  ASSUME NEW s \in Syncs, SyncBegin(s)
  PROVE  \E b \in BOOLEAN :
           /\ b = ("investigate clock" \in LiveActions)
           /\ sync' = [sync EXCEPT ![s] = [at |-> now, step |-> "requested", clock |-> b]]
<1> DEFINE told == "investigate clock" \in LiveActions
<1>1. told \in BOOLEAN
  OBVIOUS
<1>2. sync' = [sync EXCEPT ![s] = [at |-> now, step |-> "requested", clock |-> told]]
  BY Zenon DEF SyncBegin
<1>3. QED
  BY <1>1, <1>2, Zenon

LEMMA BeginKeeps ==
  ASSUME Bounds, ReadersInv, NEW s \in Syncs, SyncBegin(s)
  PROVE  ReadersInv'
<1>1. PICK b \in BOOLEAN : sync' = [sync EXCEPT ![s] = [at |-> now, step |-> "requested", clock |-> b]]
  BY BeginSets, Zenon
<1>2. now \in Instant /\ now >= 0 /\ now \in Int
  BY DEF ReadersInv, TypeOK, Instant, Bounds
<1>3. /\ sync'[s] = [at |-> now, step |-> "requested", clock |-> b]
      /\ \A t \in Syncs \ {s} : sync'[t] = sync[t]
      /\ sync'[s] \in [at : Instant \cup {Never}, step : {"idle", "requested", "valued", "saved"},
                       clock : BOOLEAN]
  BY <1>1, <1>2 DEF ReadersInv, TypeOK
<1>4. sync'[s] # Idle
  BY <1>3 DEF Idle
<1>5. TypeOK'
  <2>1. UNCHANGED <<config, now, exec, runs, balance, position, submitting, lease, active,
                    ticks, riskBlock, pending, commands, setBacks>>
    BY Zenon DEF SyncBegin
  <2>2. sync' \in [Syncs -> [at : Instant \cup {Never}, step : {"idle", "requested", "valued", "saved"},
                             clock : BOOLEAN]]
    BY <1>1, <1>2, <1>3 DEF ReadersInv, TypeOK
  <2>3. QED
    BY <2>1, <2>2 DEF ReadersInv, TypeOK
<1>6. Room'
  <2>1. Open' = Open \cup {s} /\ s \notin Open
    BY <1>3, <1>4 DEF Open, SyncBegin
  <2>2. IsFiniteSet(Open)
    BY FS_Subset DEF Open, Bounds
  <2>3. Cardinality(Open') = Cardinality(Open) + 1 /\ Cardinality(Open) \in Nat
    BY <2>1, <2>2, FS_AddElement, FS_CardinalityType
  <2>4. Len(runs) + Cardinality(Open) < MaxRuns /\ runs' = runs
    BY DEF SyncBegin, Open
  <2>5. QED
    BY <2>3, <2>4 DEF Room, ReadersInv, TypeOK, Bounds
<1>7. RunsDated' /\ ReasonsKept' /\ LeaseHeld'
  BY DEF ReadersInv, RunsDated, ReasonsKept, LeaseHeld, SyncBegin
<1>8. SyncsDated'
  <2>1. now' = now
    BY DEF SyncBegin
  <2>2. QED
    BY <1>2, <1>3, <1>4, <2>1 DEF SyncsDated, ReadersInv
<1>9. QED
  BY <1>5, <1>6, <1>7, <1>8 DEF ReadersInv

\* The two steps of a sync that save a snapshot.
LEMMA SaveKeeps ==
  ASSUME Bounds, ReadersInv, NEW s \in Syncs, SyncSavesBalance(s) \/ SyncSavesPosition(s)
  PROVE  ReadersInv'
<1>1. PICK step \in {"valued", "saved"} : sync' = [sync EXCEPT ![s] = [@ EXCEPT !.step = step]]
  BY DEF SyncSavesBalance, SyncSavesPosition
<1>2. sync \in [Syncs -> [at : Instant \cup {Never}, step : {"idle", "requested", "valued", "saved"},
                          clock : BOOLEAN]]
  BY DEF ReadersInv, TypeOK
<1>3. sync[s].step # "idle" /\ sync[s] # Idle
  BY DEF SyncSavesBalance, SyncSavesPosition, Idle
<1>4. /\ sync'[s].at = sync[s].at /\ sync'[s].step = step /\ sync'[s].clock = sync[s].clock
      /\ sync' \in [Syncs -> [at : Instant \cup {Never}, step : {"idle", "requested", "valued", "saved"},
                              clock : BOOLEAN]]
      /\ \A t \in Syncs \ {s} : sync'[t] = sync[t]
  BY <1>1, <1>2
<1>5. sync'[s] # Idle
  BY <1>4 DEF Idle
<1>6. balance' \in Instant \cup {Never} /\ position' \in Instant \cup {Never}
  BY <1>2 DEF SyncSavesBalance, SyncSavesPosition, Larger, ReadersInv, TypeOK
<1>7. UNCHANGED <<config, now, exec, runs, submitting, lease, active, ticks, riskBlock, pending,
                  commands, setBacks>>
  BY DEF SyncSavesBalance, SyncSavesPosition
<1>8. TypeOK'
  BY <1>4, <1>6, <1>7 DEF ReadersInv, TypeOK
<1>9. Room'
  <2>1. Open' = Open
    BY <1>3, <1>4, <1>5 DEF Open
  <2>2. QED
    BY <2>1, <1>7 DEF Room, ReadersInv
<1>10. SyncsDated'
  BY <1>3, <1>4, <1>5, <1>7 DEF SyncsDated, ReadersInv
<1>11. RunsDated' /\ ReasonsKept' /\ LeaseHeld'
  BY <1>7 DEF ReadersInv, RunsDated, ReasonsKept, LeaseHeld
<1>12. QED
  BY <1>8, <1>9, <1>10, <1>11 DEF ReadersInv

\* The two ways a sync ends: a run is appended, dated by its request.
EndsWith(s, run) ==
  /\ run \in Run /\ run.start = sync[s].at
  /\ run.start <= run.done /\ run.done <= now
  /\ run.status = "SUCCESS" => run.issues = {}
  /\ sync[s] # Idle
  /\ runs' = Append(runs, run)
  /\ sync' = [sync EXCEPT ![s] = Idle]
  /\ UNCHANGED <<config, now, exec, balance, position, submitting, lease, active,
                 ticks, riskBlock, pending, commands, setBacks>>

LEMMA SyncEnds ==
  ASSUME Bounds, ReadersInv, NEW s \in Syncs,
         SyncFails(s) \/ \E issues \in SUBSET Kinds : SyncComplete(s, issues)
  PROVE  \E run : EndsWith(s, run)
<1>1. now \in Instant /\ now \in Int
  BY DEF ReadersInv, TypeOK, Instant, Bounds
<1>2. ASSUME sync[s] # Idle PROVE sync[s].at \in Instant /\ sync[s].at <= now /\ sync[s].at \in Int
  BY <1>2 DEF ReadersInv, SyncsDated, Instant, Bounds
<1>3. CASE SyncFails(s)
  <2> DEFINE run == [start |-> sync[s].at, done |-> sync[s].at, status |-> "ERROR", issues |-> {}]
  <2>1. sync[s] # Idle
    BY <1>3 DEF SyncFails
  <2>2. run \in Run
    BY <1>2, <2>1 DEF Run
  <2>3. EndsWith(s, run)
    BY <1>2, <1>3, <2>1, <2>2 DEF EndsWith, SyncFails
  <2>4. QED
    BY <2>3
<1>4. ASSUME NEW issues \in SUBSET Kinds, SyncComplete(s, issues) PROVE \E run : EndsWith(s, run)
  <2> DEFINE run == [start |-> sync[s].at, done |-> now, status |-> RunStatus(issues), issues |-> issues]
  <2>1. sync[s] # Idle
    BY <1>4 DEF SyncComplete, Idle
  <2>2. run \in Run /\ (run.status = "SUCCESS" => run.issues = {})
    BY <1>1, <1>2, <2>1 DEF Run, RunStatus
  <2>3. EndsWith(s, run)
    BY <1>1, <1>2, <1>4, <2>1, <2>2 DEF EndsWith, SyncComplete
  <2>4. QED
    BY <2>3
<1>5. QED
  BY <1>3, <1>4

LEMMA EndKeeps ==
  ASSUME Bounds, ReadersInv, NEW s \in Syncs, NEW run, EndsWith(s, run)
  PROVE  ReadersInv'
<1>1. /\ sync \in [Syncs -> [at : Instant \cup {Never}, step : {"idle", "requested", "valued", "saved"},
                             clock : BOOLEAN]]
      /\ runs \in Seq(Run) /\ Len(runs) \in Nat
  BY DEF ReadersInv, TypeOK
<1>2. Idle \in [at : Instant \cup {Never}, step : {"idle", "requested", "valued", "saved"},
                clock : BOOLEAN]
  BY DEF Idle
<1>3. /\ sync' \in [Syncs -> [at : Instant \cup {Never}, step : {"idle", "requested", "valued", "saved"},
                              clock : BOOLEAN]]
      /\ sync'[s] = Idle
      /\ \A t \in Syncs \ {s} : sync'[t] = sync[t]
  BY <1>1, <1>2 DEF EndsWith
<1>4. /\ runs' \in Seq(Run) /\ Len(runs') = Len(runs) + 1
      /\ DOMAIN runs' = 1 .. Len(runs) + 1 /\ DOMAIN runs = 1 .. Len(runs)
      /\ runs'[Len(runs) + 1] = run
      /\ \A i \in 1 .. Len(runs) : runs'[i] = runs[i]
  BY <1>1 DEF EndsWith
<1>5. Room'
  <2>1. Open' = Open \ {s} /\ s \in Open
    BY <1>3 DEF Open, EndsWith
  <2>2. IsFiniteSet(Open)
    BY FS_Subset DEF Open, Bounds
  <2>3. Cardinality(Open') = Cardinality(Open) - 1 /\ Cardinality(Open) \in Nat
    BY <2>1, <2>2, FS_RemoveElement, FS_CardinalityType
  <2>4. QED
    BY <1>1, <1>4, <2>3 DEF Room, ReadersInv, Bounds
<1>6. Len(runs') <= MaxRuns
  <2>1. s \in Open
    BY DEF Open, EndsWith
  <2>2. IsFiniteSet(Open) /\ Open # {}
    BY <2>1, FS_Subset DEF Open, Bounds
  <2>3. Cardinality(Open) \in Nat /\ Cardinality(Open) # 0
    BY <2>2, FS_CardinalityType, FS_EmptySet
  <2>4. QED
    BY <1>1, <1>4, <2>3 DEF Room, ReadersInv, Bounds
<1>7. TypeOK'
  BY <1>3, <1>4, <1>6 DEF ReadersInv, TypeOK, EndsWith
<1>8. RunsDated'
  <2>1. ASSUME NEW i \in DOMAIN runs'
        PROVE  runs'[i].start <= runs'[i].done /\ (runs'[i].status = "SUCCESS" => runs'[i].issues = {})
    <3>1. CASE i = Len(runs) + 1
      BY <3>1, <1>4 DEF EndsWith
    <3>2. CASE i \in 1 .. Len(runs)
      BY <3>2, <1>4 DEF ReadersInv, RunsDated
    <3>3. QED
      BY <1>1, <1>4, <3>1, <3>2
  <2>2. QED
    BY <2>1 DEF RunsDated
<1>9. SyncsDated'
  BY <1>3 DEF SyncsDated, ReadersInv, EndsWith, Idle
<1>10. ReasonsKept' /\ LeaseHeld'
  BY DEF ReadersInv, ReasonsKept, LeaseHeld, EndsWith
<1>11. QED
  BY <1>5, <1>7, <1>8, <1>9, <1>10 DEF ReadersInv

LEMMA CommandKeeps ==
  ASSUME Bounds, ReadersInv, Command
  PROVE  ReadersInv'
<1>1. /\ exec \in [live : BOOLEAN, gate : BOOLEAN, status : Statuses, kill : BOOLEAN,
                   reason : BOOLEAN, degraded : BOOLEAN]
      /\ ReasonsKept
  BY DEF ReadersInv, TypeOK
<1>2. /\ exec' \in [live : BOOLEAN, gate : BOOLEAN, status : Statuses, kill : BOOLEAN,
                    reason : BOOLEAN, degraded : BOOLEAN]
      /\ ReasonsKept'
  <2>1. CASE exec' = [exec EXCEPT !.status = IF exec.kill THEN "KILL_SWITCHED" ELSE "PAUSED",
                                  !.reason = TRUE]
    BY <1>1, <2>1 DEF ReasonsKept, Statuses
  <2>2. CASE exec' = Resumed(exec)
    BY <1>1, <2>2 DEF ReasonsKept, Statuses, Resumed, ResumedStatus
  <2>3. CASE exec' = [exec EXCEPT !.status = "KILL_SWITCHED", !.kill = TRUE, !.reason = TRUE]
    BY <1>1, <2>3 DEF ReasonsKept, Statuses
  <2>4. CASE exec' = [exec EXCEPT !.status = IF exec.kill THEN "KILL_SWITCHED"
                                             ELSE IF exec.status = "PAUSED" THEN "PAUSED"
                                             ELSE "DEGRADED",
                                  !.degraded = TRUE]
    BY <1>1, <2>4 DEF ReasonsKept, Statuses
  <2>5. CASE exec' = [exec EXCEPT !.status = IF exec.status = "DEGRADED" THEN "RUNNING" ELSE exec.status,
                                  !.degraded = FALSE]
    BY <1>1, <2>5 DEF ReasonsKept, Statuses
  <2>6. QED
    BY <2>1, <2>2, <2>3, <2>4, <2>5, Zenon DEF Command
<1>3. UNCHANGED <<config, now, runs, balance, position, sync, submitting, lease, active,
                  ticks, riskBlock, pending, setBacks>>
  BY DEF Command
<1>4. commands' \in 0 .. MaxCommands
  BY DEF Command, ReadersInv, TypeOK, Bounds
<1>5. TypeOK'
  BY <1>2, <1>3, <1>4 DEF ReadersInv, TypeOK
<1>6. Room' /\ RunsDated' /\ SyncsDated'
  BY <1>3, EvidenceKept DEF ReadersInv
<1>7. QED
  BY <1>2, <1>3, <1>5, <1>6 DEF ReadersInv, LeaseHeld

LEMMA SubmissionKeeps ==
  ASSUME Bounds, ReadersInv, Submit \/ Submitted \/ Dies \/ OrderCloses
  PROVE  ReadersInv'
<1>1. UNCHANGED <<config, now, exec, runs, balance, position, sync, ticks, riskBlock, pending,
                  commands, setBacks>>
  BY DEF Submit, Submitted, Dies, OrderCloses
<1>2. submitting' \in BOOLEAN /\ active' \in BOOLEAN
  BY DEF Submit, Submitted, Dies, OrderCloses, ReadersInv, TypeOK
<1>3. lease' \in Nat \cup {Never}
  BY DEF Submit, Submitted, Dies, OrderCloses, ReadersInv, TypeOK, Instant, Bounds
<1>4. TypeOK'
  BY <1>1, <1>2, <1>3 DEF ReadersInv, TypeOK
<1>5. LeaseHeld'
  <2>1. CASE Submit
    <3>1. lease' = now + LeaseTtl /\ now \in Nat /\ LeaseTtl \in Nat
      BY <2>1 DEF Submit, ReadersInv, TypeOK, Instant, Bounds
    <3>2. QED
      BY <3>1 DEF LeaseHeld, Never
  <2>2. CASE Submitted \/ Dies
    BY <2>2 DEF Submitted, Dies, LeaseHeld
  <2>3. CASE OrderCloses
    BY <2>3 DEF OrderCloses, LeaseHeld, ReadersInv
  <2>4. QED
    BY <2>1, <2>2, <2>3
<1>6. Room' /\ RunsDated' /\ SyncsDated'
  BY <1>1, EvidenceKept DEF ReadersInv
<1>7. QED
  BY <1>1, <1>4, <1>5, <1>6 DEF ReadersInv, ReasonsKept

LEMMA TicksKeep ==
  ASSUME Bounds, ReadersInv,
         \/ \E m \in Markets : TickBegins(m)
         \/ \E i \in DOMAIN ticks : TickEnds(i)
         \/ Reports
  PROVE  ReadersInv'
<1>1. UNCHANGED <<config, now, exec, runs, balance, position, sync, submitting, lease, active,
                  commands, setBacks>>
  BY DEF TickBegins, TickEnds, Reports
<1>2. riskBlock' \in BOOLEAN /\ pending' \in BOOLEAN
  BY DEF TickBegins, TickEnds, Reports, ReadersInv, TypeOK
<1>3. ticks' \in Seq(Tick) /\ Len(ticks') <= MaxTicks
  <2>0. ticks \in Seq(Tick) /\ Len(ticks) <= MaxTicks /\ Len(ticks) \in Nat /\ MaxTicks \in Nat
    BY DEF ReadersInv, TypeOK, Bounds
  <2>1. ASSUME NEW m \in Markets, TickBegins(m) PROVE ticks' \in Seq(Tick) /\ Len(ticks') <= MaxTicks
    <3>1. [market |-> m, status |-> "RUNNING", order |-> "none"] \in Tick
      BY DEF Tick
    <3>2. QED
      BY <2>0, <2>1, <3>1 DEF TickBegins
  <2>2. ASSUME NEW i \in DOMAIN ticks, TickEnds(i) PROVE ticks' \in Seq(Tick) /\ Len(ticks') <= MaxTicks
    <3>1. PICK s \in {"COMPLETED", "FAILED"}, o \in {"none", "open", "filled"} :
            ticks' = [ticks EXCEPT ![i] = [@ EXCEPT !.status = s, !.order = o]]
      BY <2>2 DEF TickEnds
    <3>2. ticks[i] \in Tick
      BY <2>0
    <3>3. [ticks[i] EXCEPT !.status = s, !.order = o] \in Tick
      BY <3>2 DEF Tick
    <3>4. QED
      BY <2>0, <3>1, <3>3
  <2>3. CASE Reports
    BY <2>0, <2>3 DEF Reports
  <2>4. QED
    BY <2>1, <2>2, <2>3
<1>4. TypeOK'
  BY <1>1, <1>2, <1>3 DEF ReadersInv, TypeOK
<1>5. Room' /\ RunsDated' /\ SyncsDated'
  BY <1>1, EvidenceKept DEF ReadersInv
<1>6. QED
  BY <1>1, <1>4, <1>5 DEF ReadersInv, ReasonsKept, LeaseHeld

LEMMA ClockKeeps ==
  ASSUME Bounds, ReadersInv, ClockTicks \/ ClockSetBack
  PROVE  ReadersInv'
<1>1. UNCHANGED <<config, exec, runs, balance, position, sync, submitting, lease, active,
                  ticks, riskBlock, pending, commands>>
  BY DEF ClockTicks, ClockSetBack
<1>2. now' \in Instant /\ setBacks' \in 0 .. MaxSetBacks
  BY DEF ClockTicks, ClockSetBack, ReadersInv, TypeOK, Instant, Bounds
<1>3. TypeOK'
  BY <1>1, <1>2 DEF ReadersInv, TypeOK
<1>4. SyncsDated'
  <2>1. CASE ClockTicks
    <3>1. now' = now + 1 /\ now \in Int
      BY <2>1 DEF ClockTicks, ReadersInv, TypeOK, Instant, Bounds
    <3>2. ASSUME NEW s \in Syncs, sync[s] # Idle PROVE sync[s].at \in Instant /\ sync[s].at <= now'
      <4>1. sync[s].at \in Instant /\ sync[s].at <= now
        BY <3>2 DEF ReadersInv, SyncsDated
      <4>2. QED
        BY <3>1, <4>1 DEF Instant, Bounds
    <3>3. QED
      BY <1>1, <3>2 DEF ReadersInv, SyncsDated
  <2>2. CASE ClockSetBack
    BY <1>1, <2>2 DEF ClockSetBack, ReadersInv, SyncsDated
  <2>3. QED
    BY <2>1, <2>2
<1>5. Room'
  <2>1. Open' = Open
    BY <1>1 DEF Open
  <2>2. QED
    BY <1>1, <2>1 DEF Room, ReadersInv
<1>6. QED
  BY <1>1, <1>3, <1>4, <1>5 DEF ReadersInv, ReasonsKept, LeaseHeld, RunsDated

LEMMA ReadersStep ==
  ASSUME Bounds, ReadersInv, [Next]_vars
  PROVE  ReadersInv'
<1>1. CASE UNCHANGED vars
  <2>1. UNCHANGED <<config, now, exec, runs, balance, position, sync, submitting, lease, active,
                    ticks, riskBlock, pending, commands, setBacks>>
    BY <1>1, Zenon DEF vars
  <2>2. Room' /\ RunsDated' /\ SyncsDated'
    BY <2>1, EvidenceKept DEF ReadersInv
  <2>3. QED
    BY <2>1, <2>2 DEF ReadersInv, TypeOK, ReasonsKept, LeaseHeld
<1>2. ASSUME NEW s \in Syncs, SyncBegin(s) PROVE ReadersInv'
  BY <1>2, BeginKeeps
<1>3. ASSUME NEW s \in Syncs, SyncSavesBalance(s) \/ SyncSavesPosition(s) PROVE ReadersInv'
  BY <1>3, SaveKeeps
<1>4. ASSUME NEW s \in Syncs, SyncFails(s) \/ \E issues \in SUBSET Kinds : SyncComplete(s, issues)
      PROVE  ReadersInv'
  BY <1>4, SyncEnds, EndKeeps
<1>5. ASSUME Command PROVE ReadersInv'
  BY <1>5, CommandKeeps
<1>6. ASSUME Submit \/ Submitted \/ Dies \/ OrderCloses PROVE ReadersInv'
  BY <1>6, SubmissionKeeps
<1>7. ASSUME \/ \E m \in Markets : TickBegins(m)
             \/ \E i \in DOMAIN ticks : TickEnds(i)
             \/ Reports
      PROVE  ReadersInv'
  BY <1>7, TicksKeep
<1>8. ASSUME ClockTicks \/ ClockSetBack PROVE ReadersInv'
  BY <1>8, ClockKeeps
<1>9. QED
  BY <1>1, <1>2, <1>3, <1>4, <1>5, <1>6, <1>7, <1>8, Zenon DEF Next

-----------------------------------------------------------------------------
(***************************************************************************)
(* What the readers may conclude                                           *)
(***************************************************************************)

LEMMA LeaseConsequence ==
  ASSUME ReadersInv
  PROVE  LeasePassMeansNoSubmission
BY DEF ReadersInv, LeaseHeld, LeasePassMeansNoSubmission, PilotLease

\* The two reconciliation checks pass for the same history: the latest run is clean and fresh.
LEMMA ReconciliationsAgree ==
  ASSUME Bounds, ReadersInv
  PROVE  LiveReconciliation = "PASS" <=> PreflightReconciliation = "PASS"
<1>1. CASE Missing
  BY <1>1 DEF LiveReconciliation, PreflightReconciliation
<1>2. CASE ~Missing
  <2>1. PICK k : LatestIs(k)
    BY <1>2, LatestExists DEF Missing, ReadersInv, TypeOK, Bounds
  <2> DEFINE r == LatestRun
  <2>2. /\ r.start <= r.done /\ (r.status = "SUCCESS" => r.issues = {})
        /\ r.start \in Int /\ r.done \in Int /\ r.done # Never
    <3>1. k \in DOMAIN runs /\ LatestRun = runs[k]
      BY <2>1 DEF LatestIs
    <3>2. runs[k] \in Run
      BY <3>1 DEF ReadersInv, TypeOK
    <3>3. runs[k].start \in Int /\ runs[k].done \in Int /\ runs[k].done # Never
      BY <3>2 DEF Run, Instant, Never, Bounds
    <3>4. QED
      BY <3>1, <3>3 DEF ReadersInv, RunsDated
  <2>3. now \in Int /\ MaxAge \in Nat
    BY DEF ReadersInv, TypeOK, Instant, Bounds
  <2>4. Freshness(r.done) = "fresh" => r.done <= now
    BY <2>2, <2>3 DEF Freshness
  <2> HIDE DEF r
  <2>5. LiveReconciliation = "PASS" <=> (r.status = "SUCCESS" /\ r.issues = {} /\ Freshness(r.done) = "fresh")
    <3>1. LiveReconciliation = IF "blocking" \in r.issues THEN "BLOCK"
                               ELSE IF LiveFreshness(r.done) = "BLOCK" THEN "BLOCK"
                               ELSE IF r.status # "SUCCESS" THEN "WARN"
                               ELSE LiveFreshness(r.done)
      BY <1>2 DEF LiveReconciliation, r
    <3>2. QED
      BY <2>2, <3>1 DEF LiveFreshness
  <2>6. PreflightReconciliation = "PASS" <=> (r.status = "SUCCESS" /\ r.issues = {} /\ Freshness(r.done) = "fresh")
    <3>1. PreflightReconciliation =
            IF r.start > r.done \/ r.start > now \/ r.done > now THEN "BLOCK"
            ELSE IF PreflightFreshness(r.done) = "BLOCK" THEN "BLOCK"
            ELSE IF r.status = "SUCCESS" THEN Blocks(r.issues = {})
            ELSE IF r.status # "DRIFT_DETECTED" THEN "BLOCK"
            ELSE IF r.issues = {} THEN "BLOCK"
            ELSE IF "blocking" \in r.issues THEN "BLOCK"
            ELSE "WARN"
      BY <1>2 DEF PreflightReconciliation, r
    <3>2. PreflightFreshness(r.done) = IF Freshness(r.done) = "fresh" THEN "PASS" ELSE "BLOCK"
      BY DEF PreflightFreshness, Blocks
    <3>3. Blocks(r.issues = {}) = IF r.issues = {} THEN "PASS" ELSE "BLOCK"
      BY DEF Blocks
    <3>4. QED
      BY <2>2, <2>3, <2>4, <3>1, <3>2, <3>3
  <2>7. QED
    BY <2>5, <2>6
<1>3. QED
  BY <1>1, <1>2

LEMMA ReadersAgree ==
  ASSUME Bounds, ReadersInv
  PROVE  LiveReadersAgree
<1>1. SUFFICES ASSUME config.live, ~config.scheduler, SeedMatches
               PROVE  LiveReadiness = "PASS" <=> SchedulerSmoke = "PASS"
  BY DEF LiveReadersAgree
<1>2. /\ config \in [live : BOOLEAN, gate : BOOLEAN, creds : BOOLEAN, scheduler : BOOLEAN, kill : BOOLEAN]
      /\ exec \in [live : BOOLEAN, gate : BOOLEAN, status : Statuses, kill : BOOLEAN,
                   reason : BOOLEAN, degraded : BOOLEAN]
      /\ active \in BOOLEAN
  BY DEF ReadersInv, TypeOK, Bounds
<1>3. LiveReadiness = "PASS" <=> \A c \in DOMAIN LiveChecks : LiveChecks[c] = "PASS"
  BY LiveGrades, SummaryPasses DEF LiveReadiness
<1>4. SchedulerSmoke = "PASS" <=> \A c \in DOMAIN PreflightChecks : PreflightChecks[c] = "PASS"
  <2>1. SchedulerSmoke = "PASS" <=> \A c \in DOMAIN SmokeChecks : SmokeChecks[c] = "PASS"
    BY SmokeGrades, SummaryPasses DEF SchedulerSmoke
  <2>2. SmokeChecks["live_mode"] = "PASS" /\ SmokeChecks["preflight_scope"] = "PASS"
    BY <1>1 DEF SmokeChecks, Blocks
  <2>3. SmokeChecks["scheduler_startup_preflight"] = Summary(PreflightChecks)
    BY <1>1 DEF SmokeChecks, StartupPreflight, AssumedEnabled, Summary
  <2>4. Summary(PreflightChecks) = "PASS" <=> \A c \in DOMAIN PreflightChecks : PreflightChecks[c] = "PASS"
    BY PreflightGrades, SummaryPasses
  <2>5. QED
    BY <2>1, <2>2, <2>3, <2>4, SmokeGrades
<1> DEFINE common == /\ config.gate /\ config.creds /\ LivePath /\ ~active
                     /\ Freshness(balance) = "fresh" /\ Freshness(position) = "fresh"
                     /\ PreflightReconciliation = "PASS"
<1>5. LiveRunnable <=> PreflightRunnable
  <2>1. exec.status = "RUNNING" => ~exec.reason
    BY <1>2 DEF ReadersInv, ReasonsKept
  <2>2. QED
    BY <2>1 DEF LiveRunnable, PreflightRunnable
<1>6. (\A c \in DOMAIN LiveChecks : LiveChecks[c] = "PASS") <=> common /\ LiveRunnable
  <2>1. \A t : LiveFreshness(t) = "PASS" <=> Freshness(t) = "fresh"
    BY DEF LiveFreshness
  <2>2. (\A c \in DOMAIN LiveChecks : LiveChecks[c] = "PASS")
          <=> /\ Blocks(config.live) = "PASS" /\ Blocks(config.gate) = "PASS"
              /\ Blocks(config.creds) = "PASS" /\ Blocks(LivePath) = "PASS"
              /\ Blocks(~config.scheduler) = "PASS" /\ Blocks(LiveRunnable) = "PASS"
              /\ Blocks(SeedMatches) = "PASS"
              /\ LiveFreshness(balance) = "PASS" /\ LiveFreshness(position) = "PASS"
              /\ LiveReconciliation = "PASS" /\ Blocks(~active) = "PASS"
    BY LiveGrades DEF LiveChecks
  <2>3. /\ Blocks(config.live) = "PASS" /\ Blocks(~config.scheduler) = "PASS"
        /\ Blocks(SeedMatches) = "PASS" /\ (Blocks(config.gate) = "PASS" <=> config.gate)
        /\ (Blocks(config.creds) = "PASS" <=> config.creds) /\ (Blocks(LivePath) = "PASS" <=> LivePath)
        /\ (Blocks(LiveRunnable) = "PASS" <=> LiveRunnable) /\ (Blocks(~active) = "PASS" <=> ~active)
    BY <1>1, <1>2 DEF Blocks
  <2>4. QED
    BY <2>1, <2>2, <2>3, ReconciliationsAgree
<1>7. (\A c \in DOMAIN PreflightChecks : PreflightChecks[c] = "PASS") <=> common /\ PreflightRunnable
  <2>1. \A t : PreflightFreshness(t) = "PASS" <=> Freshness(t) = "fresh"
    BY DEF PreflightFreshness, Blocks
  <2>2. (\A c \in DOMAIN PreflightChecks : PreflightChecks[c] = "PASS")
          <=> /\ Blocks(config.gate) = "PASS" /\ Blocks(LivePath) = "PASS"
              /\ Blocks(PreflightRunnable) = "PASS" /\ Blocks(config.creds) = "PASS"
              /\ PreflightFreshness(balance) = "PASS" /\ PreflightFreshness(position) = "PASS"
              /\ PreflightReconciliation = "PASS" /\ Blocks(~active) = "PASS"
    BY PreflightGrades DEF PreflightChecks
  <2>3. /\ (Blocks(config.gate) = "PASS" <=> config.gate)
        /\ (Blocks(config.creds) = "PASS" <=> config.creds) /\ (Blocks(LivePath) = "PASS" <=> LivePath)
        /\ (Blocks(PreflightRunnable) = "PASS" <=> PreflightRunnable)
        /\ (Blocks(~active) = "PASS" <=> ~active)
    BY <1>2 DEF Blocks
  <2>4. QED
    BY <2>1, <2>2, <2>3
<1>8. QED
  BY <1>3, <1>4, <1>5, <1>6, <1>7

-----------------------------------------------------------------------------
(***************************************************************************)
(* One sync at a time                                                      *)
(***************************************************************************)

OneSync == \A s, t \in Syncs : s = t

\* A step, by what it does to the evidence.
LEMMA StepKinds ==
  ASSUME Bounds, ReadersInv, [Next]_vars
  PROVE  \/ \E s \in Syncs : SyncBegin(s)
         \/ \E s \in Syncs : SyncSavesBalance(s) \/ SyncSavesPosition(s)
         \/ \E s \in Syncs, run \in Run : EndsWith(s, run)
         \/ UNCHANGED <<runs, sync, balance, position, now, setBacks>>
         \/ UNCHANGED <<runs, sync, balance, position, setBacks>> /\ now' = now + 1
         \/ ClockSetBack
<1>1. CASE \E s \in Syncs : \/ SyncBegin(s) \/ SyncSavesBalance(s) \/ SyncSavesPosition(s)
                            \/ SyncFails(s)
                            \/ \E issues \in SUBSET Kinds : SyncComplete(s, issues)
  <2>1. PICK s \in Syncs : \/ SyncBegin(s) \/ SyncSavesBalance(s) \/ SyncSavesPosition(s)
                           \/ SyncFails(s)
                           \/ \E issues \in SUBSET Kinds : SyncComplete(s, issues)
    BY <1>1, Zenon
  <2>2. ASSUME SyncFails(s) \/ \E issues \in SUBSET Kinds : SyncComplete(s, issues)
        PROVE  \E run \in Run : EndsWith(s, run)
    <3>1. PICK run : EndsWith(s, run)
      BY <2>2, SyncEnds
    <3>2. run \in Run
      BY <3>1 DEF EndsWith
    <3>3. QED
      BY <3>1, <3>2
  <2>3. QED
    BY <2>1, <2>2, Zenon
<1>2. CASE Command
  BY <1>2, Zenon DEF Command
<1>3. CASE Submit \/ Submitted \/ Dies \/ OrderCloses
  BY <1>3, Zenon DEF Submit, Submitted, Dies, OrderCloses
<1>4. CASE \E m \in Markets : TickBegins(m)
  BY <1>4, Zenon DEF TickBegins
<1>5. CASE \E i \in DOMAIN ticks : TickEnds(i)
  BY <1>5, Zenon DEF TickEnds
<1>6. CASE Reports
  BY <1>6, Zenon DEF Reports
<1>7. CASE ClockTicks
  BY <1>7, Zenon DEF ClockTicks
<1>8. CASE UNCHANGED vars
  BY <1>8, Zenon DEF vars
<1>9. QED
  BY <1>1, <1>2, <1>3, <1>4, <1>5, <1>6, <1>7, <1>8, Zenon DEF Next

\* What a snapshot's step leaves of the sync.
LEMMA SaveSets ==
  ASSUME ReadersInv, NEW s \in Syncs, SyncSavesBalance(s) \/ SyncSavesPosition(s)
  PROVE  /\ sync'[s].at = sync[s].at /\ sync'[s].clock = sync[s].clock
         /\ sync[s].step \in {"requested", "valued"}
         /\ sync[s].step = "requested" => sync'[s].step = "valued"
         /\ sync[s].step = "valued" => sync'[s].step = "saved"
         /\ sync[s] # Idle
         /\ \A t \in Syncs \ {s} : sync'[t] = sync[t]
<1>1. sync \in [Syncs -> [at : Instant \cup {Never}, step : {"idle", "requested", "valued", "saved"},
                          clock : BOOLEAN]]
  BY DEF ReadersInv, TypeOK
<1>2. CASE SyncSavesBalance(s)
  BY <1>1, <1>2 DEF SyncSavesBalance, Idle
<1>3. CASE SyncSavesPosition(s)
  BY <1>1, <1>3 DEF SyncSavesPosition, Idle
<1>4. QED
  BY <1>2, <1>3

\* As long as the clock is never set back, runs follow each other.
Ordered ==
  /\ \A i, j \in DOMAIN runs : i < j => runs[i].done < runs[j].start
  /\ \A i \in DOMAIN runs : runs[i].done <= now
  /\ \A s \in Syncs, i \in DOMAIN runs : sync[s] # Idle => runs[i].done < sync[s].at

LEMMA OrderedInit ==
  ASSUME Init
  PROVE  Ordered
BY DEF Init, Ordered

LEMMA EndAppends ==
  ASSUME ReadersInv, NEW s \in Syncs, NEW run, EndsWith(s, run)
  PROVE  /\ Len(runs) \in Nat
         /\ Len(runs') = Len(runs) + 1
         /\ DOMAIN runs' = 1 .. Len(runs) + 1 /\ DOMAIN runs = 1 .. Len(runs)
         /\ runs'[Len(runs) + 1] = run
         /\ \A i \in 1 .. Len(runs) : runs'[i] = runs[i]
         /\ sync'[s] = Idle
<1>1. runs \in Seq(Run) /\ runs' = Append(runs, run) /\ run \in Run
  BY DEF ReadersInv, TypeOK, EndsWith
<1>2. sync \in [Syncs -> [at : Instant \cup {Never}, step : {"idle", "requested", "valued", "saved"},
                          clock : BOOLEAN]]
  BY DEF ReadersInv, TypeOK
<1>3. sync'[s] = Idle
  BY <1>2 DEF EndsWith
<1>4. QED
  BY <1>1, <1>3

LEMMA RunTypes ==
  ASSUME Bounds, ReadersInv
  PROVE  /\ now \in Int /\ balance \in Int /\ position \in Int
         /\ \A i \in DOMAIN runs : runs[i].start \in Int /\ runs[i].done \in Int
         /\ \A s \in Syncs : sync[s].at \in Int
<1>1. now \in Int /\ balance \in Int /\ position \in Int
  BY DEF ReadersInv, TypeOK, Instant, Bounds, Never
<1>2. \A i \in DOMAIN runs : runs[i] \in Run
  BY DEF ReadersInv, TypeOK
<1>3. \A i \in DOMAIN runs : runs[i].start \in Int /\ runs[i].done \in Int
  BY <1>2 DEF Run, Instant, Bounds
<1>4. \A s \in Syncs : sync[s].at \in Instant \cup {Never}
  BY DEF ReadersInv, TypeOK
<1>5. QED
  BY <1>1, <1>3, <1>4 DEF Instant, Never, Bounds

LEMMA OrderedKept ==
  ASSUME Bounds, OneSync, MaxSetBacks = 0, ReadersInv, Ordered, [Next]_vars
  PROVE  Ordered'
<1>0. setBacks = 0
  BY DEF ReadersInv, TypeOK
<1>1. ASSUME NEW s \in Syncs, SyncBegin(s) PROVE Ordered'
  <2>1. UNCHANGED <<runs, now>> /\ \A i \in DOMAIN runs : runs[i].done < now
    <3>1. UNCHANGED <<runs, now>> /\ \A i \in DOMAIN runs : setBacks > 0 \/ runs[i].done < now
      BY <1>1, Zenon DEF SyncBegin
    <3>2. QED
      BY <1>0, <3>1
  <2>2. PICK b \in BOOLEAN : sync' = [sync EXCEPT ![s] = [at |-> now, step |-> "requested", clock |-> b]]
    BY <1>1, BeginSets, Zenon
  <2>3. sync'[s].at = now
    BY <2>2 DEF ReadersInv, TypeOK
  <2>4. QED
    BY <2>1, <2>3 DEF Ordered, OneSync
<1>2. ASSUME NEW s \in Syncs, SyncSavesBalance(s) \/ SyncSavesPosition(s) PROVE Ordered'
  <2>1. UNCHANGED <<runs, now>>
    BY <1>2 DEF SyncSavesBalance, SyncSavesPosition
  <2>2. sync'[s].at = sync[s].at /\ sync[s] # Idle
    BY <1>2, SaveSets
  <2>3. QED
    BY <2>1, <2>2 DEF Ordered, OneSync
<1>3. ASSUME NEW s \in Syncs, NEW run \in Run, EndsWith(s, run) PROVE Ordered'
  <2>1. /\ Len(runs) \in Nat
        /\ DOMAIN runs' = 1 .. Len(runs) + 1 /\ DOMAIN runs = 1 .. Len(runs)
        /\ runs'[Len(runs) + 1] = run
        /\ \A i \in 1 .. Len(runs) : runs'[i] = runs[i]
        /\ sync'[s] = Idle
    BY <1>3, EndAppends
  <2>2. now' = now /\ run.done <= now /\ run.start = sync[s].at /\ sync[s] # Idle
    BY <1>3 DEF EndsWith
  <2>3. \A i \in 1 .. Len(runs) : runs[i].done < run.start
    BY <2>1, <2>2 DEF Ordered
  <2>4. \A i, j \in DOMAIN runs' : i < j => runs'[i].done < runs'[j].start
    <3>1. ASSUME NEW i \in DOMAIN runs', NEW j \in DOMAIN runs', i < j
          PROVE  runs'[i].done < runs'[j].start
      <4>1. i \in 1 .. Len(runs) /\ runs'[i] = runs[i]
        BY <2>1, <3>1
      <4>2. CASE j = Len(runs) + 1
        BY <2>1, <2>3, <4>1, <4>2
      <4>3. CASE j \in 1 .. Len(runs)
        BY <2>1, <3>1, <4>1, <4>3 DEF Ordered
      <4>4. QED
        BY <2>1, <4>2, <4>3
    <3>2. QED
      BY <3>1
  <2>5. \A i \in DOMAIN runs' : runs'[i].done <= now'
    <3>1. ASSUME NEW i \in DOMAIN runs' PROVE runs'[i].done <= now'
      <4>1. CASE i = Len(runs) + 1
        BY <2>1, <2>2, <4>1
      <4>2. CASE i \in 1 .. Len(runs)
        BY <2>1, <2>2, <4>2 DEF Ordered
      <4>3. QED
        BY <2>1, <4>1, <4>2
    <3>2. QED
      BY <3>1
  <2>6. \A t \in Syncs : sync'[t] = Idle
    BY <2>1 DEF OneSync
  <2>7. QED
    BY <2>4, <2>5, <2>6 DEF Ordered
<1>4. CASE UNCHANGED <<runs, sync, balance, position, now, setBacks>>
  BY <1>4 DEF Ordered
<1>5. CASE UNCHANGED <<runs, sync, balance, position, setBacks>> /\ now' = now + 1
  <2>1. \A i \in DOMAIN runs : runs[i].done <= now + 1
    BY RunTypes DEF Ordered
  <2>2. QED
    BY <1>5, <2>1 DEF Ordered
<1>6. CASE ClockSetBack
  BY <1>0, <1>6 DEF ClockSetBack
<1>7. QED
  BY <1>1, <1>2, <1>3, <1>4, <1>5, <1>6, StepKinds, Zenon

\* The run that completed last is the one that started last.
LEMMA PilotAndRuntime ==
  ASSUME Bounds, ReadersInv, Ordered
  PROVE  CleanForPilotIsCleanForRuntime
<1>1. SUFFICES ASSUME "PASS" \in PilotReconciliation PROVE PreflightReconciliation = "PASS"
  BY DEF CleanForPilotIsCleanForRuntime
<1>2. ~Missing
  BY <1>1 DEF PilotReconciliation
<1>3. PICK i \in PilotLatest : PilotClass(runs[i]) = "PASS"
  BY <1>1, <1>2 DEF PilotReconciliation
<1>4. i \in DOMAIN runs /\ \A j \in DOMAIN runs : runs[j].done <= runs[i].done
  BY <1>3 DEF PilotLatest
<1>5. /\ Freshness(runs[i].done) = "fresh"
      /\ runs[i].status = "SUCCESS" /\ runs[i].issues = {}
  BY <1>3 DEF PilotClass, PilotFreshness, Blocks
<1>6. PICK k : LatestIs(k)
  BY <1>2, LatestExists DEF Missing, ReadersInv, TypeOK, Bounds
<1>7. k \in DOMAIN runs /\ LatestRun = runs[k] /\ Newer(k, i)
  BY <1>4, <1>6 DEF LatestIs
<1>8. DOMAIN runs \subseteq Int
  BY DEF ReadersInv, TypeOK
<1>9. i = k
  <2>1. /\ runs[k].done <= runs[i].done
        /\ runs[k].start <= runs[k].done /\ runs[i].start <= runs[i].done
        /\ runs[k].start \in Int /\ runs[k].done \in Int /\ runs[i].start \in Int /\ runs[i].done \in Int
    BY <1>4, <1>7, RunTypes DEF ReadersInv, RunsDated
  <2>2. ~(i < k)
    <3>1. i < k => runs[i].done < runs[k].start
      BY <1>4, <1>7 DEF Ordered
    <3>2. QED
      BY <2>1, <3>1
  <2>3. ~(k < i)
    <3>1. k < i => runs[k].done < runs[i].start
      BY <1>4, <1>7 DEF Ordered
    <3>2. QED
      BY <1>7, <1>8, <2>1, <3>1 DEF Newer
  <2>4. QED
    BY <1>4, <1>7, <1>8, <2>2, <2>3
<1>10. LiveReconciliation = "PASS"
  BY <1>2, <1>5, <1>7, <1>9 DEF LiveReconciliation, LiveFreshness
<1>11. QED
  BY <1>10, ReconciliationsAgree

\* What a sync that was not sent to the clock finds: nothing dated later than its request.
Advised ==
  \A s \in Syncs : (sync[s] # Idle /\ ~sync[s].clock) =>
    /\ balance <= sync[s].at /\ position <= sync[s].at
    /\ \A i \in DOMAIN runs : runs[i].start <= sync[s].at
    /\ sync[s].step \in {"valued", "saved"} => balance = sync[s].at
    /\ sync[s].step = "saved" => position = sync[s].at

LEMMA AdvisedInit ==
  ASSUME Init
  PROVE  Advised
BY DEF Init, Advised

\* Without the advice to look at the clock, no evidence is dated later than now.
LEMMA NothingAhead ==
  ASSUME Bounds, ReadersInv, Uncomparable = {}
  PROVE  /\ balance <= now /\ position <= now
         /\ \A i \in DOMAIN runs : runs[i].start <= now
<1>1. Uncomparable = {}
  OBVIOUS
<1>2. now \in Nat /\ balance \in Int /\ position \in Int
  BY DEF ReadersInv, TypeOK, Instant, Bounds, Never
<1>3. Freshness(balance) # "future" /\ Freshness(position) # "future"
  BY <1>1 DEF Uncomparable, HealthChecks
<1>4. balance <= now /\ position <= now
  BY <1>2, <1>3 DEF Freshness, Never
<1>5. ASSUME NEW i \in DOMAIN runs PROVE runs[i].start <= now
  <2>1. ~Missing
    BY <1>5 DEF Missing
  <2>2. PICK k : LatestIs(k)
    BY <2>1, LatestExists DEF Missing, ReadersInv, TypeOK, Bounds
  <2>3. k \in DOMAIN runs /\ LatestRun = runs[k] /\ Newer(k, i)
    BY <1>5, <2>2 DEF LatestIs
  <2>4. /\ runs[k].start <= runs[k].done
        /\ runs[k].start \in Int /\ runs[k].done \in Int /\ runs[i].start \in Int
    BY <1>5, <2>3, RunTypes DEF ReadersInv, RunsDated
  <2>5. Freshness(runs[k].done) # "future"
    BY <1>1, <2>1, <2>3 DEF Uncomparable, HealthChecks
  <2>6. runs[k].done <= now
    BY <1>2, <2>4, <2>5 DEF Freshness, Never
  <2>7. QED
    BY <1>2, <2>3, <2>4, <2>6 DEF Newer
<1>6. QED
  BY <1>4, <1>5

LEMMA AdvisedKept ==
  ASSUME Bounds, OneSync, ReadersInv, Advised, [Next]_vars
  PROVE  Advised'
<1>1. ASSUME NEW s \in Syncs, SyncBegin(s) PROVE Advised'
  <2>1. UNCHANGED <<runs, now, balance, position>>
    BY <1>1, Zenon DEF SyncBegin
  <2>2. PICK b \in BOOLEAN :
          /\ b = ("investigate clock" \in LiveActions)
          /\ sync' = [sync EXCEPT ![s] = [at |-> now, step |-> "requested", clock |-> b]]
    BY <1>1, BeginSets, Zenon
  <2>3. sync'[s].at = now /\ sync'[s].step = "requested" /\ sync'[s].clock = b
    <3>1. sync' = [sync EXCEPT ![s] = [at |-> now, step |-> "requested", clock |-> b]]
      BY <2>2, Zenon
    <3>2. QED
      BY <3>1 DEF ReadersInv, TypeOK
  <2>4. ~b => Uncomparable = {}
    <3>1. Uncomparable # {} => "investigate clock" \in LiveActions
      BY DEF LiveActions
    <3>2. QED
      BY <2>2, <3>1, Zenon
  <2>5. ~b => /\ balance <= now /\ position <= now
              /\ \A i \in DOMAIN runs : runs[i].start <= now
    BY <2>4, NothingAhead
  <2>6. QED
    BY <2>1, <2>3, <2>5 DEF Advised, OneSync
<1>2. ASSUME NEW s \in Syncs, SyncSavesBalance(s) \/ SyncSavesPosition(s) PROVE Advised'
  <2>1. runs' = runs
    BY <1>2 DEF SyncSavesBalance, SyncSavesPosition
  <2>2. /\ sync'[s].at = sync[s].at /\ sync'[s].clock = sync[s].clock /\ sync[s] # Idle
        /\ sync[s].step \in {"requested", "valued"}
        /\ sync[s].step = "requested" => sync'[s].step = "valued"
        /\ sync[s].step = "valued" => sync'[s].step = "saved"
    BY <1>2, SaveSets
  <2>3. balance \in Int /\ position \in Int /\ sync[s].at \in Int
    BY RunTypes
  <2>4. CASE SyncSavesBalance(s)
    <3>1. /\ sync[s].step = "requested" /\ position' = position
          /\ balance' = IF balance > sync[s].at THEN balance ELSE sync[s].at
      BY <2>4 DEF SyncSavesBalance, Larger
    <3>2. QED
      BY <2>1, <2>2, <2>3, <3>1 DEF Advised, OneSync
  <2>5. CASE SyncSavesPosition(s)
    <3>1. /\ sync[s].step = "valued" /\ balance' = balance
          /\ position' = IF position > sync[s].at THEN position ELSE sync[s].at
      BY <2>5 DEF SyncSavesPosition, Larger
    <3>2. QED
      BY <2>1, <2>2, <2>3, <3>1 DEF Advised, OneSync
  <2>6. QED
    BY <1>2, <2>4, <2>5
<1>3. ASSUME NEW s \in Syncs, NEW run \in Run, EndsWith(s, run) PROVE Advised'
  <2>1. sync'[s] = Idle
    BY <1>3, EndAppends
  <2>2. QED
    BY <2>1 DEF Advised, OneSync
<1>4. CASE UNCHANGED <<runs, sync, balance, position, now, setBacks>>
  BY <1>4 DEF Advised
<1>5. CASE UNCHANGED <<runs, sync, balance, position, setBacks>> /\ now' = now + 1
  BY <1>5 DEF Advised
<1>6. CASE ClockSetBack
  BY <1>6 DEF ClockSetBack, Advised
<1>7. QED
  BY <1>1, <1>2, <1>3, <1>4, <1>5, <1>6, StepKinds, Zenon

\* Fresh snapshots and a last run that is clean, fresh and started last pass the checks.
Evident ==
  /\ Bounds /\ ReadersInv /\ runs # <<>>
  /\ Freshness(balance) = "fresh" /\ Freshness(position) = "fresh"
  /\ runs[Len(runs)].status = "SUCCESS" /\ Freshness(runs[Len(runs)].done) = "fresh"
  /\ \A i \in DOMAIN runs : runs[i].start <= runs[Len(runs)].start

LEMMA EvidencePasses == Evident => \A c \in HealthChecks : LiveChecks[c] = "PASS"
<1>1. SUFFICES ASSUME Evident PROVE \A c \in HealthChecks : LiveChecks[c] = "PASS"
  OBVIOUS
<1>2. Bounds /\ ReadersInv /\ runs # <<>> /\ runs \in Seq(Run) /\ MaxTime \in Nat
  BY <1>1 DEF Evident, ReadersInv, TypeOK, Bounds
<1>3. PICK k : LatestIs(k)
  BY <1>2, LatestExists
<1>4. Len(runs) \in DOMAIN runs /\ DOMAIN runs \subseteq 1 .. Len(runs) /\ Len(runs) \in Nat
  BY <1>2
<1>5. k \in DOMAIN runs /\ LatestRun = runs[k] /\ Newer(k, Len(runs))
  BY <1>3, <1>4 DEF LatestIs
<1>6. k = Len(runs)
  <2>1. runs[k].start <= runs[Len(runs)].start
    BY <1>1, <1>5 DEF Evident
  <2>2. runs[k].start \in Int /\ runs[Len(runs)].start \in Int
    BY <1>2, <1>4, <1>5, RunTypes
  <2>3. QED
    BY <1>4, <1>5, <2>1, <2>2 DEF Newer
<1>7. runs[k].issues = {}
  BY <1>1, <1>2, <1>5, <1>6 DEF Evident, ReadersInv, RunsDated
<1>8. LiveReconciliation = "PASS"
  BY <1>1, <1>2, <1>5, <1>6, <1>7 DEF LiveReconciliation, LiveFreshness, Evident, Missing
<1>9. LiveFreshness(balance) = "PASS" /\ LiveFreshness(position) = "PASS"
  BY <1>1 DEF LiveFreshness, Evident
<1>10. QED
  BY <1>8, <1>9, LiveGrades DEF HealthChecks

LEMMA EvidencePassesNext == Evident' => \A c \in HealthChecks : LiveChecks'[c] = "PASS"
<1>1. (Evident => \A c \in HealthChecks : LiveChecks[c] = "PASS")'
  BY EvidencePasses, PTL
<1>2. HealthChecks' = HealthChecks
  BY DEF HealthChecks
<1>3. QED
  BY <1>1, <1>2, Zenon

LEMMA AdviceConsequence ==
  ASSUME Bounds, OneSync, ReadersInv, Advised, [Next]_vars
  PROVE  SyncAdviceWorks
<1>1. SUFFICES ASSUME NEW s \in Syncs, sync[s].step = "saved", sync'[s] = Idle, runs' # runs,
                      runs'[Len(runs')].status = "SUCCESS", now - sync[s].at <= MaxAge,
                      ~sync[s].clock
               PROVE  \A c \in HealthChecks : LiveChecks'[c] = "PASS"
  BY Zenon DEF SyncAdviceWorks
<1>2. PICK run \in Run : EndsWith(s, run)
  <2>1. ASSUME NEW t \in Syncs, SyncBegin(t) PROVE runs' = runs
    BY <2>1, Zenon DEF SyncBegin
  <2>2. ASSUME NEW t \in Syncs, SyncSavesBalance(t) \/ SyncSavesPosition(t) PROVE runs' = runs
    BY <2>2, Zenon DEF SyncSavesBalance, SyncSavesPosition
  <2>3. CASE ClockSetBack
    BY <2>3, <1>1 DEF ClockSetBack
  <2>4. \E t \in Syncs, run \in Run : EndsWith(t, run)
    BY <1>1, <2>1, <2>2, <2>3, StepKinds, Zenon
  <2>5. QED
    BY <2>4, Zenon DEF OneSync
<1>3. ReadersInv'
  BY ReadersStep
<1>4. /\ Len(runs) \in Nat
      /\ Len(runs') = Len(runs) + 1
      /\ DOMAIN runs' = 1 .. Len(runs) + 1 /\ DOMAIN runs = 1 .. Len(runs)
      /\ runs'[Len(runs) + 1] = run
      /\ \A i \in 1 .. Len(runs) : runs'[i] = runs[i]
  BY <1>2, EndAppends
<1>5. /\ now' = now /\ balance' = balance /\ position' = position
      /\ run.start = sync[s].at /\ run.start <= run.done /\ run.done <= now /\ sync[s] # Idle
  BY <1>2 DEF EndsWith
<1>6. run.start \in Nat /\ run.done \in Nat /\ now \in Nat /\ MaxAge \in Nat
  BY DEF Run, Instant, Bounds, ReadersInv, TypeOK
<1>7. /\ balance = sync[s].at /\ position = sync[s].at
      /\ \A i \in DOMAIN runs : runs[i].start <= sync[s].at
  BY <1>1, <1>5 DEF Advised
<1>8. /\ Freshness(balance)' = "fresh" /\ Freshness(position)' = "fresh"
      /\ Freshness(runs[Len(runs)].done)' = "fresh"
  BY <1>1, <1>4, <1>5, <1>6, <1>7 DEF Freshness, Never
<1>9. \A i \in DOMAIN runs' : runs'[i].start <= runs'[Len(runs')].start
  <2>1. ASSUME NEW i \in DOMAIN runs' PROVE runs'[i].start <= run.start
    <3>1. CASE i = Len(runs) + 1
      BY <1>4, <1>6, <3>1
    <3>2. CASE i \in 1 .. Len(runs)
      BY <1>4, <1>5, <1>7, <3>2
    <3>3. QED
      BY <1>4, <3>1, <3>2
  <2>2. QED
    BY <1>4, <2>1
<1>10. runs' # <<>>
  BY <1>4
<1>11. Evident'
  BY <1>1, <1>3, <1>8, <1>9, <1>10 DEF Evident, Bounds
<1>12. QED
  BY <1>11, EvidencePassesNext

-----------------------------------------------------------------------------
(***************************************************************************)
(* Theorems                                                                *)
(***************************************************************************)

\* The inductive invariant: dated runs, dated open syncs with room for their runs, a reason
\* only with a stopped state, a row in the lease table for who submits.
THEOREM ReadersInvariant ==
  ASSUME Bounds
  PROVE  Spec => []ReadersInv
<1>1. Init => ReadersInv
  BY ReadersInit
<1>2. ReadersInv /\ [Next]_vars => ReadersInv'
  BY ReadersStep
<1>3. QED
  BY <1>1, <1>2, PTL DEF Spec

\* The preflight the runtime obeys and the smoke that prepares the operator for it pass the
\* same states, for every threshold and every history of syncs, commands and clock changes.
THEOREM LiveReadersAgreeAlways ==
  ASSUME Bounds
  PROVE  Spec => []LiveReadersAgree
<1>1. ReadersInv => LiveReadersAgree
  BY ReadersAgree
<1>2. QED
  BY <1>1, ReadersInvariant, PTL

\* The inspector passes the lease only while nothing is being submitted, and every smoke names
\* an action exactly when it reports a problem.
THEOREM ProblemsAreNamed ==
  ASSUME Bounds
  PROVE  Spec => [](LeasePassMeansNoSubmission /\ EveryProblemHasAnAction)
<1>1. ReadersInv => LeasePassMeansNoSubmission /\ EveryProblemHasAnAction
  BY LeaseConsequence, ActionForEveryProblem DEF ReadersInv
<1>2. QED
  BY <1>1, ReadersInvariant, PTL

\* The completion smoke is the stricter dry-run smoke, and takes no market's word but the
\* last run of the sample.
THEOREM CompletionMeansReadyAlways ==
  ASSUME Bounds
  PROVE  Spec => []CompletionMeansReady
<1>1. ReadersInv => CompletionMeansReady
  BY CompletionIsStricter DEF ReadersInv
<1>2. QED
  BY <1>1, ReadersInvariant, PTL

\* As long as syncs do not overlap and the clock is not set back, the inspector, which looks
\* at the run that completed last, calls no history clean that the runtime refuses.
THEOREM PilotAgreesWithRuntime ==
  ASSUME Bounds, OneSync, MaxSetBacks = 0
  PROVE  Spec => []CleanForPilotIsCleanForRuntime
<1>1. Init => Ordered
  BY OrderedInit
<1>2. ReadersInv /\ Ordered /\ [Next]_vars => Ordered'
  BY OrderedKept
<1>3. ReadersInv /\ Ordered => CleanForPilotIsCleanForRuntime
  BY PilotAndRuntime
<1>4. QED
  BY <1>1, <1>2, <1>3, ReadersInvariant, PTL DEF Spec

\* As long as syncs do not overlap, a clean sync no longer than the threshold makes every
\* evidence check of the live smoke pass, unless the report sent the operator to the clock;
\* however often the clock was set back.
THEOREM AdviceAlwaysWorks ==
  ASSUME Bounds, OneSync
  PROVE  Spec => [][SyncAdviceWorks]_vars
<1>1. Init => Advised
  BY AdvisedInit
<1>2. ReadersInv /\ Advised /\ [Next]_vars => Advised'
  BY AdvisedKept
<1>3. ReadersInv /\ Advised /\ [Next]_vars => [SyncAdviceWorks]_vars
  BY AdviceConsequence
<1>4. QED
  BY <1>1, <1>2, <1>3, ReadersInvariant, PTL DEF Spec

=============================================================================
