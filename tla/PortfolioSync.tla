---------------------------- MODULE PortfolioSync ----------------------------
(***************************************************************************)
(* Portfolio snapshots and the search for drift                            *)
(* (portfolio-sync-service.ts, portfolio-drift.ts, startup-recovery.ts).   *)
(* A sync reads the latest snapshots, fetches the balances, saves new      *)
(* snapshots stamped with the time the sync was requested, reconciles the  *)
(* orders (ReconciliationSweep) and compares: what changed between the     *)
(* snapshots must be explained by the fills stamped between them. The      *)
(* start-up sync, the scheduler's and the operator's may overlap.          *)
(*                                                                         *)
(* Time runs in ticks, several to a second; the exchange stamps fills in   *)
(* whole seconds. A snapshot carries the outside movements it contains,    *)
(* which the code cannot see and the properties compare.                   *)
(***************************************************************************)
EXTENDS Integers, Sequences, FiniteSets, FiniteSetsExt

CONSTANTS
  Syncs,          \* sources that may sync: "startup", "operator", "scheduler"
  TradeKinds,     \* kinds of fills: "bid", "ask", "dry"
  Second,         \* ticks in a second
  Faults,         \* what may fail: "fetch", "reconcile", "crash"
  FillsDuringSync,\* fills happen while a sync is under way
  MaxTime, MaxFills, MaxMoves, MaxFaults, MaxRestarts   \* bounds

SyncConstants ==
  /\ Syncs \subseteq {"startup", "operator", "scheduler"}
  /\ TradeKinds \subseteq {"bid", "ask", "dry"} /\ Faults \subseteq {"fetch", "reconcile", "crash"}
  /\ Second \in Nat \ {0} /\ FillsDuringSync \in BOOLEAN
  /\ {MaxTime, MaxFills, MaxMoves, MaxFaults, MaxRestarts} \subseteq Nat

VARIABLES
  now,
  trades,    \* fills of our orders, in order: [kind, at]
  known,     \* how many of them are stored locally
  moves,     \* outside movements of each kind so far: deposits, withdrawals
  latest,    \* latest snapshot of each kind by captured_at: [at, held, moves]
  sync,      \* what each source is doing
  risk,      \* outside movements of each kind with a risk event
  recorded,  \* outside movements of each kind with a DRIFT_DETECTED run
  falseDrift,\* a risk event was saved although nothing moved from outside
  degraded, booted, faults, restarts

vars == <<now, trades, known, moves, latest, sync, risk, recorded, falseDrift,
          degraded, booted, faults, restarts>>
account == <<now, trades, moves>>
evidence == <<risk, recorded, falseDrift>>
process == <<degraded, booted, faults, restarts>>

\* Balance snapshots are compared for KRW, position snapshots for the assets.
Kinds == {"krw", "qty"}
NoSnapshot == [at |-> -1, held |-> 0, moves |-> 0]
Idle == [pc |-> "idle"]
Quiet == \A s \in Syncs : sync[s].pc = "idle"

\* One unit at price 5 with fee 1; a simulated fill looks like a bid.
Delta(kind, what) ==
  IF kind = "ask" THEN (IF what = "krw" THEN 4 ELSE -1) ELSE (IF what = "krw" THEN -6 ELSE 1)

IsExchangeBackedFill(i) == trades[i].kind # "dry"

\* aggregateFillDeltas
Explained(S, what) == MapThenSumSet(LAMBDA i : Delta(trades[i].kind, what), S)

\* An outside movement is larger than any sum of fills; the exchange knows no simulated fill.
Held(what) ==
  Explained({i \in DOMAIN trades : IsExchangeBackedFill(i)}, what)
    + moves[what] * (IF what = "krw" THEN 50 ELSE 10)

Dust(what) == IF what = "krw" THEN 1 ELSE 0
Stamp(t) == (t \div Second) * Second

Init ==
  /\ now = 0 /\ trades = <<>> /\ known = 0 /\ moves = [k \in Kinds |-> 0]
  /\ latest = [k \in Kinds |-> NoSnapshot]
  /\ sync = [s \in Syncs |-> Idle]
  /\ risk = [k \in Kinds |-> 0] /\ recorded = [k \in Kinds |-> 0] /\ falseDrift = FALSE
  /\ degraded = FALSE /\ booted = ("startup" \notin Syncs) /\ faults = 0 /\ restarts = 0

-----------------------------------------------------------------------------
(***************************************************************************)
(* The exchange.                                                           *)
(***************************************************************************)

Tick ==
  /\ now < MaxTime /\ now' = now + 1
  /\ UNCHANGED <<trades, known, moves, latest, sync, evidence, process>>

Trade(kind) ==
  /\ Len(trades) < MaxFills /\ (FillsDuringSync \/ Quiet)
  /\ trades' = Append(trades, [kind |-> kind, at |-> Stamp(now)])
  /\ UNCHANGED <<now, known, moves, latest, sync, evidence, process>>

\* What was there before the first snapshots is no movement.
Move(what) ==
  /\ moves["krw"] + moves["qty"] < MaxMoves /\ moves' = [moves EXCEPT ![what] = @ + 1]
  /\ \A k \in Kinds : latest[k] # NoSnapshot
  /\ UNCHANGED <<now, trades, known, latest, sync, evidence, process>>

-----------------------------------------------------------------------------
(***************************************************************************)
(* A sync.                                                                 *)
(***************************************************************************)

\* The start-up sync comes first; requestSync refuses while one is running, and a sync that
\* failed may be requested again.
MayRequestSync(s) == sync[s].pc = "idle" /\ (s = "startup" <=> ~booted)

\* The balance snapshot is read in the same turn.
Begin(s) ==
  /\ MayRequestSync(s)
  /\ sync' = [sync EXCEPT ![s] =
       [pc |-> "readPosition", at |-> now, prev |-> latest, cur |-> latest, found |-> {}]]
  /\ UNCHANGED <<account, known, latest, evidence, process>>

\* getLatestPositionSnapshot
ReadPosition(s) ==
  /\ sync[s].pc = "readPosition"
  /\ sync' = [sync EXCEPT ![s].prev["qty"] = latest["qty"], ![s].pc = "fetch"]
  /\ UNCHANGED <<account, known, latest, evidence, process>>

\* buildBalanceSnapshotRecord, buildPositionSnapshotRecord: what is held now, stamped with the request.
SnapshotOf(s) == [k \in Kinds |-> [at |-> sync[s].at, held |-> Held(k), moves |-> moves[k]]]

\* getBalances, resolveValuationPrices
FetchBalances(s) ==
  /\ sync[s].pc = "fetch"
  /\ sync' = [sync EXCEPT ![s].cur = SnapshotOf(s), ![s].pc = "saveBalance"]
  /\ UNCHANGED <<account, known, latest, evidence, process>>

\* Rows with one captured_at come back in any order.
SaveSnapshot(s, k, pc, next) ==
  /\ sync[s].pc = pc
  /\ \E kept \in {latest[k], sync[s].cur[k]} :
       /\ kept.at >= latest[k].at /\ kept.at >= sync[s].cur[k].at
       /\ latest' = [latest EXCEPT ![k] = kept]
  /\ sync' = [sync EXCEPT ![s].pc = next]
  /\ UNCHANGED <<account, known, evidence, process>>

\* runWithRecord: the orders' fills are stored.
Reconcile(s) ==
  /\ sync[s].pc = "reconcile" /\ known' = Len(trades)
  /\ sync' = [sync EXCEPT ![s].pc = "drift"]
  /\ UNCHANGED <<account, latest, evidence, process>>

\* isTimestampWithinSnapshotWindow
InWindow(at, from, to, grace) == at > from - grace /\ at <= to

\* buildBalanceDriftFinding, buildPositionDriftFinding
Residual(prev, cur, what, grace) ==
  LET window == {i \in 1..known : IsExchangeBackedFill(i)
                                  /\ InWindow(trades[i].at, prev.at, cur.at, grace)}
  IN cur.held - prev.held - Explained(window, what)

Significant(what, residual) == residual > Dust(what) \/ residual < -Dust(what)

\* Mutant: no grace for rounded stamps.
WrongDrifts(prev, cur, what) ==
  prev # NoSnapshot /\ Significant(what, Residual(prev, cur, what, 0))

\* The grace is for the windows that drift without it.
Drifts(prev, cur, what) ==
  /\ prev # NoSnapshot
  /\ Significant(what, Residual(prev, cur, what, 0))
  /\ Significant(what, Residual(prev, cur, what, Second))

\* detectPortfolioDrift: a risk event for each finding.
DetectPortfolioDrift(s) ==
  LET prev == sync[s].prev
      cur == sync[s].cur
      found == {k \in Kinds : Drifts(prev[k], cur[k], k)}
  IN /\ sync[s].pc = "drift"
     /\ risk' = [k \in Kinds |->
          IF k \in found \/ prev[k] = NoSnapshot THEN Max({risk[k], cur[k].moves}) ELSE risk[k]]
     /\ falseDrift' = (falseDrift \/ \E k \in found : cur[k].moves = prev[k].moves)
     /\ sync' = [sync EXCEPT ![s].pc = "record", ![s].found = found]
     /\ UNCHANGED <<account, known, latest, recorded, process>>

\* saveReconciliationRun; the first snapshots are a baseline and nothing to compare.
RecordRun(s) ==
  /\ sync[s].pc = "record"
  /\ recorded' = [k \in Kinds |->
       IF k \in sync[s].found \/ sync[s].prev[k] = NoSnapshot
       THEN Max({recorded[k], sync[s].cur[k].moves}) ELSE recorded[k]]
  /\ sync' = IF s = "startup" THEN [sync EXCEPT ![s].pc = "policy"] ELSE [sync EXCEPT ![s] = Idle]
  /\ UNCHANGED <<account, known, latest, risk, falseDrift, process>>

\* applyStartupRecoveryPolicy
StartupPolicy(s) ==
  /\ sync[s].pc = "policy"
  /\ degraded' = IF sync[s].found # {} THEN TRUE
                 ELSE IF \A k \in Kinds : sync[s].prev[k] # NoSnapshot THEN FALSE ELSE degraded
  /\ booted' = TRUE /\ sync' = [sync EXCEPT ![s] = Idle]
  /\ UNCHANGED <<account, known, latest, evidence, faults, restarts>>

\* An exception: the run is recorded as ERROR; start-up goes on with its status as it was.
Fail(s) ==
  /\ sync[s].pc \in {"fetch", "reconcile"} /\ sync[s].pc \in Faults /\ faults < MaxFaults
  /\ faults' = faults + 1 /\ sync' = [sync EXCEPT ![s] = Idle]
  /\ booted' = (booted \/ s = "startup")
  /\ UNCHANGED <<account, known, latest, evidence, degraded, restarts>>

\* The process ends, and its syncs with it.
Stop ==
  /\ booted' = ("startup" \notin Syncs) /\ sync' = [s \in Syncs |-> Idle]
  /\ \/ Quiet /\ restarts < MaxRestarts /\ restarts' = restarts + 1 /\ UNCHANGED faults
     \/ "crash" \in Faults /\ faults < MaxFaults /\ faults' = faults + 1 /\ UNCHANGED restarts
  /\ UNCHANGED <<account, known, latest, evidence, degraded>>

Step(s) ==
  \/ Begin(s) \/ ReadPosition(s) \/ FetchBalances(s)
  \/ SaveSnapshot(s, "krw", "saveBalance", "savePosition")
  \/ SaveSnapshot(s, "qty", "savePosition", "reconcile")
  \/ Reconcile(s) \/ DetectPortfolioDrift(s) \/ RecordRun(s) \/ StartupPolicy(s) \/ Fail(s)

Next ==
  \/ Tick \/ (\E kind \in TradeKinds : Trade(kind)) \/ (\E k \in Kinds : Move(k))
  \/ (\E s \in Syncs : Step(s)) \/ Stop

Spec == Init /\ [][Next]_vars

-----------------------------------------------------------------------------
(***************************************************************************)
(* Properties.                                                             *)
(***************************************************************************)

TypeOK ==
  /\ now \in 0..MaxTime /\ known \in 0..Len(trades) /\ moves \in [Kinds -> 0..MaxMoves]
  /\ \A k \in Kinds : latest[k].at \in -1..MaxTime /\ latest[k].moves \in 0..MaxMoves
  /\ risk \in [Kinds -> 0..MaxMoves] /\ recorded \in [Kinds -> 0..MaxMoves]
  /\ {falseDrift, degraded, booted} \subseteq BOOLEAN
  /\ faults \in 0..MaxFaults /\ restarts \in 0..MaxRestarts

(***************************************************************************)
(* Between syncs, every outside movement that the latest snapshots contain *)
(* has a risk event and a reconciliation run that say so: saving a         *)
(* snapshot makes it the next baseline, so what was not compared before    *)
(* is never compared again.                                                *)
(***************************************************************************)
DriftRecorded ==
  Quiet => \A k \in Kinds : latest[k].moves <= risk[k] /\ latest[k].moves <= recorded[k]

(***************************************************************************)
(* Drift is reported only for movements that no fill of ours explains,     *)
(* whatever the stamps the exchange rounds and the fills that were stored  *)
(* late or only simulated.                                                 *)
(***************************************************************************)
NoFalseDrift == ~falseDrift

(***************************************************************************)
(* Start-up clears DEGRADED only when nothing moved from outside between   *)
(* the snapshots it compared.                                              *)
(***************************************************************************)
ClearedOnlyClean ==
  degraded /\ ~degraded' =>
    \A k \in Kinds : sync["startup"].prev[k].moves = sync["startup"].cur[k].moves
=============================================================================
