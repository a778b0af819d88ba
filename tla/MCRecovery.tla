----------------------------- MODULE MCRecovery -------------------------------
(***************************************************************************)
(* Reconciliation and the database: history recovery, the sweep over active*)
(* orders, portfolio syncs, the identity of the live database and the      *)
(* migrations.  A behaviour is of the one component "part" names, with the *)
(* bounds of that instance.                                                *)
(***************************************************************************)
EXTENDS MigrationFiles, TLC

CONSTANTS Parts  \* Parts: the components to explore

VARIABLES
  part,  \* the component this behaviour is of
  local, cp, late, lastStart,  \* HistoryRecovery
  row, fills, marked, shape, trouble,  \* ReconciliationSweep
  trades, known, latest, sync, risk, recorded, falseDrift, degraded, booted, restarts,  \* PortfolioSync
  content, handle, held,  \* LiveDatabaseIdentity
  script, scan,  \* MigrationScript
  db, crashes, past,  \* DatabaseMigrations
  now, ex, run, report, faults, seen, moves, at, pc  \* of several

Shapes == {"submitting", "uncertain", "recovered", "bareFilled", "dustCanceled", "dryPriced"}

CanonicalCache == [shadows |-> Shadows, deltas |-> Deltas]

\* Two provisioners that disagree about the identity of the database at path "a".
For(path, id) == [path |-> path, id |-> id]
Config == "runtime" :> For("a", "mine") @@ "first" :> For("a", "mine") @@ "second" :> For("a", "other")
Db(ledger, ident) == [ledger |-> ledger, ident |-> ident, data |-> {}]
Mains == {Db("pending", {}), Db("full", {}), Db("full", {"mine"}), Db("pending", {"mine"})}
Strangers == {Db("full", {"mine"}), Db("full", {"other"}), Db("full", {}), Db("unknown", {}),
              Db("pending", {"mine"})}
OneDatabase == {[at |-> "a" :> "f1" @@ "b" :> "no file", content |-> "f1" :> c @@ "f2" :> d] :
                   c \in Mains, d \in Strangers}

\* A script begins with a comment, with the head of a complete envelope, with a whole
\* transaction, or inside the CASE of a trigger.
Heads == {<<"comment">>, <<"off", "immediate">>, <<"off", "immediate", "comment", "commit">>,
          <<"off", "immediate", "trigger", "case">>}

History == INSTANCE HistoryRecovery WITH Lookback <- 1, StopBefore <- 3, Retention <- 4,
  FirstDay <- 3, Markets <- {"KRW-BTC", "KRW-ETH"}, Orders <- {1}, Capacity <- 1,
  Resting <- TRUE, MaxTime <- 4, MaxGap <- 9, MaxFaults <- 1
Complete == INSTANCE HistoryRecovery WITH Lookback <- 1, StopBefore <- 3, Retention <- 4,
  FirstDay <- 3, Markets <- {"KRW-BTC"}, Orders <- {1, 2}, Capacity <- 3, Resting <- FALSE,
  MaxTime <- 6, MaxGap <- 1, MaxFaults <- 0
Sweep == INSTANCE ReconciliationSweep WITH Orders <- {1, 2}, Budget <- 1, Enough <- 1,
  Shapes <- {"uncertain", "bareFilled", "dryPriced"}, Troubles <- {"permanent"},
  MaxTroubled <- 1, Runs <- {"startup", "command"}, MaxFaults <- 0
Crashing == INSTANCE ReconciliationSweep WITH Orders <- {1, 2}, Budget <- 1, Enough <- 1,
  Shapes <- Shapes, Troubles <- {"permanent"}, MaxTroubled <- 1, Runs <- {"startup"},
  MaxFaults <- 2
Portfolio == INSTANCE PortfolioSync WITH Syncs <- {"startup", "operator"},
  TradeKinds <- {"bid", "ask", "dry"}, Second <- 2, Faults <- {"fetch", "reconcile", "crash"},
  FillsDuringSync <- FALSE, MaxTime <- 2, MaxFills <- 1, MaxMoves <- 2, MaxFaults <- 1,
  MaxRestarts <- 1
Overlap == INSTANCE PortfolioSync WITH Syncs <- {"operator", "scheduler"},
  TradeKinds <- {"bid"}, Second <- 2, Faults <- {"fetch"}, FillsDuringSync <- FALSE,
  MaxTime <- 2, MaxFills <- 0, MaxMoves <- 1, MaxFaults <- 0, MaxRestarts <- 0
Identity == INSTANCE LiveDatabaseIdentity WITH None <- "no file", Files <- {"f1", "f2"},
  Paths <- {"a", "b"}, Runtimes <- {"runtime"}, Provisioners <- {"first", "second"},
  Config <- Config, Starts <- OneDatabase, Pinned <- FALSE, MaxMoves <- 1
Pinned == INSTANCE LiveDatabaseIdentity WITH None <- "no file", Files <- {"f1", "f2"},
  Paths <- {"a", "b"}, Runtimes <- {"runtime"}, Provisioners <- {"first", "second"},
  Config <- Config, Starts <- OneDatabase, Pinned <- TRUE, MaxMoves <- 3
Scripts == INSTANCE MigrationScript WITH Openings <- Heads, MaxPhrases <- 3
Opening == INSTANCE DatabaseMigrations WITH Procs <- {"p1", "p2"}, Cache <- CanonicalCache,
  MaxCrashes <- 1

ASSUME History!HistoryConstants /\ Complete!HistoryConstants /\ Sweep!SweepConstants /\
       Crashing!SweepConstants /\ Portfolio!SyncConstants /\ Overlap!SyncConstants /\
       Identity!ConfigAssumption /\ Pinned!ConfigAssumption /\ Scripts!OpeningsAssumption /\
       Opening!BoundsAssumption

historyVars == <<local, cp, late, lastStart>>
sweepVars == <<row, fills, marked, shape, trouble>>
portfolioVars == <<trades, known, latest, sync, risk, recorded, falseDrift, degraded, booted,
                   restarts>>
identityVars == <<content, handle, held>>
scriptsVars == <<script, scan>>
openingVars == <<db, crashes, past>>
vars == <<part, historyVars, sweepVars, portfolioVars, identityVars, scriptsVars, openingVars,
          now, ex, run, report, faults, seen, moves, at, pc>>

Off == 0
historyOff == local = Off /\ cp = Off /\ late = Off /\ lastStart = Off
sweepOff == row = Off /\ fills = Off /\ marked = Off /\ shape = Off /\ trouble = Off
portfolioOff == trades = Off /\ known = Off /\ latest = Off /\ sync = Off /\ risk = Off /\
                recorded = Off /\ falseDrift = Off /\ degraded = Off /\ booted = Off /\
                restarts = Off
identityOff == content = Off /\ handle = Off /\ held = Off
scriptsOff == script = Off /\ scan = Off
openingOff == db = Off /\ crashes = Off /\ past = Off

Init == /\ part \in Parts
        /\ \/ part = "history" /\ History!Init /\ sweepOff /\ portfolioOff /\ identityOff /\
              scriptsOff /\ openingOff /\ seen = Off /\ moves = Off /\ at = Off /\ pc = Off
           \/ part = "complete" /\ Complete!Init /\ sweepOff /\ portfolioOff /\ identityOff /\
              scriptsOff /\ openingOff /\ seen = Off /\ moves = Off /\ at = Off /\ pc = Off
           \/ part = "sweep" /\ Sweep!Init /\ historyOff /\ portfolioOff /\ identityOff /\
              scriptsOff /\ openingOff /\ now = Off /\ moves = Off /\ at = Off /\ pc = Off
           \/ part = "crashing" /\ Crashing!Init /\ historyOff /\ portfolioOff /\ identityOff /\
              scriptsOff /\ openingOff /\ now = Off /\ moves = Off /\ at = Off /\ pc = Off
           \/ part = "portfolio" /\ Portfolio!Init /\ historyOff /\ sweepOff /\ identityOff /\
              scriptsOff /\ openingOff /\ ex = Off /\ run = Off /\ report = Off /\ seen = Off /\
              at = Off /\ pc = Off
           \/ part = "overlap" /\ Overlap!Init /\ historyOff /\ sweepOff /\ identityOff /\
              scriptsOff /\ openingOff /\ ex = Off /\ run = Off /\ report = Off /\ seen = Off /\
              at = Off /\ pc = Off
           \/ part = "identity" /\ Identity!Init /\ historyOff /\ sweepOff /\ portfolioOff /\
              scriptsOff /\ openingOff /\ now = Off /\ ex = Off /\ run = Off /\ report = Off /\
              faults = Off
           \/ part = "pinned" /\ Pinned!Init /\ historyOff /\ sweepOff /\ portfolioOff /\
              scriptsOff /\ openingOff /\ now = Off /\ ex = Off /\ run = Off /\ report = Off /\
              faults = Off
           \/ part = "scripts" /\ Scripts!Init /\ historyOff /\ sweepOff /\ portfolioOff /\
              identityOff /\ openingOff /\ now = Off /\ ex = Off /\ run = Off /\ report = Off /\
              faults = Off /\ seen = Off /\ moves = Off /\ at = Off /\ pc = Off
           \/ part = "opening" /\ Opening!Init /\ historyOff /\ sweepOff /\ portfolioOff /\
              identityOff /\ scriptsOff /\ now = Off /\ ex = Off /\ run = Off /\ report = Off /\
              faults = Off /\ seen = Off /\ moves = Off

HistoryStep == part = "history" /\ History!Next /\ UNCHANGED <<part, sweepVars, portfolioVars,
            identityVars, scriptsVars, openingVars, seen, moves, at, pc>>
CompleteStep == part = "complete" /\ Complete!Next /\ UNCHANGED <<part, sweepVars,
            portfolioVars, identityVars, scriptsVars, openingVars, seen, moves, at, pc>>
SweepStep == part = "sweep" /\ Sweep!Next /\ UNCHANGED <<part, historyVars, portfolioVars,
            identityVars, scriptsVars, openingVars, now, moves, at, pc>>
CrashingStep == part = "crashing" /\ Crashing!Next /\ UNCHANGED <<part, historyVars,
            portfolioVars, identityVars, scriptsVars, openingVars, now, moves, at, pc>>
PortfolioStep == part = "portfolio" /\ Portfolio!Next /\ UNCHANGED <<part, historyVars,
            sweepVars, identityVars, scriptsVars, openingVars, ex, run, report, seen, at, pc>>
OverlapStep == part = "overlap" /\ Overlap!Next /\ UNCHANGED <<part, historyVars, sweepVars,
            identityVars, scriptsVars, openingVars, ex, run, report, seen, at, pc>>
IdentityStep == part = "identity" /\ Identity!Next /\ UNCHANGED <<part, historyVars, sweepVars,
            portfolioVars, scriptsVars, openingVars, now, ex, run, report, faults>>
PinnedStep == part = "pinned" /\ Pinned!Next /\ UNCHANGED <<part, historyVars, sweepVars,
            portfolioVars, scriptsVars, openingVars, now, ex, run, report, faults>>
ScriptsStep == part = "scripts" /\ Scripts!Next /\ UNCHANGED <<part, historyVars, sweepVars,
            portfolioVars, identityVars, openingVars, now, ex, run, report, faults, seen, moves,
            at, pc>>
OpeningStep == part = "opening" /\ Opening!Next /\ UNCHANGED <<part, historyVars, sweepVars,
            portfolioVars, identityVars, scriptsVars, now, ex, run, report, faults, seen,
            moves>>

Next == HistoryStep \/ CompleteStep \/ SweepStep \/ CrashingStep \/ PortfolioStep \/
        OverlapStep \/ IdentityStep \/ PinnedStep \/ ScriptsStep \/ OpeningStep

Spec == Init /\ [][Next]_vars

-----------------------------------------------------------------------------
\* Recovery of the order history: every summary a run writes is accepted by the strict
\* validator that reads it, whatever failed or was cut short, and confidence HIGH is
\* claimed only when every order of the stretch was seen.
HistorySound ==
  /\ part = "history" => History!TypeOK /\ History!SummaryAccepted
  /\ part = "complete" => Complete!HighMeansRecovered

\* Reconciliation runs that overlap and crash: a row that is settled has all its fills,
\* its fills are repaired once, and a run that reports success left nothing uncertain.
SweepSound ==
  /\ part = "sweep" => /\ Sweep!TypeOK /\ Sweep!SettledIsComplete /\ Sweep!RepairedOnce
                       /\ Sweep!SuccessMeansCertain
  /\ part = "crashing" => /\ Crashing!SettledIsComplete /\ Crashing!RepairedOnce
                          /\ Crashing!SuccessMeansCertain

\* Portfolio syncs: a fill the program knows of is never called drift, and a movement
\* outside it is recorded, however syncs of two sources overlap.
PortfolioSound ==
  /\ part = "portfolio" => Portfolio!TypeOK /\ Portfolio!NoFalseDrift
  /\ part = "overlap" => Overlap!DriftRecorded

\* The database: a live runtime writes only into the one file bound to its identity,
\* whatever is put at its path meanwhile; a migration script is split at statement ends
\* only and no control statement hides in it; and a database opened by two processes,
\* left by any older runner and interrupted anywhere, has the canonical schema and all
\* its rows, or is refused for a reason and left as it was.
DatabaseSound ==
  /\ part = "identity" => Identity!TypeOK /\ Identity!WritesOwnDatabase /\ Identity!OneFile
  /\ part = "pinned" => Pinned!WritesOwnDatabase /\ Pinned!OneFile
  /\ part = "scripts" => /\ Scripts!TypeOK /\ Scripts!NoNestedControl /\ Scripts!TriggersWhole
                        /\ Scripts!WellFormedAccepted /\ Scripts!PragmaScriptsWhole
  /\ part = "opening" => /\ Opening!TypeOK /\ Opening!OpenedIsCanonical /\ Opening!RowsKept
                            /\ Opening!RefusalIsReal /\ Opening!IncompatibleUntouched

\* What no step may do: clear a degraded portfolio that startup did not find clean,
\* rebind a database, migrate one from a live runtime, or change the schema without the
\* ledger (or record a migration whose effects are not there).
RecoverySteps ==
  [][/\ part = "portfolio" => Portfolio!ClearedOnlyClean
     /\ part = "identity" => Identity!BindingKept /\ Identity!LiveNeverMigrates
     /\ part = "pinned" => Pinned!BindingKept /\ Pinned!LiveNeverMigrates
     /\ part = "opening" => Opening!EffectsWithLedger]_vars
===============================================================================
