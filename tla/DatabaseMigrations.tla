------------------------ MODULE DatabaseMigrations ------------------------
(***************************************************************************)
(* Opening the database (modules/db/repositories/sqlite-database.ts).  The *)
(* migrations are applied in order of their names; each one's schema       *)
(* effects and its row in the ledger _schema_migrations commit together.   *)
(* A database may come from an older runner that was neither atomic nor    *)
(* as careful: a migration interrupted after some of its statements, one   *)
(* executed but never recorded, or one recorded in an earlier, shorter     *)
(* form.  The runner compares the database with what the migration changes *)
(* in a shadow database built from nothing, and records, completes,        *)
(* executes or refuses it.  Several processes may open the same file; a    *)
(* transaction is one step, because BEGIN IMMEDIATE excludes the others    *)
(* and a crash inside it leaves no trace, but the ledger and the schema    *)
(* are read before it begins.                                              *)
(***************************************************************************)
EXTENDS MigrationFiles

CONSTANTS
    Procs,        \* processes that open the database
    Cache,        \* the canonical schemas, computed once: [shadows, deltas]
    MaxCrashes    \* bound: crashes in one behaviour

BoundsAssumption ==
    MaxCrashes \in Nat /\ Cache = [shadows |-> Shadows, deltas |-> Deltas]

(***************************************************************************)
(* canonicalMigrationDelta reads its cache.                                *)
(***************************************************************************)
Canonical(n) == (CHOOSE s \in Cache.shadows : s.n = n).db
Delta(n) == CHOOSE d \in Cache.deltas : d.of = n

Matches(d, n) ==
    /\ \A x \in Delta(n).changed : Named(d, x) = Named(Canonical(n), x)
    /\ \A x \in Delta(n).transient : ~Exists(d, x)

PartialMarkers(d, n) ==
    \/ \E x \in Delta(n).fresh : Exists(d, x)
    \/ \E tc \in Delta(n).columns : HasColumn(d, tc[1], tc[2])
    \/ \E x \in Delta(n).transient : Exists(d, x)

(***************************************************************************)
(* The repairs.                                                            *)
(***************************************************************************)
Ensure(d, t, cols) ==
    [d EXCEPT !.obj = {IF o.name = t
                       THEN [o EXCEPT !.sig = @ \o SelectSeq(cols, LAMBDA c : ~HasColumn(d, t, c))]
                       ELSE o : o \in @}]

EnsureIndex(d, x, t) == CHOOSE e \in Execute(d, IndexOnce(x, t)) : TRUE

(* Rebuilds a table from what is left of it: the table itself and the      *)
(* legacy table of an interrupted rebuild; INSERT OR IGNORE.               *)
RebuildFrom(d, t, legacy, sig, x) ==
    LET kept == RowsOf(d, t) \cup RowsOf(d, legacy)
    IN  EnsureIndex([d EXCEPT !.obj = {o \in @ : o.on \notin {t, legacy}} \cup {Object("table", t, t, sig)},
                              !.rows = {r \in @ : r[1] \notin {t, legacy}} \cup Into(t, kept)], x, t)

Repair0005(d) ==
    RebuildFrom(RebuildFrom(Ensure(d, "state", <<"degraded_reason", "degraded_at">>),
                            "transitions", "transitions_legacy", <<"v5">>, "idx_transitions"),
                "risk", "risk_legacy_v2", <<"v5", "pilot codes">>, "idx_risk")

Repair0006(d) ==
    EnsureIndex(Ensure(d, "notifications", <<"attempt_count", "next_attempt_at">>),
                "idx_due", "notifications")

Repair0008(d) ==
    EnsureIndex(IF Exists(d, "attempts") THEN d
                ELSE CHOOSE e \in Execute(d, Create("attempts", <<"v8">>)) : TRUE,
                "idx_attempts", "attempts")

Repair0019(d) ==
    LET e == IF ~HasTable(d, "evidence") THEN d
             ELSE EnsureIndex(Ensure(d, "evidence", <<"material_version">>), "idx_material", "evidence")
    IN  IF HasTable(e, "fills") THEN Ensure(e, "fills", <<"fee_provenance">>) ELSE e

WrongRepair0021(d) ==
    IF ~HasTable(d, "fills") THEN d
    ELSE EnsureIndex(Ensure(d, "fills", <<"timestamp_provenance">>), "idx_epoch", "fills")

Repair0021(d) ==
    IF ~HasTable(d, "fills") THEN d
    ELSE EnsureIndex(Ensure(d, "fills", <<"timestamp_provenance", "epoch_ns">>), "idx_epoch", "fills")

Repair0022(d) ==
    IF ~HasTable(d, "deployments") THEN d
    ELSE EnsureIndex(Ensure(d, "deployments", <<"activation_at", "activation_epoch_ns">>),
                     "idx_activation", "deployments")

(* A recorded migration whose file has grown since is completed.           *)
Recorded(d, name) ==
    CASE name = "0019" -> Repair0019(d)
      [] name = "0021" -> Repair0021(d)
      [] name = "0022" -> Repair0022(d)
      [] OTHER -> d

(* executeMigrationBody: the body, and when it fails the legacy repair of  *)
(* 0005 to 0009, on what the failed body left in the transaction.          *)
BodyOutcome(d, n) ==
    LET body == Migrations[n].body  name == Migrations[n].name  done == Script(d, body) IN
    IF done # {} THEN done
    ELSE CASE name = "0005" -> {Repair0005(e) : e \in LeftBehind(d, body)}
           [] name = "0006" -> {Repair0006(e) : e \in LeftBehind(d, body)}
           [] name = "0008" -> {Repair0008(e) : e \in LeftBehind(d, body)}
           [] OTHER -> {}

(***************************************************************************)
(* What an older runner may have left: "done" migrations recorded, the     *)
(* next one executed up to statement "part" but not recorded; or migration *)
(* "short" recorded when its file had only its first "kept" statements.    *)
(***************************************************************************)
Repaired == {i \in 1..N : Migrations[i].name \in {"0019", "0021", "0022"}}

Histories ==
    {o \in [done : 0..N, part : 0..Len(M0005), short : {0} \cup Repaired, kept : 0..2] :
        /\ o.short <= o.done
        /\ o.short = 0 => o.kept = 0
        /\ o.short # 0 => o.part = 0
        /\ o.part > 0 => /\ o.done < N /\ o.part <= Len(Migrations[o.done + 1].body)
                         /\ Migrations[o.done + 1].envelope
                               => o.part = Len(Migrations[o.done + 1].body)}

OldRows == {<<"transitions", "transition">>, <<"risk", "event">>}

Fill(d) == [d EXCEPT !.rows = OldRows]

Older(o) ==
    LET body(n) == IF n = o.short THEN SubSeq(Migrations[n].body, 1, o.kept) ELSE Migrations[n].body
        built[n \in 0..o.done] ==
            IF n = 0 THEN {Empty}
            ELSE UNION {Script(IF n = 2 THEN Fill(d) ELSE d, body(n)) : d \in built[n - 1]}
        part == IF o.part = 0 THEN << >> ELSE SubSeq(Migrations[o.done + 1].body, 1, o.part)
        left == UNION {Script(IF o.done = 1 THEN Fill(d) ELSE d, part) : d \in built[o.done]}
    IN  [(CHOOSE d \in left : TRUE) EXCEPT !.ledger = {Migrations[i].name : i \in 1..o.done}]

VARIABLES
    db,       \* the committed database
    pc,       \* where each opening process stands
    at,       \* the migration it is working on
    crashes,  \* crashes so far
    past      \* where the database came from

vars == <<db, pc, at, crashes, past>>

Init ==
    /\ past \in Histories
    /\ db = Older(past)
    /\ pc = [p \in Procs |-> "closed"] /\ at = [p \in Procs |-> 1]
    /\ crashes = 0

Name(p) == Migrations[at[p]].name
Moves(p, to) == pc' = [pc EXCEPT ![p] = to]
NextOne(p) == at' = [at EXCEPT ![p] = @ + 1] /\ Moves(p, "look")

Open(p) ==
    /\ pc[p] = "closed"
    /\ at' = [at EXCEPT ![p] = 1] /\ Moves(p, "look")
    /\ UNCHANGED <<db, crashes, past>>

(* The ledger is read outside any transaction.                             *)
Look(p) ==
    /\ pc[p] = "look"
    /\ \/ at[p] > N /\ Moves(p, "opened") /\ UNCHANGED at
       \/ /\ at[p] <= N /\ Name(p) \in db.ledger
          /\ IF at[p] \in Repaired THEN Moves(p, "repair") /\ UNCHANGED at ELSE NextOne(p)
       \/ at[p] <= N /\ Name(p) \notin db.ledger /\ Moves(p, "classify") /\ UNCHANGED at
    /\ UNCHANGED <<db, crashes, past>>

RepairRecorded(p) ==
    /\ pc[p] = "repair"
    /\ db' = Recorded(db, Name(p))
    /\ NextOne(p)
    /\ UNCHANGED <<crashes, past>>

(* repairHistoricalMigrationLedger.                                        *)
Verdict(d, n) ==
    IF Delta(n).changed = {} THEN "apply"
    ELSE IF Matches(d, n) THEN "record"
    ELSE IF ~PartialMarkers(d, n) THEN "apply"
    ELSE IF Migrations[n].name = "0022" THEN "complete"
    ELSE "failed"

Classify(p) ==
    /\ pc[p] = "classify"
    /\ Moves(p, Verdict(db, at[p]))
    /\ UNCHANGED <<db, at, crashes, past>>

WrongRecord(d, name) == {[d EXCEPT !.ledger = @ \cup {name}]}

(* The ledger's primary key refuses a name that is there already.          *)
Record(d, name) ==
    IF name \in d.ledger THEN {} ELSE {[d EXCEPT !.ledger = @ \cup {name}]}

(* What the transaction leaves, nothing if it is rolled back.              *)
Outcome(p) ==
    LET n == at[p] IN
    CASE pc[p] = "record"   -> IF Matches(db, n) THEN Record(db, Name(p)) ELSE {}
      [] pc[p] = "complete" -> IF Matches(Repair0022(db), n) THEN Record(Repair0022(db), Name(p)) ELSE {}
      [] pc[p] = "apply"    -> UNION {Record(d, Name(p)) : d \in BodyOutcome(db, n)}

Transaction(p) ==
    /\ pc[p] \in {"record", "complete", "apply"}
    /\ \/ db' \in Outcome(p) /\ NextOne(p)
       \/ Outcome(p) = {} /\ Moves(p, "failed") /\ UNCHANGED <<db, at>>
    /\ UNCHANGED <<crashes, past>>

(* The handle is closed, after use or after a failed open.                 *)
Close(p) ==
    /\ pc[p] \in {"opened", "failed"}
    /\ Moves(p, "closed")
    /\ UNCHANGED <<db, at, crashes, past>>

Crash(p) ==
    /\ pc[p] # "closed" /\ crashes < MaxCrashes
    /\ crashes' = crashes + 1
    /\ Moves(p, "closed")
    /\ UNCHANGED <<db, at, past>>

Step(p) == Open(p) \/ Look(p) \/ RepairRecorded(p) \/ Classify(p) \/ Transaction(p) \/ Close(p)

Next == \E p \in Procs : Step(p) \/ Crash(p)

(* A process that is opening the database goes on, and whoever failed to   *)
(* open it tries again.                                                    *)
Spec == Init /\ [][Next]_vars

(***************************************************************************)
(* Properties                                                              *)
(***************************************************************************)

TypeOK ==
    /\ db.ledger \subseteq Names
    /\ \A r \in db.rows : HasTable(db, r[1])
    /\ \A o \in db.obj : HasTable(db, o.on) /\ Named(db, o.name) = {o}
    /\ pc \in [Procs -> {"closed", "look", "repair", "classify", "record", "complete",
                         "apply", "opened", "failed"}]
    /\ at \in [Procs -> 1..(N + 1)]
    /\ crashes \in 0..MaxCrashes /\ past \in Histories

(* Whatever the older runner left, a database that openSqliteDatabase      *)
(* returns has the complete ledger and, up to the order of columns, the    *)
(* schema a fresh database gets, even if other processes open it meanwhile.*)
OpenedIsCanonical ==
    (\E p \in Procs : pc[p] = "opened") =>
        /\ db.ledger = Names
        /\ LET Unordered(o) == [o EXCEPT !.sig = ToSet(@)]
           IN  {Unordered(o) : o \in db.obj} = {Unordered(o) : o \in Canonical(N).obj}

(* The rows of the tables that migrations rebuild are never lost: in every *)
(* committed state they are in the table, or in the legacy table of an     *)
(* interrupted rebuild the older runner left.                              *)
RowsKept ==
    past.done > 0 =>
        /\ {"transition"} = RowsOf(db, "transitions") \cup RowsOf(db, "transitions_legacy")
        /\ {"event"} = RowsOf(db, "risk") \cup RowsOf(db, "risk_legacy_v2")

(* A migration's schema effects and its ledger row appear in one step: a   *)
(* row is written only when the database has exactly the effects, and the  *)
(* schema changes without a row only to complete a recorded migration.     *)
EffectsWithLedger ==
    /\ \A n \in 1..N : Migrations[n].name \in db'.ledger \ db.ledger => Matches(db', n)
    /\ db'.obj # db.obj =>
          db'.ledger # db.ledger \/ \E p \in Procs : pc[p] = "repair" /\ pc'[p] = "look"

Interrupted(o) ==
    /\ o.part > 0 /\ o.part < Len(Migrations[o.done + 1].body)
    /\ Migrations[o.done + 1].name # "0022"

(* All that is missing is an index the migration drops with the table and  *)
(* creates again as it was: no part of the delta.                          *)
IndexMissing(o) ==
    Interrupted(o) /\ \A i \in (o.part + 1)..Len(Migrations[o.done + 1].body) :
        Migrations[o.done + 1].body[i].op = "indexOnce" /\ Migrations[o.done + 1].body[i].name \notin Delta(o.done + 1).changed

Incompatible(o) == Interrupted(o) /\ ~IndexMissing(o)

(* An open is refused only for a reason: the migration it stopped at was   *)
(* really interrupted half-way, or another process has recorded it in the  *)
(* meantime and opening again succeeds.                                    *)
RefusalIsReal ==
    \A p \in Procs : pc[p] = "failed" => Name(p) \in db.ledger \/ Incompatible(past)

(* A half-executed migration other than 0022 is never recorded, completed  *)
(* or built upon: no process opens the database and nothing in it changes. *)
(* (A history whose only missing statement is an index that the migration  *)
(* leaves as it was is recorded as complete, and is not Incompatible.)     *)
IncompatibleUntouched ==
    Incompatible(past) => db = Older(past) /\ \A p \in Procs : pc[p] # "opened"

=============================================================================
