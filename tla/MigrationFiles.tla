--------------------------- MODULE MigrationFiles ---------------------------
(***************************************************************************)
(* The migration files, what SQLite does with their statements, and the    *)
(* canonical schema they lead to.  Nothing here changes state: the runner  *)
(* of DatabaseMigrations reads it.                                         *)
(***************************************************************************)
EXTENDS Naturals, Sequences, SequencesExt

(***************************************************************************)
(* A database: its schema objects, the rows of its tables, its ledger.     *)
(* An object's signature is its normalised SQL: for a table the form it    *)
(* was created in followed by the columns added to it, in order.           *)
(***************************************************************************)
Object(type, n, on, sig) == [type |-> type, name |-> n, on |-> on, sig |-> sig]

Empty == [obj |-> {}, rows |-> {}, ledger |-> {}]

Named(d, n) == {o \in d.obj : o.name = n}
Exists(d, n) == Named(d, n) # {}
HasTable(d, n) == \E o \in Named(d, n) : o.type = "table"
Columns(d, n) == UNION {ToSet(o.sig) : o \in {x \in Named(d, n) : x.type = "table"}}
HasColumn(d, n, c) == c \in Columns(d, n)

RowsOf(d, n) == {r[2] : r \in {x \in d.rows : x[1] = n}}
Into(n, rows) == {n} \X rows

(* SQL statements.                                                         *)
Create(n, sig)    == [op |-> "create", name |-> n, arg |-> sig]
Index(n, t)       == [op |-> "index", name |-> n, arg |-> <<t>>]
IndexOnce(n, t)   == [op |-> "indexOnce", name |-> n, arg |-> <<t>>]
AddColumn(n, c)   == [op |-> "add", name |-> n, arg |-> <<c>>]
Rename(n, to)     == [op |-> "rename", name |-> n, arg |-> <<to>>]
Copy(from, n)     == [op |-> "copy", name |-> n, arg |-> <<from>>]
Drop(n)           == [op |-> "drop", name |-> n, arg |-> << >>]

(* What SQLite does with one: the outcomes, none if the statement fails.   *)
(* Renaming a table takes its indexes along, dropping it drops them.       *)
Execute(d, st) ==
    LET n == st.name  a == st.arg IN
    CASE st.op = "create" -> IF Exists(d, n) THEN {}
             ELSE {[d EXCEPT !.obj = @ \cup {Object("table", n, n, a)}]}
      [] st.op = "index" -> IF Exists(d, n) \/ ~HasTable(d, a[1]) THEN {}
             ELSE {[d EXCEPT !.obj = @ \cup {Object("index", n, a[1], << >>)}]}
      [] st.op = "indexOnce" -> IF ~HasTable(d, a[1]) THEN {}
             ELSE {IF Exists(d, n) THEN d
                   ELSE [d EXCEPT !.obj = @ \cup {Object("index", n, a[1], << >>)}]}
      [] st.op = "add" -> IF ~HasTable(d, n) \/ HasColumn(d, n, a[1]) THEN {}
             ELSE {[d EXCEPT !.obj = {IF o.name = n THEN [o EXCEPT !.sig = Append(@, a[1])] ELSE o : o \in @}]}
      [] st.op = "rename" -> IF ~HasTable(d, n) \/ Exists(d, a[1]) THEN {}
             ELSE {[d EXCEPT !.obj = {IF o.on # n THEN o
                                      ELSE [o EXCEPT !.on = a[1],
                                                     !.name = IF @ = n THEN a[1] ELSE @] : o \in @},
                             !.rows = {IF r[1] = n THEN <<a[1], r[2]>> ELSE r : r \in @}]}
      [] st.op = "copy" -> IF ~HasTable(d, n) \/ ~HasTable(d, a[1])
                              \/ RowsOf(d, n) \cap RowsOf(d, a[1]) # {} THEN {}
             ELSE {[d EXCEPT !.rows = @ \cup Into(n, RowsOf(d, a[1]))]}
      [] st.op = "drop" -> IF ~HasTable(d, n) THEN {}
             ELSE {[d EXCEPT !.obj = {o \in @ : o.on # n}, !.rows = {r \in @ : r[1] # n}]}

(* Statements in order: the database after each, none from the first that  *)
(* fails on.                                                               *)
Progress(d, sts) ==
    LET after[i \in 0..Len(sts)] ==
            IF i = 0 THEN {d} ELSE UNION {Execute(x, sts[i]) : x \in after[i - 1]}
    IN  after

Script(d, sts) == Progress(d, sts)[Len(sts)]

(* What a script that fails leaves behind in its transaction.              *)
LeftBehind(d, sts) ==
    LET k == CHOOSE i \in 1..Len(sts) : Progress(d, sts)[i] = {} /\ Progress(d, sts)[i - 1] # {}
    IN  Progress(d, sts)[k - 1]

(***************************************************************************)
(* The migrations, each column list shortened to what distinguishes the    *)
(* cases: a plain first one, additive ones, one that creates a table with  *)
(* its indexes, ones that rebuild tables, and the three with a repair.     *)
(***************************************************************************)
Rebuild(t, legacy, sig, index) ==
    <<Rename(t, legacy), Create(t, sig), Copy(legacy, t), Drop(legacy), index>>

M0001 == <<Create("state", <<"v1">>), Create("transitions", <<"v1">>),
           Index("idx_transitions", "transitions"), Create("risk", <<"v1">>),
           Index("idx_risk", "risk"), Create("fills", <<"v1">>),
           Create("notifications", <<"v1">>)>>
M0005 == <<AddColumn("state", "degraded_reason"), AddColumn("state", "degraded_at")>>
         \o Rebuild("transitions", "transitions_legacy", <<"v5">>,
                    IndexOnce("idx_transitions", "transitions"))
         \o Rebuild("risk", "risk_legacy_v2", <<"v5">>, IndexOnce("idx_risk", "risk"))
M0006 == <<AddColumn("notifications", "attempt_count"),
           AddColumn("notifications", "next_attempt_at"),
           IndexOnce("idx_due", "notifications")>>
M0008 == <<Create("attempts", <<"v8">>), Index("idx_attempts", "attempts")>>
M0017 == Rebuild("transitions", "transitions_0017", <<"v17">>,
                 Index("idx_transitions", "transitions"))
         \o Rebuild("risk", "risk_0017", <<"v17">>, Index("idx_risk", "risk"))
         \o <<Create("deployments", <<"v17">>), Create("evidence", <<"v17">>)>>
M0019 == <<AddColumn("evidence", "material_version"), AddColumn("fills", "fee_provenance"),
           Index("idx_material", "evidence")>>
M0021 == <<AddColumn("fills", "timestamp_provenance"), AddColumn("fills", "epoch_ns"),
           Index("idx_epoch", "fills")>>
M0022 == <<AddColumn("deployments", "activation_at"),
           AddColumn("deployments", "activation_epoch_ns"),
           Index("idx_activation", "deployments")>>

(* Names in order; "envelope" says the file carries its own transaction,   *)
(* which even the older runner could not execute in part.                  *)
Migration(n, b, e) == [name |-> n, body |-> b, envelope |-> e]

Migrations == <<Migration("0001", M0001, FALSE), Migration("0005", M0005, FALSE),
                Migration("0006", M0006, FALSE), Migration("0008", M0008, FALSE),
                Migration("0017", M0017, TRUE), Migration("0019", M0019, TRUE),
                Migration("0021", M0021, TRUE), Migration("0022", M0022, FALSE)>>

N == Len(Migrations)
Names == {Migrations[i].name : i \in 1..N}

(* The shadow database after the first n migrations, tabulated.            *)
ShadowAfter[n \in 0..N] ==
    IF n = 0 THEN {Empty} ELSE UNION {Script(d, Migrations[n].body) : d \in ShadowAfter[n - 1]}

Shadows == {[n |-> n, db |-> d] : <<n, d>> \in UNION {{n} \X ShadowAfter[n] : n \in 0..N}}
Shadow(n) == (CHOOSE s \in Shadows : s.n = n).db

(***************************************************************************)
(* canonicalMigrationDelta: what migration n changes, cached.              *)
(***************************************************************************)
NamesIn(d) == {o.name : o \in d.obj}

Deltas == {
    LET before == Shadow(n - 1)  after == Shadow(n) IN
    [of |-> n,
     changed |-> {x \in NamesIn(before) \cup NamesIn(after) : Named(before, x) # Named(after, x)},
     fresh |-> NamesIn(after) \ NamesIn(before),
     columns |-> UNION {{t} \X (Columns(after, t) \ Columns(before, t)) : t \in NamesIn(after)},
     transient |-> {st.arg[1] : st \in {s \in ToSet(Migrations[n].body) : s.op = "rename"}}
                       \ NamesIn(after)] : n \in 1..N}
=============================================================================
