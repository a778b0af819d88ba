----------------------- MODULE LiveDatabaseIdentity -----------------------
(***************************************************************************)
(* Which database file a LIVE runtime may use                              *)
(* (app/live-database-identity.ts, the open verification of                *)
(* sqlite-database.ts, runtime-ownership-context.ts and create-app.ts).    *)
(* An offline provisioner writes one identity row into a database; a LIVE  *)
(* runtime verifies the file at its configured path read-only, remembers   *)
(* the file's native identity, and then opens it twice for writing, once   *)
(* for the ownership store and once for the application, each time         *)
(* checking the remembered identity before the open and both the identity  *)
(* and the contents of the handle after it, before anything is written.    *)
(* Between any two of these steps the file at the path may be replaced or  *)
(* copied.  On Windows a file that is open cannot be replaced (Pinned).    *)
(***************************************************************************)
EXTENDS Naturals, FiniteSets, Sequences

CONSTANTS
    Files, Paths,    \* native files and canonical paths
    None,
    Runtimes, Provisioners,
    Config,          \* for each process the path and the identity it is given
    Starts,          \* initial states of the file system: [at, content]
    Pinned,          \* an open file cannot be replaced
    MaxMoves         \* bound: replacements and copies

Procs == Runtimes \cup Provisioners
Ids == {Config[p].id : p \in Procs}

ConfigAssumption ==
    /\ \A p \in Procs : Config[p].path \in Paths
    /\ Pinned \in BOOLEAN /\ MaxMoves \in Nat

VARIABLES
    at,        \* the file at each path
    content,   \* of each file: migrations, identity rows, whose data it holds
    pc,        \* where each process stands
    seen,      \* the file identity read before the contents were verified
    handle,    \* the file each process has open
    held,      \* the files a runtime keeps open, in the order it opened them
    moves      \* replacements and copies so far

vars == <<at, content, pc, seen, handle, held, moves>>

(* ledger: "full", "pending" migrations, an "unknown" one, or "empty", a   *)
(* file without the account's row; ident: the rows of                      *)
(* live_database_identity; data: identities whose runtime wrote.           *)
Contents == [ledger : {"full", "pending", "unknown", "empty"}, ident : SUBSET Ids,
             data : SUBSET Ids]
NewFile == [ledger |-> "empty", ident |-> {}, data |-> {}]

Init ==
    /\ \E s \in Starts : at = s.at /\ content = s.content
    /\ pc = [p \in Procs |-> "start"]
    /\ seen = [p \in Procs |-> None] /\ handle = [p \in Procs |-> None]
    /\ held = [r \in Runtimes |-> << >>]
    /\ moves = 0

Path(p) == Config[p].path
Id(p) == Config[p].id
Here(p) == at[Path(p)]

Goes(p, to) == pc' = [pc EXCEPT ![p] = to]

(* A failure closes what the process has open.                             *)
Refused(p) ==
    /\ Goes(p, "refused") /\ handle' = [handle EXCEPT ![p] = None]
    /\ held' = IF p \in Runtimes THEN [held EXCEPT ![p] = << >>] ELSE held
    /\ UNCHANGED <<at, content, seen, moves>>

(* validateMigrationLedger, validateExchangeAccount.                       *)
ValidLedger(f) == content[f].ledger = "full"

ValidIdentity(f, p) == content[f].ident = {Id(p)}

(* validateLiveDatabaseContents.                                           *)
Valid(f, p) == ValidLedger(f) /\ ValidIdentity(f, p)

(* assertFileIdentity: the file now at the path is the one verified.       *)
SameFile(p) == Here(p) = seen[p] /\ Here(p) # None

Open(f) == \/ f # None /\ \E p \in Procs : handle[p] = f
           \/ \E r \in Runtimes, i \in 1..2 : i <= Len(held[r]) /\ held[r][i] = f

Unused == {f \in Files : f \notin {at[x] : x \in Paths} /\ ~Open(f)}

(* new DatabaseSync for writing creates a file that is not there.          *)
Opens(p) ==
    \E f \in IF Here(p) = None THEN Unused ELSE {Here(p)} :
        /\ handle' = [handle EXCEPT ![p] = f]
        /\ at' = [at EXCEPT ![Path(p)] = f]
        /\ content' = IF Here(p) = None THEN [content EXCEPT ![f] = NewFile] ELSE content

----------------------------------------------------------------------------
(* verifyLiveDatabaseIdentity, at start-up.                                *)
Stat(r) ==
    /\ pc[r] = "start"
    /\ IF Here(r) = None THEN Refused(r)
       ELSE /\ seen' = [seen EXCEPT ![r] = Here(r)] /\ Goes(r, "readonly")
            /\ UNCHANGED <<at, content, handle, held, moves>>

OpenReadOnly(r) ==
    /\ pc[r] = "readonly"
    /\ IF Here(r) = None THEN Refused(r)
       ELSE /\ handle' = [handle EXCEPT ![r] = Here(r)] /\ Goes(r, "verify")
            /\ UNCHANGED <<at, content, seen, held, moves>>

Verify(r) ==
    /\ pc[r] = "verify"
    /\ IF ~(SameFile(r) /\ Valid(handle[r], r)) THEN Refused(r)
       ELSE /\ handle' = [handle EXCEPT ![r] = None] /\ Goes(r, "verified")
            /\ UNCHANGED <<at, content, seen, held, moves>>

(* openSqliteDatabase with the verification: assertBeforeOpen, the open,   *)
(* assertOpenedDatabase, and only then migrations and bootstrap.           *)
BeforeOpen(r) ==
    /\ pc[r] = "verified"
    /\ IF ~SameFile(r) THEN Refused(r)
       ELSE /\ Goes(r, "open") /\ UNCHANGED <<at, content, seen, handle, held, moves>>

OpenWritable(r) ==
    /\ pc[r] = "open"
    /\ Opens(r) /\ Goes(r, "assert")
    /\ UNCHANGED <<seen, held, moves>>

AssertOpened(r) ==
    /\ pc[r] = "assert"
    /\ IF ~(SameFile(r) /\ Valid(handle[r], r)) THEN Refused(r)
       ELSE Goes(r, "initialise") /\ UNCHANGED <<at, content, seen, handle, held, moves>>

(* Pending migrations are applied; an unknown one stays, and a new file    *)
(* stays without an account.                                               *)
Migrated(f) ==
    IF content[f].ledger = "pending" THEN [content EXCEPT ![f].ledger = "full"] ELSE content

(* The first open is the ownership store, the second the application.      *)
Initialise(r) ==
    /\ pc[r] = "initialise"
    /\ content' = [Migrated(handle[r]) EXCEPT ![handle[r]].data = @ \cup {Id(r)}]
    /\ held' = [held EXCEPT ![r] = Append(@, handle[r])]
    /\ handle' = [handle EXCEPT ![r] = None]
    /\ Goes(r, IF Len(held[r]) = 0 THEN "reverify" ELSE "running")
    /\ UNCHANGED <<at, seen, moves>>

(* createApp verifies again, but opens with the verification it was given. *)
Reverify(r) ==
    /\ pc[r] = "reverify"
    /\ IF Here(r) = None \/ ~Valid(Here(r), r) THEN Refused(r)
       ELSE Goes(r, "verified") /\ UNCHANGED <<at, content, seen, handle, held, moves>>

----------------------------------------------------------------------------
(* provisionLiveDatabaseIdentity.                                          *)
BoundOtherwise(f, q) == content[f].ledger = "empty" \/ content[f].ident \ {Id(q)} # {}

Inspect(q) ==
    /\ pc[q] = "start"
    /\ IF Here(q) = None \/ BoundOtherwise(Here(q), q) THEN Refused(q)
       ELSE Goes(q, "provision") /\ UNCHANGED <<at, content, seen, handle, held, moves>>

OpenToProvision(q) ==
    /\ pc[q] = "provision"
    /\ Opens(q) /\ Goes(q, "migrate")
    /\ UNCHANGED <<seen, held, moves>>

Migrate(q) ==
    /\ pc[q] = "migrate"
    /\ content' = Migrated(handle[q]) /\ Goes(q, "read")
    /\ UNCHANGED <<at, seen, handle, held, moves>>

ReadIdentity(q) ==
    /\ pc[q] = "read"
    /\ IF BoundOtherwise(handle[q], q) THEN Refused(q)
       ELSE /\ Goes(q, IF content[handle[q]].ident = {} THEN "insert" ELSE "check")
            /\ UNCHANGED <<at, content, seen, handle, held, moves>>

(* singleton_id is the primary key: a row written meanwhile is an error.   *)
Insert(q) ==
    /\ pc[q] = "insert"
    /\ IF content[handle[q]].ident # {} THEN Refused(q)
       ELSE /\ content' = [content EXCEPT ![handle[q]].ident = {Id(q)}]
            /\ Goes(q, "check")
            /\ UNCHANGED <<at, seen, handle, held, moves>>

(* The handle is closed and the result verified like a start-up.           *)
CheckProvisioned(q) ==
    /\ pc[q] = "check"
    /\ IF Here(q) = None \/ ~Valid(Here(q), q) THEN Refused(q)
       ELSE /\ Goes(q, "done") /\ handle' = [handle EXCEPT ![q] = None]
            /\ UNCHANGED <<at, content, seen, held, moves>>

----------------------------------------------------------------------------
(* The file system.                                                        *)
(* Another file is moved to the path, or the file there is removed.        *)
Replace(x, f) ==
    /\ moves < MaxMoves /\ moves' = moves + 1
    /\ Pinned => ~Open(at[x]) /\ ~Open(f)
    /\ f \notin {at[y] : y \in Paths} \ {None} /\ at' = [at EXCEPT ![x] = f]
    /\ UNCHANGED <<content, pc, seen, handle, held>>

(* A copy of the file at path x, in a file that is nowhere yet, to path y. *)
CopyTo(x, y, f) ==
    /\ moves < MaxMoves /\ moves' = moves + 1
    /\ at[x] # None /\ at[y] = None /\ f \in Unused
    /\ content' = [content EXCEPT ![f] = content[at[x]]]
    /\ at' = [at EXCEPT ![y] = f]
    /\ UNCHANGED <<pc, seen, handle, held>>

RuntimeStep(r) ==
    \/ Stat(r) \/ OpenReadOnly(r) \/ Verify(r) \/ BeforeOpen(r) \/ OpenWritable(r)
    \/ AssertOpened(r) \/ Initialise(r) \/ Reverify(r)

ProvisionStep(q) ==
    Inspect(q) \/ OpenToProvision(q) \/ Migrate(q) \/ ReadIdentity(q) \/ Insert(q) \/ CheckProvisioned(q)

Next ==
    \/ \E r \in Runtimes : RuntimeStep(r)
    \/ \E q \in Provisioners : ProvisionStep(q)
    \/ \E x \in Paths, f \in Files \cup {None} : Replace(x, f)
    \/ \E x, y \in Paths, f \in Files : CopyTo(x, y, f)

Spec == Init /\ [][Next]_vars

(***************************************************************************)
(* Properties                                                              *)
(***************************************************************************)

TypeOK ==
    /\ at \in [Paths -> Files \cup {None}]
    /\ content \in [Files -> Contents]
    /\ \A f \in Files : Cardinality(content[f].ident) <= 1
    /\ seen \in [Procs -> Files \cup {None}] /\ handle \in [Procs -> Files \cup {None}]
    /\ \A r \in Runtimes : Len(held[r]) <= 2
    /\ moves \in 0..MaxMoves

(* Provisioning never overwrites a binding, even when two provisioners     *)
(* with different identities both found the database unbound: a file that  *)
(* is bound stays bound to the same identity.                              *)
BindingKept ==
    \A f \in Files : content[f].ident # {} /\ at' = at =>
        content'[f].ident = content[f].ident

(* A LIVE runtime writes only into a database bound to its own identity,   *)
(* whatever file is put at its path between the verification and an open.  *)
WritesOwnDatabase ==
    \A f \in Files : \A i \in content[f].data : i \in content[f].ident

(* The ownership store and the application of one runtime are the same     *)
(* file, the one that was verified: the fence and the orders it protects   *)
(* are never in two databases.                                             *)
OneFile ==
    \A r \in Runtimes : pc[r] = "running" => held[r] = <<seen[r], seen[r]>>

(* A LIVE start never migrates: with a pending migration it is refused     *)
(* before the migration runner is reached.                                 *)
LiveNeverMigrates ==
    \A r \in Runtimes : RuntimeStep(r) /\ at' = at =>
        \A f \in Files : content'[f].ledger = content[f].ledger

=============================================================================
