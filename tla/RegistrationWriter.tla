------------------------- MODULE RegistrationWriter -------------------------
(* The writer of the prospective-shadow registration: publication of the
   registration directory behind an in-progress marker, the abandonment event
   appended under a lock directory, and the inspection that reads both.  Each
   step is one file-system call; operators may start several commands at
   once, any call may fail and any process may die between two calls. *)
EXTENDS Naturals, FiniteSets

CONSTANTS
  Registrars,   \* runs of the register command, each with its own suffix and clock
  Abandoners,   \* runs of the abandon command
  Inspectors,   \* runs of the inspect command
  MaxErrors,    \* bound: file-system calls that throw
  MaxCrashes,   \* bound: processes that die
  Free          \* no owner, no file

ConstantsAssumption ==
  /\ MaxErrors \in Nat /\ MaxCrashes \in Nat
  /\ Free \notin Registrars \cup Abandoners \cup Inspectors

VARIABLES
  dir,        \* the publication directory exists
  file,       \* its marker, registration and registry: Free, Torn or their content
  lock,       \* the abandonment lock directory: "none", "bare" or its owner file's content
  temp,       \* each abandoner's replacement file
  pc,         \* the next call of each process
  seen,       \* the bytes a process read and compares later
  expect,     \* the payload each abandon command was given
  errors, crashes,
  done,       \* processes that returned success
  published,  \* the registrations whose marker was ever removed by its owner
  accepted    \* what each inspection accepted

vars == <<dir, file, lock, temp, pc, seen, expect, errors, crashes, done, published, accepted>>

Processes == Registrars \cup Abandoners \cup Inspectors
Names == {"marker", "registration", "registry"}
Torn == [torn |-> TRUE]

\* The registry's bytes: the REGISTERED line, and the ABANDONED line appended to it.
Registry(r) == [by |-> r, abandoned |-> Free]
Registries == [by : Registrars, abandoned : Abandoners \cup {Free}]
Empty == [n \in Names |-> Free]

TypeOK ==
  /\ dir \in BOOLEAN
  /\ file.marker \in Registrars \cup {Free, Torn}
  /\ file.registration \in Registrars \cup {Free, Torn}
  /\ file.registry \in Registries \cup {Free, Torn}
  /\ lock \in {"none", "bare", "torn"} \cup Abandoners
  /\ temp \in [Abandoners -> Registries \cup {Free, Torn}]
  /\ errors \in 0..MaxErrors /\ crashes \in 0..MaxCrashes
  /\ ~dir => file = Empty
  /\ done \subseteq Processes /\ published \subseteq Registrars

Init ==
  /\ dir = FALSE /\ file = Empty /\ lock = "none"
  /\ temp = [a \in Abandoners |-> Free]
  /\ pc = [p \in Processes |->
             CASE p \in Registrars -> "check" [] p \in Abandoners -> "look" [] OTHER -> "marker"]
  /\ seen = [p \in Abandoners \cup Inspectors |-> Free]
  /\ expect \in [Abandoners -> Registrars]
  /\ errors = 0 /\ crashes = 0 /\ done = {} /\ published = {}
  /\ accepted = [i \in Inspectors |-> Free]

Goto(p, l) == pc' = [pc EXCEPT ![p] = l]
Calm == UNCHANGED <<errors, crashes>>
Files == <<dir, file, lock, temp>>
Results == <<done, published, accepted>>

----------------------------------------------------------------------------
(* register *)

\* Any existing directory, complete or not, refuses the registration.
CheckDirectory(r) ==
  /\ pc[r] = "check"
  /\ Goto(r, IF dir THEN "failed" ELSE "reserve")
  /\ Calm /\ UNCHANGED <<Files, seen, expect, Results>>

ReserveDirectory(r) ==
  /\ pc[r] = "reserve"
  /\ dir' = TRUE
  /\ Goto(r, IF dir THEN "failed" ELSE "mark")
  /\ Calm /\ UNCHANGED <<file, lock, temp, seen, expect, Results>>

\* The bytes each exclusive write of the publication puts down.
Content(r, n) == IF n = "registry" THEN Registry(r) ELSE r
WriteStep == [mark |-> "marker", write_registration |-> "registration", write_registry |-> "registry"]
AfterWrite == [mark |-> "write_registration", write_registration |-> "write_registry", write_registry |-> "verify"]

WriteArtifact(r) ==
  /\ pc[r] \in DOMAIN WriteStep
  /\ LET n == WriteStep[pc[r]] IN
     IF file[n] = Free
     THEN /\ file' = [file EXCEPT ![n] = Content(r, n)]
          /\ Goto(r, AfterWrite[pc[r]])
     ELSE /\ Goto(r, IF n = "marker" THEN "failed" ELSE "cleanup")
          /\ UNCHANGED file
  /\ Calm /\ UNCHANGED <<dir, lock, temp, seen, expect, Results>>

VerifyPublicationBytes(r) ==
  /\ pc[r] = "verify"
  /\ Goto(r, IF file.registration = r /\ file.registry = Registry(r) THEN "assert" ELSE "cleanup")
  /\ Calm /\ UNCHANGED <<Files, seen, expect, Results>>

AssertOwnedPublicationDirectory(r) ==
  /\ pc[r] = "assert"
  /\ Goto(r, IF file.marker = r /\ Free \notin {file.registration, file.registry}
             THEN "commit" ELSE "cleanup")
  /\ Calm /\ UNCHANGED <<Files, seen, expect, Results>>

\* Removing the marker is the commit point of the publication.
RemoveMarker(r) ==
  /\ pc[r] = "commit"
  /\ file' = [file EXCEPT !.marker = Free]
  /\ published' = published \cup {r}
  /\ done' = done \cup {r}
  /\ Goto(r, "done")
  /\ Calm /\ UNCHANGED <<dir, lock, temp, seen, expect, accepted>>

\* The directory is removed only behind the owner's own marker.
CheckMarkerBeforeRemoval(r) ==
  /\ pc[r] = "cleanup"
  /\ Goto(r, IF dir /\ file.marker = r THEN "remove" ELSE "failed")
  /\ Calm /\ UNCHANGED <<Files, seen, expect, Results>>

\* The recursive removal deletes the entries one by one, then the directory.
RemoveOwnedPublicationDirectory(r) ==
  /\ pc[r] = "remove"
  /\ \/ \E n \in Names :
          /\ file[n] # Free
          /\ file' = [file EXCEPT ![n] = Free]
          /\ UNCHANGED <<dir, pc>>
     \/ /\ file = Empty
        /\ dir' = FALSE /\ UNCHANGED file
        /\ Goto(r, "failed")
  /\ Calm /\ UNCHANGED <<lock, temp, seen, expect, Results>>

\* A call of the publication throws: a write may leave a torn file, a marker's
\* removal may have happened, a failed mkdir leaves nothing.
RegistrarError(r) ==
  /\ errors < MaxErrors /\ errors' = errors + 1
  /\ \/ /\ pc[r] \in {"check", "reserve"} /\ Goto(r, "failed") /\ UNCHANGED file
     \/ /\ pc[r] \in DOMAIN WriteStep
        /\ LET n == WriteStep[pc[r]] IN
             /\ file' \in {file, [file EXCEPT ![n] = IF @ = Free THEN Torn ELSE @]}
             /\ Goto(r, IF n = "marker" THEN "failed" ELSE "cleanup")
     \/ /\ pc[r] \in {"verify", "assert"} /\ Goto(r, "cleanup") /\ UNCHANGED file
     \/ /\ pc[r] = "commit" /\ Goto(r, "cleanup")
        /\ file' \in {file, [file EXCEPT !.marker = Free]}
     \/ /\ pc[r] \in {"cleanup", "remove"} /\ Goto(r, "failed") /\ UNCHANGED file
  /\ published' = IF pc[r] = "commit" /\ file'.marker = Free THEN published \cup {r} ELSE published
  /\ UNCHANGED <<dir, lock, temp, seen, expect, crashes, done, accepted>>

----------------------------------------------------------------------------
(* abandon *)

\* readCompletePublication: exact entries, no marker, canonical bytes.
ReadComplete == /\ dir /\ file.marker = Free
                /\ file.registration \in Registrars /\ file.registry \in Registries

LookAtPublication(a) ==
  /\ pc[a] = "look"
  /\ Goto(a, IF ReadComplete THEN "lock" ELSE "failed")
  /\ Calm /\ UNCHANGED <<Files, seen, expect, Results>>

TakeLock(a) ==
  /\ pc[a] = "lock"
  /\ IF lock = "none" THEN lock' = "bare" /\ Goto(a, "own") ELSE UNCHANGED lock /\ Goto(a, "failed")
  /\ Calm /\ UNCHANGED <<dir, file, temp, seen, expect, Results>>

WriteLockOwner(a) ==
  /\ pc[a] = "own"
  /\ IF lock = "bare" THEN lock' = a /\ Goto(a, "read") ELSE UNCHANGED lock /\ Goto(a, "failed")
  /\ Calm /\ UNCHANGED <<dir, file, temp, seen, expect, Results>>

\* The payload must be the expected one, one with the registry's, and not abandoned.
ReadInitial(a) ==
  /\ pc[a] = "read"
  /\ IF /\ ReadComplete /\ file.registration = expect[a]
        /\ file.registry.by = file.registration /\ file.registry.abandoned = Free
     THEN seen' = [seen EXCEPT ![a] = <<file.registration, file.registry>>] /\ Goto(a, "replace")
     ELSE UNCHANGED seen /\ Goto(a, "release")
  /\ Calm /\ UNCHANGED <<Files, expect, Results>>

\* The original bytes with the ABANDONED line appended; read back at once.
WriteReplacement(a) ==
  /\ pc[a] = "replace"
  /\ temp' = [temp EXCEPT ![a] = [seen[a][2] EXCEPT !.abandoned = a]]
  /\ Goto(a, "reread")
  /\ Calm /\ UNCHANGED <<dir, file, lock, seen, expect, Results>>

\* The publication is read again, and the lock must still be this process's own.
CheckUnchanged(a) ==
  /\ pc[a] = "reread"
  /\ Goto(a, IF /\ ReadComplete /\ seen[a] = <<file.registration, file.registry>>
                /\ temp[a] = [seen[a][2] EXCEPT !.abandoned = a]
             THEN "locked" ELSE "untemp")
  /\ Calm /\ UNCHANGED <<Files, seen, expect, Results>>

AssertOwnedLock(a) ==
  /\ pc[a] = "locked"
  /\ Goto(a, IF lock = a THEN "rename" ELSE "untemp")
  /\ Calm /\ UNCHANGED <<Files, seen, expect, Results>>

\* The rename commits the abandonment, whatever the cleanup then reports.
ReplaceRegistry(a) ==
  /\ pc[a] = "rename"
  /\ IF dir
     THEN /\ file' = [file EXCEPT !.registry = temp[a]]
          /\ temp' = [temp EXCEPT ![a] = Free]
          /\ done' = done \cup {a}
     ELSE UNCHANGED <<file, temp, done>>
  /\ Goto(a, "untemp")
  /\ Calm /\ UNCHANGED <<dir, lock, seen, expect, published, accepted>>

RemoveReplacement(a) ==
  /\ pc[a] = "untemp"
  /\ temp' = [temp EXCEPT ![a] = Free]
  /\ Goto(a, "release")
  /\ Calm /\ UNCHANGED <<dir, file, lock, seen, expect, Results>>

\* The lock is released only while its owner file is this process's.
ReleaseLock(a) ==
  /\ pc[a] = "release"
  /\ lock' = IF lock = a THEN "none" ELSE lock
  /\ Goto(a, "done")
  /\ Calm /\ UNCHANGED <<dir, file, temp, seen, expect, Results>>

AbandonerError(a) ==
  /\ errors < MaxErrors /\ errors' = errors + 1
  /\ \/ /\ pc[a] \in {"look", "lock", "release"} /\ Goto(a, "failed") /\ UNCHANGED <<lock, temp>>
     \/ /\ pc[a] = "own" /\ Goto(a, "failed") /\ UNCHANGED temp
        /\ lock' \in {lock, IF lock = "bare" THEN "torn" ELSE lock}
     \/ /\ pc[a] = "read" /\ Goto(a, "release") /\ UNCHANGED <<lock, temp>>
     \/ /\ pc[a] = "replace" /\ Goto(a, "release")
        /\ temp' \in {temp, [temp EXCEPT ![a] = Torn]} /\ UNCHANGED lock
     \/ /\ pc[a] \in {"reread", "locked", "rename"} /\ Goto(a, "untemp") /\ UNCHANGED <<lock, temp>>
     \/ /\ pc[a] = "untemp" /\ Goto(a, "release") /\ UNCHANGED <<lock, temp>>
  /\ UNCHANGED <<dir, file, seen, expect, crashes, Results>>

----------------------------------------------------------------------------
(* inspect: the marker is looked for first, the two files are read after it *)

InspectMarker(i) ==
  /\ pc[i] = "marker"
  /\ Goto(i, IF dir /\ Free \notin {file.registration, file.registry} /\ file.marker = Free
             THEN "registration" ELSE "failed")
  /\ Calm /\ UNCHANGED <<Files, seen, expect, Results>>

InspectRegistration(i) ==
  /\ pc[i] = "registration"
  /\ IF file.registration \in Registrars
     THEN seen' = [seen EXCEPT ![i] = file.registration] /\ Goto(i, "registry")
     ELSE UNCHANGED seen /\ Goto(i, "failed")
  /\ Calm /\ UNCHANGED <<Files, expect, Results>>

InspectRegistry(i) ==
  /\ pc[i] = "registry"
  /\ IF file.registry \in Registries /\ file.registry.by = seen[i]
     THEN accepted' = [accepted EXCEPT ![i] = file.registry] /\ done' = done \cup {i} /\ Goto(i, "done")
     ELSE UNCHANGED <<accepted, done>> /\ Goto(i, "failed")
  /\ Calm /\ UNCHANGED <<Files, seen, expect, published>>

----------------------------------------------------------------------------

\* The process is killed between two calls, or in the middle of a removal.
Crash(p) ==
  /\ crashes < MaxCrashes /\ crashes' = crashes + 1
  /\ pc[p] \notin {"done", "failed", "dead"}
  /\ Goto(p, "dead")
  /\ UNCHANGED <<Files, seen, expect, errors, Results>>

Register(r) ==
  \/ CheckDirectory(r) \/ ReserveDirectory(r) \/ WriteArtifact(r)
  \/ VerifyPublicationBytes(r) \/ AssertOwnedPublicationDirectory(r) \/ RemoveMarker(r)
  \/ CheckMarkerBeforeRemoval(r) \/ RemoveOwnedPublicationDirectory(r) \/ RegistrarError(r)

Abandon(a) ==
  \/ LookAtPublication(a) \/ TakeLock(a) \/ WriteLockOwner(a) \/ ReadInitial(a)
  \/ WriteReplacement(a) \/ CheckUnchanged(a) \/ AssertOwnedLock(a) \/ ReplaceRegistry(a)
  \/ RemoveReplacement(a) \/ ReleaseLock(a) \/ AbandonerError(a)

Inspect(i) == InspectMarker(i) \/ InspectRegistration(i) \/ InspectRegistry(i)

Next ==
  \/ \E r \in Registrars : Register(r)
  \/ \E a \in Abandoners : Abandon(a)
  \/ \E i \in Inspectors : Inspect(i)
  \/ \E p \in Processes : Crash(p)

Spec == Init /\ [][Next]_vars
----------------------------------------------------------------------------

\* Of all register commands, however they overlap, fail and die, one at most
\* ever publishes, and what it published stays: no other command's failure
\* path removes or replaces its registration (publishProspectiveShadowRegistration).
PublicationStays ==
  /\ Cardinality(published) <= 1
  /\ \A r \in published :
       dir /\ file.marker = Free /\ file.registration = r /\ file.registry \in Registries /\ file.registry.by = r

\* An abandon command that returned success is the one whose ABANDONED line is
\* in the registry of the publication it was told to abandon
\* (appendProspectiveShadowAbandonment).
AbandonmentKept ==
  \A a \in Abandoners \cap done :
    expect[a] \in published => file.registry = [by |-> expect[a], abandoned |-> a]

\* An inspection never accepts a directory whose publication was not committed:
\* "a crash residue requires explicit inspection and is never silently adopted"
\* (runProspectiveComponentShadowCli, readProspectiveComponentShadowInspection).
ResidueNeverAdopted ==
  \A i \in Inspectors : accepted[i] # Free => accepted[i].by \in published
=============================================================================
