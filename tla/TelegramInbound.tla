---------------------------- MODULE TelegramInbound ----------------------------
(***************************************************************************)
(* Telegram's update queue and the polling worker: one poll after the      *)
(* other loads the durable offset once per process, asks for the updates   *)
(* from that offset, and for each one moves the offset before handling it. *)
(* Telegram forgets an update when it is asked for later ones. The process *)
(* may crash at any await, the database may refuse, and ownership may be   *)
(* lost; a restarted process starts from the stored offset.                *)
(*                                                                         *)
(* The operators named Wrong... are mistakes this code could contain; no   *)
(* definition uses them. Each makes one of the properties below fail.      *)
(***************************************************************************)
EXTENDS Naturals, Sequences

CONSTANTS Kind,          \* what each update is, by its number
          MaxCrashes, MaxLoadErrors, MaxSaveErrors, MaxHttpErrors  \* bounds: faults

InboundAssumption ==
  /\ Kind \in Seq({"command", "query", "callback", "badCallback", "foreign", "foreignCallback"})
  /\ \A n \in {MaxCrashes, MaxLoadErrors, MaxSaveErrors, MaxHttpErrors} : n \in Nat

Updates == 1 .. Len(Kind)
None == 0            \* no offset yet: update numbers start with 1
Offsets == 0 .. Len(Kind) + 1

VARIABLES
  unconfirmed,  \* the first update Telegram still keeps
  stored,       \* telegram_inbound_offsets
  nextOffset, offsetLoaded,
  step,         \* where the poll is
  batch,        \* the updates of the answer not yet looked at
  effects,      \* how often each update's command was executed
  outcome,      \* what became of each update, as the counters say
  held, running,
  faults        \* crashes, failed loads, saves and requests

vars == <<unconfirmed, stored, nextOffset, offsetLoaded, step, batch, effects, outcome, held,
          running, faults>>

TypeOK ==
  /\ unconfirmed \in 1 .. Len(Kind) + 1
  /\ {stored, nextOffset} \subseteq Offsets
  /\ offsetLoaded \in BOOLEAN /\ held \in BOOLEAN /\ running \in BOOLEAN
  /\ step \in {"idle", "load", "ask", "next", "route", "reply"}
  /\ \A i \in 1 .. Len(batch) : batch[i] \in Updates
  /\ effects \in [Updates -> 0 .. 2]
  /\ outcome \in [Updates -> {"none", "processed", "ignored", "failed"}]
  /\ faults \in [crash : 0 .. MaxCrashes, load : 0 .. MaxLoadErrors, save : 0 .. MaxSaveErrors,
                 http : 0 .. MaxHttpErrors]

Init ==
  /\ unconfirmed = 1 /\ stored = None
  /\ nextOffset = None /\ offsetLoaded = FALSE
  /\ step = "idle" /\ batch = <<>>
  /\ effects = [u \in Updates |-> 0] /\ outcome = [u \in Updates |-> "none"]
  /\ held = TRUE /\ running = TRUE
  /\ faults = [crash |-> 0, load |-> 0, save |-> 0, http |-> 0]

-----------------------------------------------------------------------------

\* Only a successful poll schedules the next one.
WrongMayPoll == running /\ held /\ faults.load + faults.http = 0

\* scheduleNextPoll, pollOnce
MayPoll == running /\ held

\* The timer of scheduleNextPoll: one poll ends before the next is scheduled.
Poll ==
  /\ step = "idle" /\ MayPoll
  /\ step' = "load"
  /\ UNCHANGED <<unconfirmed, stored, nextOffset, offsetLoaded, batch, effects, outcome, held,
                 running, faults>>

\* getTelegramInboundOffset
Loaded == stored

\* loadDurableOffsetIfNeeded marks the offset as loaded before it reads it: after a
\* failed read the poll fails, and the next one asks without an offset.
LoadOffset(ok) ==
  /\ step = "load" /\ held
  /\ offsetLoaded' = TRUE
  /\ IF offsetLoaded
     THEN ok /\ step' = "ask" /\ UNCHANGED <<nextOffset, faults>>
     ELSE IF ok
     THEN /\ step' = "ask" /\ nextOffset' = Loaded /\ UNCHANGED faults
     ELSE /\ faults.load < MaxLoadErrors /\ faults' = [faults EXCEPT !.load = @ + 1]
          /\ step' = "idle" /\ UNCHANGED nextOffset
  /\ UNCHANGED <<unconfirmed, stored, batch, effects, outcome, held, running>>

\* buildTelegramGetUpdatesUrl
AskFrom == nextOffset

\* getUpdates: Telegram drops what lies before the offset and answers with the rest;
\* an error or a timeout ends the poll.
GetUpdates(ok) ==
  /\ step = "ask" /\ held
  /\ unconfirmed' = IF AskFrom > unconfirmed THEN AskFrom ELSE unconfirmed
  /\ IF ok
     THEN /\ \E n \in 0 .. Len(Kind) + 1 - unconfirmed' :
               /\ n = 0 => unconfirmed' = Len(Kind) + 1
               /\ batch' = [i \in 1 .. n |-> unconfirmed' + i - 1]
          /\ step' = "next" /\ UNCHANGED faults
     ELSE /\ faults.http < MaxHttpErrors /\ faults' = [faults EXCEPT !.http = @ + 1]
          /\ step' = "idle" /\ UNCHANGED batch
  /\ UNCHANGED <<stored, nextOffset, offsetLoaded, effects, outcome, held, running>>

\* The offset goes to the update just received, whatever was seen before.
WrongAdvanced(u) == u

\* advanceOffset
Advanced(u) == IF nextOffset > u + 1 THEN nextOffset ELSE u + 1

\* isOperatorMessage, isAuthorizedTelegramCallbackQuery and the closed vocabulary of
\* parseTelegramReadOnlyCallbackAction: private chat, operator's chat and sender, and
\* for a callback data that names a read-only action.
Accepted(u) == Kind[u] \in {"command", "query", "callback"}

\* One update of the batch: the offset is moved in memory, then in the database; a
\* database error ends the poll, with this and the later updates unhandled. What is
\* not accepted counts as ignored.
AdvanceOffset(ok) ==
  /\ step = "next" /\ batch # <<>> /\ held
  /\ LET u == Head(batch) IN
     /\ nextOffset' = Advanced(u)
     /\ IF ok
        THEN /\ stored' = Advanced(u)
             /\ step' = IF Accepted(u) THEN "route" ELSE "next"
             /\ outcome' = IF Accepted(u) THEN outcome ELSE [outcome EXCEPT ![u] = "ignored"]
             /\ batch' = IF Accepted(u) THEN batch ELSE Tail(batch)
             /\ UNCHANGED faults
        ELSE /\ faults.save < MaxSaveErrors /\ faults' = [faults EXCEPT !.save = @ + 1]
             /\ step' = "idle" /\ batch' = <<>> /\ UNCHANGED <<stored, outcome>>
  /\ UNCHANGED <<unconfirmed, offsetLoaded, effects, held, running>>

PollEnds ==
  /\ step = "next" /\ batch = <<>>
  /\ step' = "idle"
  /\ UNCHANGED <<unconfirmed, stored, nextOffset, offsetLoaded, batch, effects, outcome, held,
                 running, faults>>

\* router.route and routeReadOnlyCallback: pause, resume, kill switch, sync and run act
\* on the system; every other command, and every callback, only reads.
Mutates(u) == Kind[u] = "command"

Route ==
  /\ step = "route" /\ held
  /\ effects' = IF Mutates(Head(batch)) /\ effects[Head(batch)] < 2
                THEN [effects EXCEPT ![Head(batch)] = @ + 1] ELSE effects
  /\ step' = "reply"
  /\ UNCHANGED <<unconfirmed, stored, nextOffset, offsetLoaded, batch, outcome, held, running,
                 faults>>

\* The reply is sent in pieces, a callback's message is edited; a failure is counted
\* and the next update is handled.
Reply(ok) ==
  /\ step = "reply" /\ held
  /\ outcome' = [outcome EXCEPT ![Head(batch)] = IF ok THEN "processed" ELSE "failed"]
  /\ batch' = Tail(batch) /\ step' = "next"
  /\ UNCHANGED <<unconfirmed, stored, nextOffset, offsetLoaded, effects, held, running, faults>>

-----------------------------------------------------------------------------

LoseOwnership ==
  /\ held /\ held' = FALSE
  /\ UNCHANGED <<unconfirmed, stored, nextOffset, offsetLoaded, step, batch, effects, outcome,
                 running, faults>>

\* handleRuntimeOwnershipFailure: the poll rejects and polling stops.
OwnershipThrows ==
  /\ ~held /\ running /\ step # "idle"
  /\ step' = "idle" /\ batch' = <<>> /\ running' = FALSE
  /\ UNCHANGED <<unconfirmed, stored, nextOffset, offsetLoaded, effects, outcome, held, faults>>

\* stop: the poll in flight goes on to its end.
Stop ==
  /\ running /\ running' = FALSE
  /\ UNCHANGED <<unconfirmed, stored, nextOffset, offsetLoaded, step, batch, effects, outcome,
                 held, faults>>

Crash ==
  /\ faults.crash < MaxCrashes /\ faults' = [faults EXCEPT !.crash = @ + 1]
  /\ nextOffset' = None /\ offsetLoaded' = FALSE /\ step' = "idle" /\ batch' = <<>>
  /\ held' = TRUE /\ running' = TRUE
  /\ UNCHANGED <<unconfirmed, stored, effects, outcome>>

PollSucceeds ==
  \/ Poll \/ LoadOffset(TRUE) \/ GetUpdates(TRUE) \/ AdvanceOffset(TRUE) \/ PollEnds \/ Route
  \/ \E ok \in BOOLEAN : Reply(ok)

Next ==
  \/ PollSucceeds
  \/ LoadOffset(FALSE) \/ GetUpdates(FALSE) \/ AdvanceOffset(FALSE)
  \/ LoseOwnership \/ OwnershipThrows \/ Stop \/ Crash

Spec == Init /\ [][Next]_vars

-----------------------------------------------------------------------------
(***************************************************************************)
(* Properties                                                              *)
(***************************************************************************)

\* No command of the operator is executed twice: not after a crash anywhere in a
\* poll, nor after an offset the database refused.
AtMostOnce == \A u \in Updates : effects[u] <= 1

\* The durable offset never moves back over updates already handled.
OffsetNeverMovesBack == stored' >= stored

\* An update the process asked Telegram to forget was handled, or refused, unless a
\* crash or a refused offset came between.
ForgottenWasHandled ==
  \A u \in Updates :
    u < unconfirmed /\ outcome[u] = "none" => faults.crash + faults.save > 0

=============================================================================
