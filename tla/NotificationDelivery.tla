-------------------------- MODULE NotificationDelivery --------------------------
(***************************************************************************)
(* Delivery of operator notifications over Telegram: the durable reporter, *)
(* the delivery service with its in-flight run and rerun request per       *)
(* process, and the operator_notifications table with its claim leases.    *)
(*                                                                         *)
(* Time is kept by what it decides: whether next_attempt_at still lies in  *)
(* the future and whether a claim's lease has expired. A claim's lease     *)
(* token is the number of the run that made it (createId never repeats).   *)
(* The delivery attempt and run records are written and never read back by *)
(* this code, so only the failure of writing them is here. The service is  *)
(* taken to be configured; otherwise a run records SKIPPED and does nothing.*)
(*                                                                         *)
(* The operators named Wrong... are mistakes this code could contain; no   *)
(* definition uses them. Each makes one of the properties below fail.      *)
(***************************************************************************)
EXTENDS Naturals, FiniteSets, FiniteSetsExt

CONSTANTS Proc,         \* incarnations of the runtime
          Note,         \* notifications
          MaxAttempts,  \* maxAttempts
          Limit,        \* notifications claimed per run
          MaxReports,   \* bound: calls of report
          MaxFaults     \* bound: crashes, ownership losses, takeovers, database errors

DeliveryAssumption == /\ IsFiniteSet(Proc) /\ IsFiniteSet(Note) /\ Note # {}
                      /\ MaxAttempts \in Nat \ {0}
                      /\ Limit \in Nat \ {0}
                      /\ MaxReports \in Nat /\ MaxFaults \in Nat

VARIABLES
  note,        \* the rows of operator_notifications
  phase,       \* each process: where its delivery run is
  todo,        \* the claimed notifications still to be sent
  current,     \* the notification being sent
  result,      \* how the send ended
  token,       \* the lease token of the run
  rerun,       \* rerunRequestedByExchangeAccount
  stopped,     \* the service was stopped
  held,        \* what assertLocallyHeld answers
  runs,        \* lease tokens given out
  sends,       \* requests made for each notification
  delivered,   \* messages the operator received for each notification
  lost,        \* answers that denied or lost a delivery that took place
  reports, faults

runVars == <<phase, todo, current, result, token>>
flagVars == <<rerun, stopped, held>>
histVars == <<sends, delivered, lost>>
vars == <<note, runVars, flagVars, runs, histVars, reports, faults>>

NoToken == 0
Statuses == {"none", "PENDING", "SENT", "FAILED"}
NoNote == [status |-> "none", attempts |-> 0, waiting |-> FALSE, token |-> NoToken,
           expired |-> FALSE]
Results == {"sent", "retryable", "permanent"}
\* settled: the run's promise is resolved, its finally callback has not run.
Phases == {"off", "idle", "claim", "loop", "sending", "answered", "settled", "dead"}

TypeOK ==
  /\ note \in [Note -> [status : Statuses, attempts : Nat, waiting : BOOLEAN,
                        token : Nat, expired : BOOLEAN]]
  /\ phase \in [Proc -> Phases]
  /\ todo \in [Proc -> SUBSET Note]
  /\ current \in [Proc -> Note]
  /\ result \in [Proc -> Results]
  /\ token \in [Proc -> Nat]
  /\ rerun \in [Proc -> BOOLEAN] /\ stopped \in [Proc -> BOOLEAN]
  /\ held \in [Proc -> BOOLEAN]
  /\ sends \in [Note -> Nat] /\ delivered \in [Note -> Nat]
  /\ {runs, lost, reports, faults} \subseteq Nat

Init ==
  /\ note = [n \in Note |-> NoNote]
  /\ phase = [p \in Proc |-> "off"]
  /\ todo = [p \in Proc |-> {}]
  /\ current \in {[p \in Proc |-> n] : n \in {CHOOSE n \in Note : TRUE}}
  /\ result = [p \in Proc |-> "sent"]
  /\ token = [p \in Proc |-> NoToken]
  /\ rerun = [p \in Proc |-> FALSE]
  /\ stopped = [p \in Proc |-> FALSE]
  /\ held = [p \in Proc |-> FALSE]
  /\ runs = 0 /\ lost = 0 /\ reports = 0 /\ faults = 0
  /\ sends = [n \in Note |-> 0]
  /\ delivered = [n \in Note |-> 0]

Running(p) == phase[p] \notin {"off", "dead"}
InFlight(p) == Running(p) /\ phase[p] # "idle"
Fault == faults < MaxFaults /\ faults' = faults + 1

-----------------------------------------------------------------------------
(***************************************************************************)
(* Starting runs                                                           *)
(***************************************************************************)

\* The owner comes up and delivers what is pending. A second incarnation
\* takes over while the first may not have noticed its loss.
Start(p) ==
  /\ phase[p] = "off"
  /\ IF \A q \in Proc : phase[q] = "off" THEN UNCHANGED faults ELSE Fault
  /\ phase' = [phase EXCEPT ![p] = "claim"]
  /\ held' = [held EXCEPT ![p] = TRUE]
  /\ UNCHANGED <<note, todo, current, result, token, rerun, stopped, runs, histVars, reports>>

\* kick: a run under way is asked to run once more; otherwise deliverPending
\* starts one, unless ownership is gone.
Kick(p) ==
  /\ rerun' = IF ~stopped[p] /\ InFlight(p) THEN [rerun EXCEPT ![p] = TRUE] ELSE rerun
  /\ phase' = IF ~stopped[p] /\ ~InFlight(p) /\ held[p]
              THEN [phase EXCEPT ![p] = "claim"] ELSE phase

\* DurableTelegramReporter.report: a new row, or the persisted one of the same
\* deterministic id; what is pending is kicked.
Report(p, n) ==
  /\ Running(p) /\ reports < MaxReports
  /\ reports' = reports + 1
  /\ note' = IF note[n].status = "none" THEN [note EXCEPT ![n].status = "PENDING"] ELSE note
  /\ IF note[n].status \in {"none", "PENDING"} THEN Kick(p) ELSE UNCHANGED <<rerun, phase>>
  /\ UNCHANGED <<todo, current, result, token, stopped, held, runs, histVars, faults>>

-----------------------------------------------------------------------------
(***************************************************************************)
(* One run: claim, send each, finalize each                                *)
(***************************************************************************)

\* What a claim may take: pending, due, and not claimed by a live lease.
Due(n) == /\ note[n].status = "PENDING" /\ ~note[n].waiting
          /\ (note[n].token = NoToken \/ note[n].expired)

\* Claiming charges the attempt before anything is sent.
Claimed(row, t) == [row EXCEPT !.attempts = @ + 1, !.token = t, !.expired = FALSE]

\* claimPendingOperatorNotifications: select and update in one synchronous step.
ClaimPending(p) ==
  /\ phase[p] = "claim" /\ held[p]
  /\ runs' = runs + 1
  /\ \E batch \in SUBSET {n \in Note : Due(n)} :
       /\ Cardinality(batch) = Min({Limit, Cardinality({n \in Note : Due(n)})})
       /\ note' = [n \in Note |-> IF n \in batch THEN Claimed(note[n], runs + 1) ELSE note[n]]
       /\ todo' = [todo EXCEPT ![p] = batch]
  /\ token' = [token EXCEPT ![p] = runs + 1]
  /\ phase' = [phase EXCEPT ![p] = "loop"]
  /\ UNCHANGED <<current, result, flagVars, histVars, reports, faults>>

\* The next claimed notification goes out, whatever has become of its lease.
SendMessage(p, n) ==
  /\ phase[p] = "loop" /\ held[p] /\ n \in todo[p]
  /\ todo' = [todo EXCEPT ![p] = @ \ {n}]
  /\ current' = [current EXCEPT ![p] = n]
  /\ sends' = [sends EXCEPT ![n] = @ + 1]
  /\ phase' = [phase EXCEPT ![p] = "sending"]
  /\ UNCHANGED <<note, result, token, flagVars, runs, delivered, lost, reports, faults>>

\* What the client makes of the exchange with Telegram: a delivered message may
\* be answered in time, time out (RETRYABLE), or come with an envelope the
\* client does not accept (PERMANENT).
Classify(got) == IF got THEN Results ELSE {"retryable", "permanent"}

TelegramAnswers(p) ==
  /\ phase[p] = "sending"
  /\ \E got \in BOOLEAN, r \in Results :
       /\ r \in Classify(got)
       /\ delivered' = IF got THEN [delivered EXCEPT ![current[p]] = @ + 1] ELSE delivered
       /\ lost' = IF got /\ r # "sent" THEN lost + 1 ELSE lost
       /\ result' = [result EXCEPT ![p] = r]
  /\ phase' = [phase EXCEPT ![p] = "answered"]
  /\ UNCHANGED <<note, todo, current, token, flagVars, runs, sends, reports, faults>>

\* A failed attempt is tried again while the budget lasts.
Outcome(p) ==
  CASE result[p] = "sent" -> [status |-> "SENT", waiting |-> FALSE]
    [] result[p] = "retryable" /\ note[current[p]].attempts < MaxAttempts
         -> [status |-> "PENDING", waiting |-> TRUE]
    [] OTHER -> [status |-> "FAILED", waiting |-> FALSE]

\* The row is looked up by id alone.
WrongStillClaimed(p) == note[current[p]].status # "none"

\* The compare of compareAndSetOperatorNotificationDeliveryStatus.
StillClaimed(p) == note[current[p]].token = token[p]

\* finalizeTransition: the outcome replaces the claim, unless the claim was taken.
Finalize(p) ==
  note' = IF StillClaimed(p)
          THEN [note EXCEPT ![current[p]] = [@ EXCEPT !.status = Outcome(p).status,
                                                      !.waiting = Outcome(p).waiting,
                                                      !.token = NoToken,
                                                      !.expired = FALSE]]
          ELSE note

\* The attempt record follows; when writing it fails the run may go on (after a
\* send) or fail, but the row is final.
DeliverRecord(p) ==
  /\ phase[p] = "answered" /\ held[p]
  /\ Finalize(p)
  /\ \/ phase' = [phase EXCEPT ![p] = "loop"] /\ UNCHANGED faults
     \/ phase' = [phase EXCEPT ![p] = "settled"] /\ Fault
  /\ UNCHANGED <<todo, current, result, token, flagVars, runs, histVars, reports>>

\* The compare-and-set itself throws: after a send this lands in the handler of
\* send failures, which classifies it as permanent; a second time the run fails.
FinalizeFails(p) ==
  /\ phase[p] = "answered" /\ held[p] /\ Fault
  /\ result' = [result EXCEPT ![p] = "permanent"]
  /\ phase' = IF result[p] = "sent" THEN phase ELSE [phase EXCEPT ![p] = "settled"]
  /\ UNCHANGED <<note, todo, current, token, flagVars, runs, histVars, reports>>

\* assertLocallyHeld throws between any two awaits: claims are left to expire.
OwnershipThrows(p) ==
  /\ phase[p] \in {"claim", "loop", "answered"} /\ ~held[p]
  /\ phase' = [phase EXCEPT ![p] = "settled"]
  /\ UNCHANGED <<note, todo, current, result, token, flagVars, runs, histVars, reports, faults>>

\* The claim's statements throw.
ClaimFails(p) ==
  /\ phase[p] = "claim" /\ held[p] /\ Fault
  /\ phase' = [phase EXCEPT ![p] = "settled"]
  /\ UNCHANGED <<note, todo, current, result, token, flagVars, runs, histVars, reports>>

\* runDeliveryUntilIdle: the batch is done, summarised and recorded; a request
\* made meanwhile is served by another pass.
RunCompletes(p) ==
  /\ phase[p] = "loop" /\ held[p] /\ todo[p] = {}
  /\ IF ~stopped[p] /\ rerun[p]
     THEN /\ phase' = [phase EXCEPT ![p] = "claim"]
          /\ rerun' = [rerun EXCEPT ![p] = FALSE]
     ELSE /\ phase' = [phase EXCEPT ![p] = "settled"]
          /\ UNCHANGED rerun
  /\ UNCHANGED <<note, todo, current, result, token, stopped, held, runs, histVars, reports,
                 faults>>

\* The finally callback: a request that came after the loop had looked is kicked.
Finally(p) ==
  /\ phase[p] = "settled"
  /\ IF ~stopped[p] /\ rerun[p]
     THEN /\ phase' = [phase EXCEPT ![p] = IF held[p] THEN "claim" ELSE "idle"]
          /\ rerun' = [rerun EXCEPT ![p] = FALSE]
     ELSE /\ phase' = [phase EXCEPT ![p] = "idle"]
          /\ UNCHANGED rerun
  /\ UNCHANGED <<note, todo, current, result, token, stopped, held, runs, histVars, reports,
                 faults>>

-----------------------------------------------------------------------------
(***************************************************************************)
(* Stop, faults and time                                                   *)
(***************************************************************************)

Stop(p) ==
  /\ Running(p) /\ ~stopped[p]
  /\ stopped' = [stopped EXCEPT ![p] = TRUE]
  /\ rerun' = [rerun EXCEPT ![p] = FALSE]
  /\ UNCHANGED <<note, runVars, held, runs, histVars, reports, faults>>

Crash(p) ==
  /\ Running(p) /\ Fault
  /\ phase' = [phase EXCEPT ![p] = "dead"]
  /\ UNCHANGED <<note, todo, current, result, token, flagVars, runs, histVars, reports>>

LoseOwnership(p) ==
  /\ Running(p) /\ held[p] /\ Fault
  /\ held' = [held EXCEPT ![p] = FALSE]
  /\ UNCHANGED <<note, runVars, rerun, stopped, runs, histVars, reports>>

LeaseExpires(n) ==
  /\ note[n].token # NoToken /\ ~note[n].expired
  /\ note' = [note EXCEPT ![n].expired = TRUE]
  /\ UNCHANGED <<runVars, flagVars, runs, histVars, reports, faults>>

BackoffEnds(n) ==
  /\ note[n].waiting
  /\ note' = [note EXCEPT ![n].waiting = FALSE]
  /\ UNCHANGED <<runVars, flagVars, runs, histVars, reports, faults>>

RunStep(p) ==
  \/ ClaimPending(p) \/ TelegramAnswers(p) \/ OwnershipThrows(p) \/ RunCompletes(p)
  \/ Finally(p) \/ \E n \in Note : SendMessage(p, n)
  \/ DeliverRecord(p)

Next ==
  \/ \E p \in Proc : \/ Start(p) \/ RunStep(p) \/ FinalizeFails(p) \/ ClaimFails(p)
                     \/ Stop(p) \/ Crash(p) \/ LoseOwnership(p)
                     \/ \E n \in Note : Report(p, n)
  \/ \E n \in Note : LeaseExpires(n) \/ BackoffEnds(n)

Spec == Init /\ [][Next]_vars

-----------------------------------------------------------------------------
(***************************************************************************)
(* Properties                                                              *)
(***************************************************************************)

\* Only the run whose claim stands decides a notification's fate, and it does so
\* once: a late finalize of an expired claim, in this process or a superseded
\* one, changes nothing (the lease_token compare).
FinalStatusStays ==
  \A n \in Note : note[n].status \in {"SENT", "FAILED"} => note'[n] = note[n]

\* A row says SENT only if the operator received the message.
SentWasDelivered == \A n \in Note : note[n].status = "SENT" => delivered[n] > 0

\* Every request to Telegram was charged to the row's attempt_count before it was
\* made, so that no crash, expiry or takeover makes an attempt free.
SendsAreCharged == \A n \in Note : sends[n] <= note[n].attempts

\* Without crash, ownership loss or database error a notification is tried at most
\* maxAttempts times, whoever kicks how often and however leases expire.
BudgetKept == faults = 0 => \A n \in Note : note[n].attempts <= MaxAttempts

\* The operator sees a notification twice only after a fault or an answer from
\* Telegram that was lost or not understood.
DuplicateHasCause == faults + lost = 0 => \A n \in Note : delivered[n] <= 1

=============================================================================
