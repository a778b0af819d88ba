---------------------- MODULE NotificationDeliveryProofs ----------------------
(***************************************************************************)
(* Delivery of notifications by any number of processes, each with its own *)
(* claims, through crashes, takeovers, expired leases and lost answers.    *)
(* What holds always is DeliveryInv and Charged; what holds until the      *)
(* first fault is Quiet: one process has every claimed row in hand.        *)
(***************************************************************************)
EXTENDS NotificationDelivery, FiniteSetTheorems, TLAPS

\* Only a pending row is claimed or waits for its backoff.
RowsSettled ==
  \A n \in Note : note[n].status # "PENDING" => note[n].token = NoToken /\ ~note[n].waiting

\* A run that sends has a lease token, and an answer "sent" was delivered.
RunsHonest ==
  \A p \in Proc :
    /\ phase[p] \in {"loop", "sending", "answered"} => token[p] # NoToken
    /\ phase[p] = "answered" /\ result[p] = "sent" => delivered[current[p]] > 0

DeliveryInv == TypeOK /\ RowsSettled /\ RunsHonest /\ SentWasDelivered

-----------------------------------------------------------------------------
(***************************************************************************)
(* The rows.                                                               *)
(***************************************************************************)

\* How a row can change in a step.
Reported(n) == note[n].status = "none" /\ note' = [note EXCEPT ![n].status = "PENDING"]

Claims(p, batch) ==
  /\ phase[p] = "claim" /\ held[p] /\ batch \subseteq {n \in Note : Due(n)}
  /\ note' = [n \in Note |-> IF n \in batch THEN Claimed(note[n], runs + 1) ELSE note[n]]

Finalizes(p) == phase[p] = "answered" /\ held[p] /\ StillClaimed(p) /\ Finalize(p)

Ages(n) ==
  \/ note[n].token # NoToken /\ note' = [note EXCEPT ![n].expired = TRUE]
  \/ note[n].waiting /\ note' = [note EXCEPT ![n].waiting = FALSE]

RowStep ==
  \/ note' = note
  \/ \E n \in Note : Reported(n) \/ Ages(n)
  \/ \E p \in Proc : Finalizes(p) \/ \E batch \in SUBSET Note : Claims(p, batch)

\* The rows change only by a report, a claim, the finalize of a claim that stands,
\* and the passing of time.
LEMMA RowSteps ==
  ASSUME Next
  PROVE  RowStep
<1> USE DEF runVars, flagVars, histVars
<1>1. ASSUME NEW p \in Proc, NEW n \in Note, Report(p, n) PROVE RowStep
  BY <1>1 DEF Report, RowStep, Reported
<1>2. ASSUME NEW p \in Proc, ClaimPending(p) PROVE RowStep
  BY <1>2 DEF ClaimPending, RowStep, Claims
<1>3. ASSUME NEW p \in Proc, DeliverRecord(p) PROVE RowStep
  BY <1>3 DEF DeliverRecord, Finalize, RowStep, Finalizes
<1>4. ASSUME NEW n \in Note, LeaseExpires(n) \/ BackoffEnds(n) PROVE RowStep
  BY <1>4 DEF LeaseExpires, BackoffEnds, RowStep, Ages
<1>5. QED
  BY <1>1, <1>2, <1>3, <1>4
     DEF Next, RunStep, RowStep, Start, FinalizeFails, ClaimFails, Stop, Crash, LoseOwnership,
         TelegramAnswers, OwnershipThrows, RunCompletes, Finally, SendMessage

\* The outcome of an attempt is SENT, FAILED, or a pending row with budget left.
LEMMA OutcomeShape ==
  ASSUME NEW p \in Proc
  PROVE  \/ Outcome(p).status = "SENT" /\ Outcome(p).waiting = FALSE /\ result[p] = "sent"
         \/ Outcome(p).status = "FAILED" /\ Outcome(p).waiting = FALSE /\ result[p] # "sent"
         \/ /\ Outcome(p).status = "PENDING" /\ Outcome(p).waiting = TRUE
            /\ result[p] # "sent" /\ note[current[p]].attempts < MaxAttempts
<1>1. \/ Outcome(p) = [status |-> "SENT", waiting |-> FALSE] /\ result[p] = "sent"
      \/ Outcome(p) = [status |-> "FAILED", waiting |-> FALSE] /\ result[p] # "sent"
      \/ /\ Outcome(p) = [status |-> "PENDING", waiting |-> TRUE]
         /\ result[p] # "sent" /\ note[current[p]].attempts < MaxAttempts
  BY DEF Outcome
<1>2. /\ [status |-> "SENT", waiting |-> FALSE].status = "SENT"
      /\ [status |-> "SENT", waiting |-> FALSE].waiting = FALSE
      /\ [status |-> "FAILED", waiting |-> FALSE].status = "FAILED"
      /\ [status |-> "FAILED", waiting |-> FALSE].waiting = FALSE
      /\ [status |-> "PENDING", waiting |-> TRUE].status = "PENDING"
      /\ [status |-> "PENDING", waiting |-> TRUE].waiting = TRUE
  OBVIOUS
<1>3. QED
  BY <1>1, <1>2, Zenon

Rows == [status : Statuses, attempts : Nat, waiting : BOOLEAN, token : Nat, expired : BOOLEAN]

\* What each row may become.
RowMoves(n) ==
  /\ note'[n] \in Rows
  /\ note'[n].status # "PENDING" => note'[n].token = NoToken /\ ~note'[n].waiting
  /\ note[n].status \in {"SENT", "FAILED"} => note'[n] = note[n]

\* The rows stay well typed, and a final row stays as it is.
LEMMA RowStepKeeps ==
  ASSUME TypeOK, RowsSettled, RunsHonest, RowStep
  PROVE  /\ note' \in [Note -> Rows] /\ RowsSettled'
         /\ FinalStatusStays
<1>t. /\ note \in [Note -> Rows] /\ runs \in Nat /\ current \in [Proc -> Note]
      /\ \A n \in Note : /\ note[n] \in Rows
                         /\ note[n].status # "PENDING" =>
                              note[n].token = NoToken /\ ~note[n].waiting
  BY DEF TypeOK, Rows, RowsSettled
<1>s. ASSUME NEW n \in Note, NEW row, note' = [note EXCEPT ![n] = row],
             row \in Rows, note[n].status \notin {"SENT", "FAILED"},
             row.status # "PENDING" => row.token = NoToken /\ ~row.waiting
      PROVE  note' = [m \in Note |-> note'[m]] /\ \A m \in Note : RowMoves(m)
  <2>1. /\ note' = [m \in Note |-> note'[m]]
        /\ \A m \in Note : note'[m] = IF m = n THEN row ELSE note[m]
    BY <1>s, <1>t
  <2>2. ASSUME NEW m \in Note PROVE RowMoves(m)
    <3>1. CASE m = n
      BY <2>1, <3>1, <1>s, <1>t DEF RowMoves
    <3>2. CASE m # n
      BY <2>1, <3>2, <1>t DEF RowMoves
    <3>3. QED
      BY <3>1, <3>2
  <2>3. QED
    BY <2>1, <2>2
<1>1. CASE note' = note
  BY <1>1, <1>t DEF RowsSettled, FinalStatusStays
<1>2. ASSUME NEW n \in Note, Reported(n)
      PROVE  note' = [m \in Note |-> note'[m]] /\ \A m \in Note : RowMoves(m)
  <2> DEFINE row == [note[n] EXCEPT !.status = "PENDING"]
  <2>1. note' = [note EXCEPT ![n] = row] /\ note[n].status = "none"
    BY <1>2 DEF Reported
  <2>2. row \in Rows /\ row.status = "PENDING"
    BY <1>t DEF Rows, Statuses
  <2>3. QED
    BY <1>s, <2>1, <2>2
<1>3. ASSUME NEW n \in Note, Ages(n)
      PROVE  note' = [m \in Note |-> note'[m]] /\ \A m \in Note : RowMoves(m)
  <2>0. note[n] \in Rows /\ note[n].status = "PENDING"
    BY <1>3, <1>t DEF Ages
  <2>1. CASE note' = [note EXCEPT ![n].expired = TRUE]
    <3> DEFINE row == [note[n] EXCEPT !.expired = TRUE]
    <3>1. row \in Rows /\ row.status = "PENDING"
      BY <2>0 DEF Rows
    <3>2. QED
      BY <1>s, <2>0, <2>1, <3>1
  <2>2. CASE note' = [note EXCEPT ![n].waiting = FALSE]
    <3> DEFINE row == [note[n] EXCEPT !.waiting = FALSE]
    <3>1. row \in Rows /\ row.status = "PENDING"
      BY <2>0 DEF Rows
    <3>2. QED
      BY <1>s, <2>0, <2>2, <3>1
  <2>3. QED
    BY <1>3, <2>1, <2>2 DEF Ages
<1>4. ASSUME NEW p \in Proc, NEW batch \in SUBSET Note, Claims(p, batch)
      PROVE  note' = [m \in Note |-> note'[m]] /\ \A m \in Note : RowMoves(m)
  <2>1. note' = [n \in Note |-> IF n \in batch THEN Claimed(note[n], runs + 1) ELSE note[n]]
    BY <1>4 DEF Claims
  <2>2. ASSUME NEW m \in Note PROVE RowMoves(m)
    <3>1. CASE m \notin batch
      BY <2>1, <3>1, <1>t DEF RowMoves
    <3>2. CASE m \in batch
      <4>1. note[m].status = "PENDING" /\ note'[m] = Claimed(note[m], runs + 1)
        BY <1>4, <2>1, <3>2 DEF Claims, Due
      <4>2. note'[m] \in Rows /\ note'[m].status = "PENDING"
        <5>1. note[m].attempts + 1 \in Nat /\ runs + 1 \in Nat
          BY <1>t DEF Rows
        <5>2. note'[m] = [note[m] EXCEPT !.attempts = note[m].attempts + 1, !.token = runs + 1,
                                         !.expired = FALSE]
          BY <4>1 DEF Claimed
        <5>3. QED
          BY <4>1, <5>1, <5>2, <1>t DEF Rows
      <4>3. QED
        BY <4>1, <4>2 DEF RowMoves
    <3>3. QED
      BY <3>1, <3>2
  <2>3. QED
    BY <2>1, <2>2
<1>5. ASSUME NEW p \in Proc, Finalizes(p)
      PROVE  note' = [m \in Note |-> note'[m]] /\ \A m \in Note : RowMoves(m)
  <2>3. /\ Outcome(p).status \in Statuses /\ Outcome(p).waiting \in BOOLEAN
        /\ Outcome(p).status # "PENDING" => ~Outcome(p).waiting
    BY OutcomeShape, Zenon DEF Statuses
  <2> DEFINE n == current[p]
  <2>1. /\ n \in Note /\ note[n].status = "PENDING" /\ note[n] \in Rows
    BY <1>5, <1>t DEF Finalizes, StillClaimed, RunsHonest
  <2> DEFINE row == [note[n] EXCEPT !.status = Outcome(p).status, !.waiting = Outcome(p).waiting,
                                    !.token = NoToken, !.expired = FALSE]
  <2>4. note' = [note EXCEPT ![n] = row]
    BY <1>5 DEF Finalizes, Finalize
  <2>5. /\ row \in Rows /\ row.token = NoToken /\ row.status = Outcome(p).status
        /\ row.waiting = Outcome(p).waiting
    BY <2>1, <2>3 DEF Rows, NoToken
  <2>6. QED
    <3> HIDE DEF row
    <3> QED
      BY <1>s, <2>1, <2>3, <2>4, <2>5
<1>6. note' = [m \in Note |-> note'[m]] /\ \A m \in Note : RowMoves(m)
  BY <1>1, <1>2, <1>3, <1>4, <1>5, <1>t DEF RowStep, RowMoves
<1>7. QED
  BY <1>6 DEF RowMoves, RowsSettled, FinalStatusStays
-----------------------------------------------------------------------------
(***************************************************************************)
(* The runs.                                                               *)
(***************************************************************************)

\* What the processes and the history keep, apart from the rows.
RunTypes ==
  /\ phase \in [Proc -> Phases] /\ todo \in [Proc -> SUBSET Note]
  /\ current \in [Proc -> Note] /\ result \in [Proc -> Results] /\ token \in [Proc -> Nat]
  /\ rerun \in [Proc -> BOOLEAN] /\ stopped \in [Proc -> BOOLEAN] /\ held \in [Proc -> BOOLEAN]
  /\ sends \in [Note -> Nat] /\ delivered \in [Note -> Nat]
  /\ runs \in Nat /\ lost \in Nat /\ reports \in Nat /\ faults \in Nat

LEMMA TypeParts == TypeOK <=> note \in [Note -> Rows] /\ RunTypes
BY DEF TypeOK, RunTypes, Rows

\* Every step leaves the processes and the history well typed.
LEMMA RunTypeStep ==
  ASSUME RunTypes, [Next]_vars
  PROVE  RunTypes'
<1> USE DEF runVars, flagVars, histVars
<1>1. ASSUME NEW p \in Proc, NEW n \in Note, Report(p, n) PROVE RunTypes'
  <2>1. rerun' \in [Proc -> BOOLEAN]
    <3>1. rerun' = rerun \/ rerun' = [rerun EXCEPT ![p] = TRUE]
      BY <1>1 DEF Report, Kick
    <3>2. QED
      BY <3>1 DEF RunTypes
  <2>2. phase' \in [Proc -> Phases]
    <3>1. phase' = phase \/ phase' = [phase EXCEPT ![p] = "claim"]
      BY <1>1 DEF Report, Kick
    <3>2. QED
      BY <3>1 DEF RunTypes, Phases
  <2>3. QED
    BY <1>1, <2>1, <2>2 DEF Report, RunTypes
<1>2. ASSUME NEW p \in Proc, ClaimPending(p) PROVE RunTypes'
  <2>1. todo' \in [Proc -> SUBSET Note]
    BY <1>2 DEF ClaimPending, RunTypes
  <2>2. QED
    BY <1>2, <2>1 DEF ClaimPending, RunTypes, Phases
<1>3. ASSUME NEW p \in Proc, DeliverRecord(p) PROVE RunTypes'
  BY <1>3 DEF DeliverRecord, Fault, RunTypes, Phases
<1>4. ASSUME NEW n \in Note, LeaseExpires(n) \/ BackoffEnds(n) PROVE RunTypes'
  BY <1>4 DEF LeaseExpires, BackoffEnds, RunTypes
<1>5. ASSUME NEW p \in Proc, Start(p) PROVE RunTypes'
  BY <1>5 DEF Start, Fault, RunTypes, Phases
<1>6. ASSUME NEW p \in Proc, NEW n \in Note, SendMessage(p, n) PROVE RunTypes'
  BY <1>6 DEF SendMessage, RunTypes, Phases
<1>7. ASSUME NEW p \in Proc, TelegramAnswers(p) PROVE RunTypes'
  BY <1>7 DEF TelegramAnswers, RunTypes, Phases
<1>8. ASSUME NEW p \in Proc, FinalizeFails(p) PROVE RunTypes'
  BY <1>8 DEF FinalizeFails, Fault, RunTypes, Phases, Results
<1>9. ASSUME NEW p \in Proc, OwnershipThrows(p) \/ ClaimFails(p) PROVE RunTypes'
  BY <1>9 DEF OwnershipThrows, ClaimFails, Fault, RunTypes, Phases
<1>10. ASSUME NEW p \in Proc, RunCompletes(p) PROVE RunTypes'
  BY <1>10 DEF RunCompletes, RunTypes, Phases
<1>11. ASSUME NEW p \in Proc, Finally(p) PROVE RunTypes'
  BY <1>11 DEF Finally, RunTypes, Phases
<1>12. ASSUME NEW p \in Proc, Stop(p) \/ Crash(p) \/ LoseOwnership(p) PROVE RunTypes'
  <2>1. CASE Stop(p)
    BY <2>1 DEF Stop, RunTypes
  <2>2. CASE Crash(p)
    BY <2>2 DEF Crash, Fault, RunTypes, Phases
  <2>3. CASE LoseOwnership(p)
    BY <2>3 DEF LoseOwnership, Fault, RunTypes
  <2>4. QED
    BY <1>12, <2>1, <2>2, <2>3
<1>13. CASE UNCHANGED vars
  BY <1>13 DEF vars, RunTypes
<1>14. QED
  BY <1>1, <1>2, <1>3, <1>4, <1>5, <1>6, <1>7, <1>8, <1>9, <1>10, <1>11, <1>12, <1>13
     DEF Next, RunStep

\* A step leaves a run with a token as long as it sends, and an answer "sent" means
\* that the message arrived; the counts of arrivals only grow.
LEMMA RunsHonestStep ==
  ASSUME RunTypes, RunsHonest, [Next]_vars
  PROVE  RunsHonest' /\ \A n \in Note : delivered'[n] >= delivered[n]
<1> DEFINE Goal == RunsHonest' /\ \A n \in Note : delivered'[n] >= delivered[n]
<1> USE DEF runVars, flagVars, histVars
<1>1. ASSUME NEW p \in Proc, NEW n \in Note, Report(p, n) PROVE Goal
  BY <1>1 DEF Report, Kick, RunTypes, RunsHonest
<1>2. ASSUME NEW p \in Proc, ClaimPending(p) PROVE Goal
  BY <1>2 DEF ClaimPending, RunTypes, RunsHonest, NoToken
<1>3. ASSUME NEW p \in Proc, DeliverRecord(p) PROVE Goal
  BY <1>3 DEF DeliverRecord, RunTypes, RunsHonest
<1>4. ASSUME NEW n \in Note, LeaseExpires(n) \/ BackoffEnds(n) PROVE Goal
  BY <1>4 DEF LeaseExpires, BackoffEnds, RunTypes, RunsHonest
<1>5. ASSUME NEW p \in Proc, Start(p) PROVE Goal
  BY <1>5 DEF Start, RunTypes, RunsHonest
<1>6. ASSUME NEW p \in Proc, NEW n \in Note, SendMessage(p, n) PROVE Goal
  BY <1>6 DEF SendMessage, RunTypes, RunsHonest
<1>7. ASSUME NEW p \in Proc, TelegramAnswers(p) PROVE Goal
  <2>1. PICK got \in BOOLEAN, r \in Results :
          /\ r \in Classify(got)
          /\ delivered' = IF got THEN [delivered EXCEPT ![current[p]] = @ + 1] ELSE delivered
          /\ result' = [result EXCEPT ![p] = r]
    BY <1>7 DEF TelegramAnswers
  <2>2. r = "sent" => got
    BY <2>1 DEF Classify
  <2>3. /\ \A n \in Note : delivered'[n] >= delivered[n]
        /\ r = "sent" => delivered'[current[p]] > 0
    BY <2>1, <2>2 DEF RunTypes
  <2>4. QED
    BY <1>7, <2>1, <2>3 DEF TelegramAnswers, RunTypes, RunsHonest
<1>8. ASSUME NEW p \in Proc, FinalizeFails(p) PROVE Goal
  BY <1>8 DEF FinalizeFails, RunTypes, RunsHonest
<1>9. ASSUME NEW p \in Proc, OwnershipThrows(p) \/ ClaimFails(p) PROVE Goal
  BY <1>9 DEF OwnershipThrows, ClaimFails, RunTypes, RunsHonest
<1>10. ASSUME NEW p \in Proc, RunCompletes(p) PROVE Goal
  BY <1>10 DEF RunCompletes, RunTypes, RunsHonest
<1>11. ASSUME NEW p \in Proc, Finally(p) PROVE Goal
  BY <1>11 DEF Finally, RunTypes, RunsHonest
<1>12. ASSUME NEW p \in Proc, Stop(p) \/ Crash(p) \/ LoseOwnership(p) PROVE Goal
  BY <1>12 DEF Stop, Crash, LoseOwnership, RunTypes, RunsHonest
<1>13. CASE UNCHANGED vars
  BY <1>13 DEF vars, RunTypes, RunsHonest
<1>14. QED
  BY <1>1, <1>2, <1>3, <1>4, <1>5, <1>6, <1>7, <1>8, <1>9, <1>10, <1>11, <1>12, <1>13
     DEF Next, RunStep
-----------------------------------------------------------------------------
(***************************************************************************)
(* Every request is charged; without faults one run holds every claim.     *)
(***************************************************************************)

\* The runs that may still send a notification they claimed.
Holders(n) == {p \in Proc : n \in todo[p]}

\* The requests made and the requests to come fit into what was charged.
Charged == \A n \in Note : sends[n] + Cardinality(Holders(n)) <= note[n].attempts

\* What a run still has to finalize.
InHand(p) == IF phase[p] \in {"sending", "answered"} THEN todo[p] \cup {current[p]} ELSE todo[p]

\* At most one process runs, and holds its ownership.
Alone == /\ \A p \in Proc : phase[p] # "dead" /\ (phase[p] # "off" => held[p])
         /\ \A p, q \in Proc : phase[p] # "off" /\ phase[q] # "off" => p = q

\* A run works off its batch before it ends, each notification once.
Batches == \A p \in Proc :
             /\ phase[p] \notin {"loop", "sending", "answered"} => todo[p] = {}
             /\ phase[p] \in {"sending", "answered"} => current[p] \notin todo[p]

\* The claimed rows are exactly what the running process has in hand.
ClaimsHeld ==
  /\ \A p \in Proc : \A n \in InHand(p) : note[n].token = token[p]
  /\ \A n \in Note : note[n].token # NoToken => \E p \in Proc : n \in InHand(p)

\* A row that can be claimed has budget left.
Budgeted == \A n \in Note :
              /\ note[n].attempts <= MaxAttempts
              /\ note[n].status \in {"none", "PENDING"} /\ note[n].token = NoToken =>
                   note[n].attempts < MaxAttempts

\* The rows after a claim, the finalize of a claim that stands, and the other steps.
LEMMA ClaimRows ==
  ASSUME TypeOK, NEW p \in Proc, NEW batch \in SUBSET Note, Claims(p, batch), NEW n \in Note
  PROVE  /\ n \notin batch => note'[n] = note[n]
         /\ n \in batch => /\ Due(n) /\ note'[n].status = note[n].status
                           /\ note'[n].attempts = note[n].attempts + 1
                           /\ note'[n].token = runs + 1
<1>1. note[n] \in Rows
  BY DEF TypeOK, Rows
<1>2. note'[n] = IF n \in batch THEN Claimed(note[n], runs + 1) ELSE note[n]
  BY DEF Claims
<1>3. n \in batch => Due(n)
  BY DEF Claims
<1>4. n \in batch => note'[n] = [note[n] EXCEPT !.attempts = note[n].attempts + 1,
                                                !.token = runs + 1, !.expired = FALSE]
  BY <1>2 DEF Claimed
<1>5. QED
  BY <1>1, <1>2, <1>3, <1>4 DEF Rows

LEMMA FinalizeRows ==
  ASSUME TypeOK, NEW p \in Proc, Finalizes(p)
  PROVE  /\ \A n \in Note : n # current[p] => note'[n] = note[n]
         /\ note'[current[p]].status = Outcome(p).status
         /\ note'[current[p]].attempts = note[current[p]].attempts
         /\ note'[current[p]].token = NoToken
<1> DEFINE n == current[p]
<1> DEFINE row == [note[n] EXCEPT !.status = Outcome(p).status, !.waiting = Outcome(p).waiting,
                                  !.token = NoToken, !.expired = FALSE]
<1>1. note \in [Note -> Rows] /\ n \in Note /\ note[n] \in Rows
  BY DEF TypeOK, Rows
<1>2. note' = [note EXCEPT ![n] = row]
  BY DEF Finalizes, Finalize
<1>3. row.status = Outcome(p).status /\ row.attempts = note[n].attempts /\ row.token = NoToken
  BY <1>1 DEF Rows
<1>4. QED
  <2> HIDE DEF row
  <2> QED
    BY <1>1, <1>2, <1>3

LEMMA ReportRows ==
  ASSUME TypeOK, NEW m \in Note, Reported(m), NEW n \in Note
  PROVE  /\ note'[n].attempts = note[n].attempts /\ note'[n].token = note[n].token
         /\ n # m => note'[n].status = note[n].status
         /\ note[m].status = "none" /\ note'[m].status = "PENDING"
<1>1. note \in [Note -> Rows] /\ note[n] \in Rows /\ note[m] \in Rows
  BY DEF TypeOK, Rows
<1>2. /\ note' = [note EXCEPT ![m] = [note[m] EXCEPT !.status = "PENDING"]]
      /\ note[m].status = "none"
  BY DEF Reported
<1>3. note'[n] = IF n = m THEN [note[m] EXCEPT !.status = "PENDING"] ELSE note[n]
  BY <1>1, <1>2
<1>4. note'[m] = [note[m] EXCEPT !.status = "PENDING"]
  BY <1>1, <1>2
<1>5. QED
  BY <1>1, <1>2, <1>3, <1>4 DEF Rows

LEMMA AgeRows ==
  ASSUME TypeOK, NEW m \in Note, Ages(m), NEW n \in Note
  PROVE  /\ note'[n].attempts = note[n].attempts /\ note'[n].token = note[n].token
         /\ note'[n].status = note[n].status
<1>1. note \in [Note -> Rows] /\ note[n] \in Rows
  BY DEF TypeOK, Rows
<1>2. CASE note' = [note EXCEPT ![m].expired = TRUE]
  <2>1. note'[n] = IF n = m THEN [note[n] EXCEPT !.expired = TRUE] ELSE note[n]
    BY <1>1, <1>2
  <2>2. QED
    BY <1>1, <2>1 DEF Rows
<1>3. CASE note' = [note EXCEPT ![m].waiting = FALSE]
  <2>1. note'[n] = IF n = m THEN [note[n] EXCEPT !.waiting = FALSE] ELSE note[n]
    BY <1>1, <1>3
  <2>2. QED
    BY <1>1, <2>1 DEF Rows
<1>4. QED
  BY <1>2, <1>3 DEF Ages

\* A row says SENT only after an answer "sent", which is given for a message that arrived.
LEMMA SentStep ==
  ASSUME TypeOK, RunsHonest, SentWasDelivered, RowStep,
         \A n \in Note : delivered'[n] >= delivered[n], delivered' \in [Note -> Nat]
  PROVE  SentWasDelivered'
<1> SUFFICES ASSUME NEW n \in Note, note'[n].status = "SENT"
             PROVE  delivered[n] > 0
  BY DEF SentWasDelivered, TypeOK
<1>0. delivered[n] \in Nat
  BY DEF TypeOK
<1>1. CASE note' = note
  BY <1>1 DEF SentWasDelivered
<1>2. ASSUME NEW m \in Note, Reported(m) PROVE delivered[n] > 0
  BY <1>2, ReportRows DEF SentWasDelivered
<1>3. ASSUME NEW m \in Note, Ages(m) PROVE delivered[n] > 0
  BY <1>3, AgeRows DEF SentWasDelivered
<1>4. ASSUME NEW p \in Proc, NEW batch \in SUBSET Note, Claims(p, batch) PROVE delivered[n] > 0
  BY <1>4, ClaimRows DEF SentWasDelivered
<1>5. ASSUME NEW p \in Proc, Finalizes(p) PROVE delivered[n] > 0
  <2>1. CASE n # current[p]
    BY <1>5, <2>1, FinalizeRows DEF SentWasDelivered
  <2>2. CASE n = current[p]
    <3>1. Outcome(p).status = "SENT"
      BY <1>5, <2>2, FinalizeRows
    <3>2. result[p] = "sent"
      BY <3>1, OutcomeShape
    <3>3. QED
      BY <1>5, <2>2, <3>2 DEF Finalizes, RunsHonest
  <2>3. QED
    BY <2>1, <2>2
<1>6. QED
  BY <1>1, <1>2, <1>3, <1>4, <1>5 DEF RowStep
\* Attempts are never uncharged.
LEMMA ChargesStay ==
  ASSUME TypeOK, RowStep, NEW n \in Note
  PROVE  note'[n].attempts >= note[n].attempts
<1>0. note[n].attempts \in Nat
  BY DEF TypeOK
<1>1. CASE note' = note
  BY <1>0, <1>1
<1>2. ASSUME NEW m \in Note, Reported(m) \/ Ages(m) PROVE note'[n].attempts >= note[n].attempts
  BY <1>0, <1>2, ReportRows, AgeRows
<1>3. ASSUME NEW p \in Proc, NEW batch \in SUBSET Note, Claims(p, batch)
      PROVE  note'[n].attempts >= note[n].attempts
  <2>1. note'[n] = note[n] \/ note'[n].attempts = note[n].attempts + 1
    BY <1>3, ClaimRows
  <2>2. QED
    BY <1>0, <2>1
<1>4. ASSUME NEW p \in Proc, Finalizes(p) PROVE note'[n].attempts >= note[n].attempts
  <2>1. note'[n].attempts = note[n].attempts
    BY <1>4, FinalizeRows
  <2>2. QED
    BY <1>0, <2>1
<1>5. QED
  BY <1>1, <1>2, <1>3, <1>4 DEF RowStep

\* The claim charges what it hands to the run, and sending uses up one charge.
LEMMA ChargedStep ==
  ASSUME DeliveryAssumption, TypeOK, TypeOK', Charged, [Next]_vars
  PROVE  Charged'
<1> SUFFICES ASSUME NEW n \in Note
             PROVE  sends'[n] + Cardinality(Holders(n)') <= note'[n].attempts
  BY DEF Charged
<1>f. /\ IsFiniteSet(Holders(n)) /\ Cardinality(Holders(n)) \in Nat
      /\ IsFiniteSet(Holders(n)') /\ Cardinality(Holders(n)') \in Nat
  <2>1. Holders(n) \subseteq Proc /\ Holders(n)' \subseteq Proc /\ IsFiniteSet(Proc)
    BY DEF Holders, DeliveryAssumption
  <2>2. QED
    BY <2>1, FS_Subset, FS_CardinalityType
<1>t. /\ sends[n] \in Nat /\ sends'[n] \in Nat
      /\ note[n].attempts \in Nat /\ note'[n].attempts \in Nat
      /\ sends[n] + Cardinality(Holders(n)) <= note[n].attempts
  BY DEF TypeOK, Charged
<1>1. ASSUME NEW p \in Proc, ClaimPending(p)
      PROVE  sends'[n] + Cardinality(Holders(n)') <= note'[n].attempts
  <2>1. PICK batch \in SUBSET Note : Claims(p, batch) /\ todo' = [todo EXCEPT ![p] = batch]
    BY <1>1 DEF ClaimPending, Claims
  <2>2. sends' = sends
    BY <1>1 DEF ClaimPending, histVars
  <2>3. CASE n \in batch
    <3>1. Holders(n)' \subseteq Holders(n) \cup {p}
      BY <2>1 DEF Holders, TypeOK
    <3>2. /\ IsFiniteSet(Holders(n) \cup {p})
          /\ Cardinality(Holders(n) \cup {p}) <= Cardinality(Holders(n)) + 1
          /\ Cardinality(Holders(n) \cup {p}) \in Nat
      <4>1. /\ IsFiniteSet(Holders(n) \cup {p})
            /\ \/ Cardinality(Holders(n) \cup {p}) = Cardinality(Holders(n))
               \/ Cardinality(Holders(n) \cup {p}) = Cardinality(Holders(n)) + 1
        BY <1>f, FS_AddElement, Zenon
      <4>2. QED
        BY <1>f, <4>1
    <3>3. Cardinality(Holders(n)') <= Cardinality(Holders(n) \cup {p})
      BY <3>1, <3>2, FS_Subset
    <3>4. note'[n].attempts = note[n].attempts + 1
      BY <2>1, <2>3, ClaimRows
    <3>5. QED
      BY <1>f, <1>t, <2>2, <3>2, <3>3, <3>4
  <2>4. CASE n \notin batch
    <3>1. Holders(n)' \subseteq Holders(n)
      BY <2>1, <2>4 DEF Holders, TypeOK
    <3>2. Cardinality(Holders(n)') <= Cardinality(Holders(n))
      BY <1>f, <3>1, FS_Subset
    <3>3. note'[n] = note[n]
      BY <2>1, <2>4, ClaimRows
    <3>4. QED
      BY <1>f, <1>t, <2>2, <3>2, <3>3
  <2>5. QED
    BY <2>3, <2>4
<1>2. ASSUME NEW p \in Proc, NEW m \in Note, SendMessage(p, m)
      PROVE  sends'[n] + Cardinality(Holders(n)') <= note'[n].attempts
  <2>1. /\ phase[p] = "loop" /\ m \in todo[p] /\ todo' = [todo EXCEPT ![p] = todo[p] \ {m}]
        /\ sends' = [sends EXCEPT ![m] = sends[m] + 1] /\ note' = note
    BY <1>2 DEF SendMessage
  <2>2. CASE n = m
    <3>1. Holders(n)' = Holders(n) \ {p} /\ p \in Holders(n)
      BY <2>1, <2>2 DEF Holders, TypeOK
    <3>2. Cardinality(Holders(n)') = Cardinality(Holders(n)) - 1
      BY <1>f, <3>1, FS_RemoveElement
    <3>3. sends'[n] = sends[n] + 1
      BY <2>1, <2>2 DEF TypeOK
    <3>4. QED
      BY <1>f, <1>t, <2>1, <3>2, <3>3
  <2>3. CASE n # m
    <3>1. Holders(n)' = Holders(n)
      BY <2>1, <2>3 DEF Holders, TypeOK
    <3>2. sends'[n] = sends[n]
      BY <2>1, <2>3 DEF TypeOK
    <3>3. QED
      BY <1>t, <2>1, <3>1, <3>2
  <2>4. QED
    BY <2>2, <2>3
<1>3. CASE todo' = todo /\ sends' = sends /\ (RowStep \/ note' = note)
  <2>1. Holders(n)' = Holders(n)
    BY <1>3 DEF Holders
  <2>2. note'[n].attempts >= note[n].attempts
    BY <1>3, <1>t, ChargesStay
  <2>3. QED
    BY <1>3, <1>t, <1>f, <2>1, <2>2
<1>4. CASE UNCHANGED vars
  BY <1>3, <1>4 DEF vars, runVars, histVars
<1>5. CASE Next
  <2>1. RowStep
    BY <1>5, RowSteps
  <2>2. QED
    <3> USE DEF runVars, flagVars, histVars
    <3>1. ASSUME NEW p \in Proc, Start(p) \/ FinalizeFails(p) \/ ClaimFails(p) \/ Stop(p)
                 \/ Crash(p) \/ LoseOwnership(p) \/ TelegramAnswers(p) \/ OwnershipThrows(p)
                 \/ RunCompletes(p) \/ Finally(p) \/ DeliverRecord(p)
          PROVE  todo' = todo /\ sends' = sends
      BY <3>1 DEF Start, FinalizeFails, ClaimFails, Stop, Crash, LoseOwnership, TelegramAnswers,
                  OwnershipThrows, RunCompletes, Finally, DeliverRecord
    <3>2. ASSUME NEW p \in Proc, NEW m \in Note, Report(p, m)
          PROVE  todo' = todo /\ sends' = sends
      BY <3>2 DEF Report
    <3>3. ASSUME NEW m \in Note, LeaseExpires(m) \/ BackoffEnds(m)
          PROVE  todo' = todo /\ sends' = sends
      BY <3>3 DEF LeaseExpires, BackoffEnds
    <3>4. QED
      BY <1>1, <1>2, <1>3, <1>5, <2>1, <3>1, <3>2, <3>3 DEF Next, RunStep
<1>6. QED
  BY <1>4, <1>5
-----------------------------------------------------------------------------
(***************************************************************************)
(* Without faults.                                                         *)
(***************************************************************************)

Quiet == Alone /\ Batches /\ ClaimsHeld /\ Budgeted

\* Beside a process that runs, nobody has anything in hand.
LEMMA OthersEmpty ==
  ASSUME Alone, Batches, NEW p \in Proc, phase[p] # "off", NEW q \in Proc, q # p
  PROVE  phase[q] = "off" /\ todo[q] = {} /\ InHand(q) = {}
BY DEF Alone, Batches, InHand

\* Claiming: nothing is claimed beforehand, so each row taken has budget left.
LEMMA QuietClaims ==
  ASSUME DeliveryAssumption, TypeOK, Quiet, NEW p \in Proc, ClaimPending(p)
  PROVE  Quiet'
<1> USE DEF runVars, flagVars, histVars
<1>1. /\ phase[p] = "claim" /\ phase' = [phase EXCEPT ![p] = "loop"] /\ held' = held
      /\ token' = [token EXCEPT ![p] = runs + 1] /\ current' = current
  BY DEF ClaimPending
<1>2. PICK batch \in SUBSET Note : Claims(p, batch) /\ todo' = [todo EXCEPT ![p] = batch]
  BY DEF ClaimPending, Claims
<1>3. \A q \in Proc : todo[q] = {} /\ InHand(q) = {} /\ (q # p => phase[q] = "off")
  BY <1>1, OthersEmpty DEF Quiet, Batches, InHand
<1>4. \A n \in Note : note[n].token = NoToken
  BY <1>3 DEF Quiet, ClaimsHeld
<1>5. Alone'
  BY <1>1 DEF Quiet, Alone, TypeOK
<1>6. Batches'
  BY <1>1, <1>2, <1>3 DEF Quiet, Batches, TypeOK
<1>7. \A q \in Proc : InHand(q)' = IF q = p THEN batch ELSE {}
  BY <1>1, <1>2, <1>3 DEF InHand, TypeOK
<1>8. ClaimsHeld'
  <2>1. token'[p] = runs + 1
    BY <1>1 DEF TypeOK
  <2>2. \A n \in batch : note'[n].token = runs + 1
    BY <1>2, ClaimRows
  <2>3. \A n \in Note : n \notin batch => note'[n].token = NoToken
    BY <1>2, <1>4, ClaimRows
  <2>4. QED
    BY <1>7, <2>1, <2>2, <2>3 DEF ClaimsHeld
<1>9. Budgeted'
  <2> SUFFICES ASSUME NEW n \in Note
               PROVE  /\ note'[n].attempts <= MaxAttempts
                      /\ note'[n].status \in {"none", "PENDING"} /\ note'[n].token = NoToken =>
                           note'[n].attempts < MaxAttempts
    BY DEF Budgeted
  <2>1. CASE n \notin batch
    BY <1>2, <2>1, ClaimRows DEF Quiet, Budgeted
  <2>2. CASE n \in batch
    <3>1. /\ Due(n) /\ note'[n].attempts = note[n].attempts + 1 /\ note'[n].token = runs + 1
      BY <1>2, <2>2, ClaimRows
    <3>2. note[n].attempts < MaxAttempts /\ note[n].attempts \in Nat /\ runs \in Nat
      BY <1>4, <3>1 DEF Due, Quiet, Budgeted, TypeOK
    <3>3. note'[n].token # NoToken /\ note'[n].attempts <= MaxAttempts
      BY <3>1, <3>2 DEF DeliveryAssumption, NoToken
    <3>4. QED
      BY <3>3
  <2>3. QED
    BY <2>1, <2>2
<1>10. QED
  BY <1>5, <1>6, <1>8, <1>9 DEF Quiet

\* Sending moves a notification from the batch to the one being sent.
LEMMA QuietSends ==
  ASSUME TypeOK, Quiet, NEW p \in Proc, NEW n \in Note, SendMessage(p, n)
  PROVE  Quiet'
<1> USE DEF runVars, flagVars, histVars
<1>1. /\ phase[p] = "loop" /\ n \in todo[p] /\ todo' = [todo EXCEPT ![p] = todo[p] \ {n}]
      /\ current' = [current EXCEPT ![p] = n] /\ phase' = [phase EXCEPT ![p] = "sending"]
      /\ note' = note /\ token' = token /\ held' = held
  BY DEF SendMessage
<1>2. Alone' /\ Batches'
  BY <1>1 DEF Quiet, Alone, Batches, TypeOK
<1>3. \A q \in Proc : InHand(q)' = InHand(q)
  <2> TAKE q \in Proc
  <2>1. CASE q = p
    <3>1. /\ phase'[p] = "sending" /\ todo'[p] = todo[p] \ {n} /\ current'[p] = n
      BY <1>1 DEF TypeOK
    <3>2. QED
      BY <1>1, <2>1, <3>1 DEF InHand
  <2>2. CASE q # p
    BY <1>1, <2>2 DEF InHand, TypeOK
  <2>3. QED
    BY <2>1, <2>2
<1>4. ClaimsHeld' /\ Budgeted'
  BY <1>1, <1>3 DEF Quiet, ClaimsHeld, Budgeted
<1>5. QED
  BY <1>2, <1>4 DEF Quiet

\* The finalize finds its claim standing; a row it leaves pending has budget left.
LEMMA QuietFinalizes ==
  ASSUME TypeOK, Quiet, NEW p \in Proc, DeliverRecord(p),
         phase' = [phase EXCEPT ![p] = "loop"]
  PROVE  Quiet'
<1> USE DEF runVars, flagVars, histVars
<1>1. /\ phase[p] = "answered" /\ todo' = todo /\ current' = current /\ token' = token
      /\ held' = held
  BY DEF DeliverRecord
<1>2. current[p] \in InHand(p) /\ current[p] \notin todo[p] /\ current[p] \in Note
  BY <1>1 DEF InHand, Quiet, Batches, TypeOK
<1>3. StillClaimed(p)
  BY <1>2 DEF StillClaimed, Quiet, ClaimsHeld
<1>4. Finalizes(p)
  BY <1>3 DEF Finalizes, DeliverRecord
<1>5. Alone' /\ Batches'
  BY <1>1 DEF Quiet, Alone, Batches, TypeOK
<1>6. \A q \in Proc : q # p => InHand(q) = {} /\ InHand(q)' = {}
  <2> TAKE q \in Proc
  <2>1. q # p => phase[q] = "off" /\ todo[q] = {} /\ InHand(q) = {}
    BY <1>1, OthersEmpty DEF Quiet
  <2>2. q # p => phase'[q] = phase[q]
    BY DEF TypeOK
  <2>3. QED
    BY <1>1, <2>1, <2>2 DEF InHand
<1>7. InHand(p)' = todo[p] /\ InHand(p) = todo[p] \cup {current[p]}
  <2>1. phase'[p] = "loop"
    BY DEF TypeOK
  <2>2. QED
    BY <1>1, <2>1 DEF InHand
<1>8. ClaimsHeld'
  <2>1. ASSUME NEW n \in todo[p] PROVE note'[n].token = token[p]
    BY <1>2, <1>4, <1>7, FinalizeRows DEF Quiet, ClaimsHeld, TypeOK
  <2>2. ASSUME NEW n \in Note, note'[n].token # NoToken PROVE n \in todo[p]
    <3>1. n # current[p] /\ note'[n] = note[n]
      BY <1>4, <2>2, FinalizeRows
    <3>2. PICK q \in Proc : n \in InHand(q)
      BY <2>2, <3>1 DEF Quiet, ClaimsHeld
    <3>3. QED
      BY <1>6, <1>7, <3>1, <3>2
  <2>3. QED
    BY <1>1, <1>6, <1>7, <2>1, <2>2 DEF ClaimsHeld
<1>9. Budgeted'
  <2> SUFFICES ASSUME NEW n \in Note
               PROVE  /\ note'[n].attempts <= MaxAttempts
                      /\ note'[n].status \in {"none", "PENDING"} /\ note'[n].token = NoToken =>
                           note'[n].attempts < MaxAttempts
    BY DEF Budgeted
  <2>1. CASE n # current[p]
    BY <1>4, <2>1, FinalizeRows DEF Quiet, Budgeted
  <2>2. CASE n = current[p]
    <3>1. /\ note'[n].status = Outcome(p).status /\ note'[n].attempts = note[n].attempts
      BY <1>4, <2>2, FinalizeRows
    <3>2. Outcome(p).status \in {"none", "PENDING"} => note[n].attempts < MaxAttempts
      BY <2>2, OutcomeShape
    <3>3. QED
      BY <3>1, <3>2 DEF Quiet, Budgeted
  <2>3. QED
    BY <2>1, <2>2
<1>10. QED
  BY <1>5, <1>8, <1>9 DEF Quiet
\* Every process keeps what it has in hand, and every row its claim and its budget.
SameHands ==
  /\ todo' = todo /\ current' = current /\ token' = token
  /\ \A q \in Proc : phase'[q] \in {"sending", "answered"} <=> phase[q] \in {"sending", "answered"}

SameCharges ==
  \A n \in Note : /\ note'[n].attempts = note[n].attempts
                  /\ note'[n].token = note[n].token
                  /\ \/ note'[n].status = note[n].status
                     \/ note[n].status = "none" /\ note'[n].status = "PENDING"

\* A step that leaves claims, attempts and budgets alone keeps the invariant when it only
\* moves processes between phases that have the same in hand.
LEMMA QuietFrame ==
  ASSUME TypeOK, Quiet, Alone', Batches', SameHands, SameCharges
  PROVE  Quiet'
<1>1. \A q \in Proc : InHand(q)' = InHand(q)
  BY DEF InHand, SameHands
<1>2. ClaimsHeld'
  BY <1>1 DEF Quiet, ClaimsHeld, InHand, TypeOK, SameHands, SameCharges
<1>3. Budgeted'
  BY DEF Quiet, Budgeted, SameCharges
<1>4. QED
  BY <1>2, <1>3 DEF Quiet

\* A step that is not a fault keeps the claims in one hand.
LEMMA QuietStep ==
  ASSUME DeliveryAssumption, TypeOK, Quiet, [Next]_vars, faults = 0, faults' = 0
  PROVE  Quiet'
<1> USE DEF runVars, flagVars, histVars
<1>f. ~Fault
  BY DEF Fault
<1>1. ASSUME NEW p \in Proc, NEW m \in Note, Report(p, m) PROVE Quiet'
  <2>1. note' = note \/ Reported(m)
    BY <1>1 DEF Report, Reported
  <2>2. SameCharges
    BY <2>1, ReportRows DEF SameCharges
  <2>3. phase' = phase \/ (phase[p] = "idle" /\ phase' = [phase EXCEPT ![p] = "claim"])
    <3>1. phase' = phase \/ (~InFlight(p) /\ phase' = [phase EXCEPT ![p] = "claim"])
      BY <1>1 DEF Report, Kick
    <3>2. Running(p)
      BY <1>1 DEF Report
    <3>3. QED
      BY <3>1, <3>2 DEF InFlight
  <2>4. todo' = todo /\ current' = current /\ token' = token /\ held' = held
    BY <1>1 DEF Report
  <2>5. Alone' /\ Batches'
    BY <2>3, <2>4 DEF Quiet, Alone, Batches, TypeOK
  <2>6. SameHands
    BY <2>3, <2>4 DEF TypeOK, SameHands
  <2>7. QED
    BY <2>2, <2>5, <2>6, QuietFrame
<1>2. ASSUME NEW p \in Proc, Start(p) PROVE Quiet'
  <2>1. \A q \in Proc : phase[q] = "off"
    BY <1>2, <1>f DEF Start
  <2>2. /\ todo' = todo /\ current' = current /\ token' = token /\ note' = note
        /\ phase' = [phase EXCEPT ![p] = "claim"] /\ held' = [held EXCEPT ![p] = TRUE]
    BY <1>2 DEF Start
  <2>3. Alone' /\ Batches'
    BY <2>1, <2>2 DEF Quiet, Alone, Batches, TypeOK
  <2>4. SameHands /\ SameCharges
    BY <2>1, <2>2 DEF TypeOK, SameHands, SameCharges
  <2>5. QED
    BY <2>3, <2>4, QuietFrame
<1>3. ASSUME NEW p \in Proc, TelegramAnswers(p) \/ RunCompletes(p) \/ Finally(p) \/ Stop(p)
      PROVE  Quiet'
  <2>1. /\ todo' = todo /\ current' = current /\ token' = token /\ note' = note /\ held' = held
    BY <1>3 DEF TelegramAnswers, RunCompletes, Finally, Stop
  <2>2. \/ phase' = phase
        \/ phase[p] = "sending" /\ phase' = [phase EXCEPT ![p] = "answered"]
        \/ /\ phase[p] = "settled" \/ (phase[p] = "loop" /\ todo[p] = {})
           /\ \E x \in {"claim", "settled", "idle"} : phase' = [phase EXCEPT ![p] = x]
    <3>1. CASE TelegramAnswers(p)
      BY <3>1 DEF TelegramAnswers
    <3>2. CASE RunCompletes(p)
      BY <3>2 DEF RunCompletes
    <3>3. CASE Finally(p)
      BY <3>3 DEF Finally
    <3>4. CASE Stop(p)
      BY <3>4 DEF Stop
    <3>5. QED
      BY <1>3, <3>1, <3>2, <3>3, <3>4
  <2>3. Alone' /\ Batches'
    BY <2>1, <2>2 DEF Quiet, Alone, Batches, TypeOK
  <2>4. SameHands /\ SameCharges
    BY <2>1, <2>2 DEF TypeOK, SameHands, SameCharges
  <2>5. QED
    BY <2>3, <2>4, QuietFrame
<1>4. ASSUME NEW m \in Note, LeaseExpires(m) \/ BackoffEnds(m) PROVE Quiet'
  <2>1. Ages(m)
    BY <1>4 DEF LeaseExpires, BackoffEnds, Ages
  <2>2. phase' = phase /\ todo' = todo /\ current' = current /\ token' = token /\ held' = held
    BY <1>4 DEF LeaseExpires, BackoffEnds
  <2>3. Alone' /\ Batches'
    BY <2>2 DEF Quiet, Alone, Batches
  <2>4. SameHands /\ SameCharges
    BY <2>1, <2>2, AgeRows DEF SameHands, SameCharges
  <2>5. QED
    BY <2>3, <2>4, QuietFrame
<1>5. ASSUME NEW p \in Proc, DeliverRecord(p) PROVE Quiet'
  BY <1>5, <1>f, QuietFinalizes DEF DeliverRecord
<1>6. ASSUME NEW p \in Proc,
             FinalizeFails(p) \/ ClaimFails(p) \/ Crash(p) \/ LoseOwnership(p)
      PROVE  FALSE
  BY <1>6, <1>f DEF FinalizeFails, ClaimFails, Crash, LoseOwnership
<1>7. ASSUME NEW p \in Proc, OwnershipThrows(p) PROVE FALSE
  BY <1>7 DEF OwnershipThrows, Quiet, Alone
<1>8. CASE UNCHANGED vars
  BY <1>8 DEF vars, Quiet, Alone, Batches, ClaimsHeld, InHand, Budgeted
<1>9. QED
  BY <1>1, <1>2, <1>3, <1>4, <1>5, <1>6, <1>7, <1>8, QuietClaims, QuietSends DEF Next, RunStep

\* Faults are counted and never forgotten, and so are the answers lost.
LEMMA CausesStay ==
  ASSUME TypeOK, [Next]_vars
  PROVE  faults' >= faults /\ lost' >= lost
<1> USE DEF runVars, flagVars, histVars
<1>0. faults \in Nat /\ lost \in Nat
  BY DEF TypeOK
<1>1. ASSUME NEW p \in Proc, Next, TelegramAnswers(p) PROVE faults' >= faults /\ lost' >= lost
  BY <1>0, <1>1 DEF TelegramAnswers
<1>2. ASSUME NEW p \in Proc, FinalizeFails(p) \/ ClaimFails(p) \/ Crash(p) \/ LoseOwnership(p)
      PROVE  faults' >= faults /\ lost' >= lost
  BY <1>0, <1>2 DEF FinalizeFails, ClaimFails, Crash, LoseOwnership, Fault
<1>3. ASSUME NEW p \in Proc, Start(p) \/ DeliverRecord(p)
      PROVE  faults' >= faults /\ lost' >= lost
  BY <1>0, <1>3 DEF Start, DeliverRecord, Fault
<1>4. ASSUME NEW p \in Proc,
             ClaimPending(p) \/ OwnershipThrows(p) \/ RunCompletes(p) \/ Finally(p) \/ Stop(p)
      PROVE  faults' >= faults /\ lost' >= lost
  BY <1>0, <1>4 DEF ClaimPending, OwnershipThrows, RunCompletes, Finally, Stop
<1>5. ASSUME NEW p \in Proc, NEW n \in Note, SendMessage(p, n) \/ Report(p, n)
      PROVE  faults' >= faults /\ lost' >= lost
  BY <1>0, <1>5 DEF SendMessage, Report
<1>6. ASSUME NEW n \in Note, LeaseExpires(n) \/ BackoffEnds(n)
      PROVE  faults' >= faults /\ lost' >= lost
  BY <1>0, <1>6 DEF LeaseExpires, BackoffEnds
<1>7. CASE UNCHANGED vars
  BY <1>0, <1>7 DEF vars
<1>8. QED
  BY <1>1, <1>2, <1>3, <1>4, <1>5, <1>6, <1>7 DEF Next, RunStep
\* A message on its way into its row.
Landing(n) == \E p \in Proc : phase[p] = "answered" /\ current[p] = n /\ result[p] = "sent"

Single == \A n \in Note : /\ delivered[n] <= 1
                          /\ delivered[n] = 1 => note[n].status = "SENT" \/ Landing(n)

\* A step without delivery keeps the count when rows stay sent and landings land.
LEMMA SingleFrame ==
  ASSUME Single, delivered' = delivered, FinalStatusStays,
         \A n \in Note : Landing(n) => Landing(n)' \/ note'[n].status = "SENT"
  PROVE  Single'
BY DEF Single, FinalStatusStays

\* A step that leaves an answered run where it is keeps its landing.
LEMMA LandingStays ==
  ASSUME phase' = phase, current' = current, result' = result, NEW n \in Note, Landing(n)
  PROVE  Landing(n)'
BY DEF Landing

LEMMA LandingMoves ==
  ASSUME TypeOK, NEW p \in Proc, phase[p] # "answered", NEW x, NEW y,
         phase' = [phase EXCEPT ![p] = x],
         current' = current \/ current' = [current EXCEPT ![p] = y],
         result' = result, NEW n \in Note, Landing(n)
  PROVE  Landing(n)'
<1>1. PICK q \in Proc : phase[q] = "answered" /\ current[q] = n /\ result[q] = "sent"
  BY DEF Landing
<1>2. q # p
  BY <1>1
<1>3. phase'[q] = "answered" /\ current'[q] = n /\ result'[q] = "sent"
  BY <1>1, <1>2 DEF TypeOK
<1>4. QED
  BY <1>3 DEF Landing

\* Without faults and lost answers, the operator receives each notification once.
LEMMA SingleStep ==
  ASSUME TypeOK, RowsSettled, RunsHonest, Quiet, Single, [Next]_vars, faults = 0, faults' = 0,
         lost = 0, lost' = 0
  PROVE  Single'
<1> USE DEF runVars, flagVars, histVars
<1>f. ~Fault
  BY DEF Fault
<1>r. FinalStatusStays
  <2>1. CASE Next
    BY <2>1, RowSteps, RowStepKeeps
  <2>2. CASE UNCHANGED vars
    BY <2>2 DEF vars, FinalStatusStays
  <2>3. QED
    BY <2>1, <2>2
<1>1. ASSUME NEW p \in Proc, NEW m \in Note, Report(p, m) PROVE Single'
  <2>1. phase' = phase \/ (phase[p] = "idle" /\ phase' = [phase EXCEPT ![p] = "claim"])
    <3>1. phase' = phase \/ (~InFlight(p) /\ phase' = [phase EXCEPT ![p] = "claim"])
      BY <1>1 DEF Report, Kick
    <3>2. Running(p)
      BY <1>1 DEF Report
    <3>3. QED
      BY <3>1, <3>2 DEF InFlight
  <2>2. current' = current /\ result' = result /\ delivered' = delivered
    BY <1>1 DEF Report
  <2>3. \A n \in Note : Landing(n) => Landing(n)'
    BY <2>1, <2>2, LandingStays, LandingMoves
  <2>4. QED
    BY <1>r, <2>2, <2>3, SingleFrame
<1>2. ASSUME NEW p \in Proc, Start(p) \/ ClaimPending(p) \/ RunCompletes(p) \/ Finally(p)
      PROVE  Single'
  <2>1. /\ phase[p] # "answered" /\ current' = current /\ result' = result
        /\ delivered' = delivered
    BY <1>2 DEF Start, ClaimPending, RunCompletes, Finally
  <2>2. \E x : phase' = [phase EXCEPT ![p] = x]
    BY <1>2 DEF Start, ClaimPending, RunCompletes, Finally
  <2>3. \A n \in Note : Landing(n) => Landing(n)'
    BY <2>1, <2>2, LandingMoves
  <2>4. QED
    BY <1>r, <2>1, <2>3, SingleFrame
<1>3. ASSUME NEW p \in Proc, NEW m \in Note, SendMessage(p, m) PROVE Single'
  <2>1. /\ phase[p] # "answered" /\ current' = [current EXCEPT ![p] = m] /\ result' = result
        /\ delivered' = delivered /\ phase' = [phase EXCEPT ![p] = "sending"]
    BY <1>3 DEF SendMessage
  <2>2. \A n \in Note : Landing(n) => Landing(n)'
    BY <2>1, LandingMoves
  <2>3. QED
    BY <1>r, <2>1, <2>2, SingleFrame
<1>4. ASSUME NEW p \in Proc, TelegramAnswers(p) PROVE Single'
  <2> DEFINE c == current[p]
  <2>1. PICK got \in BOOLEAN, r \in Results :
          /\ r \in Classify(got)
          /\ delivered' = IF got THEN [delivered EXCEPT ![c] = @ + 1] ELSE delivered
          /\ lost' = IF got /\ r # "sent" THEN lost + 1 ELSE lost
          /\ result' = [result EXCEPT ![p] = r]
    BY <1>4 DEF TelegramAnswers
  <2>2. /\ phase[p] = "sending" /\ phase' = [phase EXCEPT ![p] = "answered"]
        /\ current' = current /\ note' = note
    BY <1>4 DEF TelegramAnswers
  <2>3. \A q \in Proc : q # p => phase[q] = "off"
    BY <2>2, OthersEmpty DEF Quiet
  <2>4. c \in Note /\ note[c].status = "PENDING"
    <3>1. c \in Note /\ c \in InHand(p) /\ token[p] # NoToken
      BY <2>2 DEF InHand, TypeOK, RunsHonest
    <3>2. note[c].token = token[p]
      BY <3>1 DEF Quiet, ClaimsHeld
    <3>3. QED
      BY <3>1, <3>2 DEF RowsSettled
  <2>5. \A n \in Note : ~Landing(n)
    BY <2>2, <2>3 DEF Landing
  <2>6. delivered[c] = 0
    <3>1. delivered[c] \in Nat
      BY <2>4 DEF TypeOK
    <3>2. delivered[c] <= 1 /\ delivered[c] # 1
      BY <2>4, <2>5 DEF Single
    <3>3. QED
      BY <3>1, <3>2
  <2>7. got => r = "sent"
    BY <2>1
  <2>8. got => Landing(c)'
    <3>1. got => /\ phase'[p] = "answered" /\ current'[p] = c /\ result'[p] = "sent"
      BY <2>1, <2>2, <2>7 DEF TypeOK
    <3>2. QED
      BY <3>1 DEF Landing
  <2>9. CASE got
    <3>1. delivered' = [delivered EXCEPT ![c] = delivered[c] + 1]
      BY <2>1, <2>9
    <3>2. /\ delivered'[c] = 1 /\ \A n \in Note : n # c => delivered'[n] = delivered[n]
      BY <2>4, <2>6, <3>1 DEF TypeOK
    <3>3. QED
      BY <2>2, <2>5, <2>8, <2>9, <3>2 DEF Single
  <2>10. CASE ~got
    BY <2>1, <2>2, <2>5, <2>10 DEF Single
  <2>11. QED
    BY <2>9, <2>10
<1>5. ASSUME NEW p \in Proc, DeliverRecord(p) PROVE Single'
  <2> DEFINE c == current[p]
  <2>1. /\ phase[p] = "answered" /\ phase' = [phase EXCEPT ![p] = "loop"] /\ current' = current
        /\ result' = result /\ delivered' = delivered
    BY <1>5, <1>f DEF DeliverRecord
  <2>2. Finalizes(p)
    <3>1. c \in InHand(p)
      BY <2>1 DEF InHand
    <3>2. StillClaimed(p)
      BY <3>1 DEF StillClaimed, Quiet, ClaimsHeld
    <3>3. QED
      BY <1>5, <3>2 DEF Finalizes, DeliverRecord
  <2>3. ASSUME NEW n \in Note, Landing(n) PROVE note'[n].status = "SENT"
    <3>1. PICK q \in Proc : phase[q] = "answered" /\ current[q] = n /\ result[q] = "sent"
      BY <2>3 DEF Landing
    <3>2. q = p
      BY <2>1, <3>1, OthersEmpty DEF Quiet
    <3>3. Outcome(p).status = "SENT"
      BY <3>1, <3>2, OutcomeShape
    <3>4. QED
      BY <2>2, <3>1, <3>2, <3>3, FinalizeRows
  <2>4. QED
    BY <1>r, <2>1, <2>3, SingleFrame
<1>6. ASSUME NEW p \in Proc,
             FinalizeFails(p) \/ ClaimFails(p) \/ Crash(p) \/ LoseOwnership(p)
      PROVE  FALSE
  BY <1>6, <1>f DEF FinalizeFails, ClaimFails, Crash, LoseOwnership
<1>7. ASSUME NEW p \in Proc, OwnershipThrows(p) PROVE FALSE
  BY <1>7 DEF OwnershipThrows, Quiet, Alone
<1>8. CASE /\ phase' = phase /\ current' = current /\ result' = result
           /\ delivered' = delivered
  BY <1>r, <1>8, LandingStays, SingleFrame
<1>9. ASSUME NEW p \in Proc, Stop(p) PROVE Single'
  BY <1>8, <1>9 DEF Stop
<1>10. ASSUME NEW m \in Note, LeaseExpires(m) \/ BackoffEnds(m) PROVE Single'
  BY <1>8, <1>10 DEF LeaseExpires, BackoffEnds
<1>11. CASE UNCHANGED vars
  BY <1>8, <1>11 DEF vars
<1>12. QED
  BY <1>1, <1>2, <1>3, <1>4, <1>5, <1>6, <1>7, <1>9, <1>10, <1>11 DEF Next, RunStep
-----------------------------------------------------------------------------
(***************************************************************************)
(* The theorems.                                                           *)
(***************************************************************************)

Calm == faults = 0 => Quiet

Once == faults = 0 /\ lost = 0 => Single

CalmInv == DeliveryInv /\ Charged /\ Calm /\ Once

LEMMA DeliveryInit ==
  ASSUME DeliveryAssumption, Init
  PROVE  CalmInv
<1>1. (CHOOSE n \in Note : TRUE) \in Note
  BY DEF DeliveryAssumption
<1>2. current = [p \in Proc |-> CHOOSE n \in Note : TRUE]
  BY DEF Init
<1>3. current \in [Proc -> Note]
  BY <1>1, <1>2
<1>4. NoNote \in Rows /\ NoNote.status = "none" /\ NoNote.token = NoToken /\ NoNote.attempts = 0
      /\ NoNote.waiting = FALSE
  BY DEF NoNote, Rows, Statuses, NoToken
<1>5. TypeOK
  <2>1. note \in [Note -> Rows]
    BY <1>4 DEF Init
  <2>2. RunTypes
    BY <1>3 DEF Init, RunTypes, Phases, Results, NoToken
  <2>3. QED
    BY <2>1, <2>2, TypeParts
<1>6. RowsSettled /\ RunsHonest /\ SentWasDelivered
  BY <1>4 DEF Init, RowsSettled, RunsHonest, SentWasDelivered
<1>7. Charged
  <2> SUFFICES ASSUME NEW n \in Note PROVE sends[n] + Cardinality(Holders(n)) <= note[n].attempts
    BY DEF Charged
  <2>1. Holders(n) = {}
    BY DEF Holders, Init
  <2>2. QED
    BY <1>4, <2>1, FS_EmptySet DEF Init
<1>8. Quiet
  <2>1. Alone /\ Batches
    BY DEF Init, Alone, Batches
  <2>2. ClaimsHeld
    BY <1>4 DEF Init, ClaimsHeld, InHand
  <2>3. Budgeted
    BY <1>4 DEF Init, Budgeted, DeliveryAssumption
  <2>4. QED
    BY <2>1, <2>2, <2>3 DEF Quiet
<1>9. Single
  BY DEF Init, Single
<1>10. QED
  BY <1>5, <1>6, <1>7, <1>8, <1>9 DEF CalmInv, DeliveryInv, Calm, Once

LEMMA DeliveryStep ==
  ASSUME DeliveryAssumption, CalmInv, [Next]_vars
  PROVE  CalmInv'
<1>0. /\ TypeOK /\ RowsSettled /\ RunsHonest /\ SentWasDelivered /\ Charged /\ RunTypes
      /\ faults = 0 => Quiet
      /\ faults = 0 /\ lost = 0 => Single
  BY TypeParts DEF CalmInv, DeliveryInv, Calm, Once
<1>1. RunTypes' /\ RunsHonest' /\ \A n \in Note : delivered'[n] >= delivered[n]
  BY <1>0, RunTypeStep, RunsHonestStep
<1>2. note' \in [Note -> Rows] /\ RowsSettled' /\ SentWasDelivered'
  <2>1. RowStep
    <3>1. CASE Next
      BY <3>1, RowSteps
    <3>2. CASE UNCHANGED vars
      BY <3>2 DEF vars, RowStep
    <3>3. QED
      BY <3>1, <3>2
  <2>2. note' \in [Note -> Rows] /\ RowsSettled'
    BY <1>0, <2>1, RowStepKeeps
  <2>3. delivered' \in [Note -> Nat]
    BY <1>1 DEF RunTypes
  <2>4. QED
    BY <1>0, <1>1, <2>1, <2>2, <2>3, SentStep
<1>3. TypeOK'
  BY <1>1, <1>2 DEF TypeOK, RunTypes, Rows
<1>4. Charged'
  BY <1>0, <1>3, ChargedStep
<1>5. faults' >= faults /\ lost' >= lost /\ {faults, lost, faults', lost'} \subseteq Nat
  BY <1>0, <1>1, CausesStay DEF RunTypes
<1>6. faults' = 0 => faults = 0 /\ Quiet'
  <2>1. faults' = 0 => faults = 0
    BY <1>5
  <2>2. QED
    BY <1>0, <2>1, QuietStep
<1>7. faults' = 0 /\ lost' = 0 => Single'
  <2>1. lost' = 0 => lost = 0
    BY <1>5
  <2>2. QED
    BY <1>0, <1>6, <2>1, SingleStep
<1>8. QED
  BY <1>1, <1>2, <1>3, <1>4, <1>6, <1>7 DEF CalmInv, DeliveryInv, Calm, Once

\* What the invariant says of every state.
LEMMA DeliveryConsequences ==
  ASSUME DeliveryAssumption, CalmInv
  PROVE  TypeOK /\ SentWasDelivered /\ SendsAreCharged /\ BudgetKept /\ DuplicateHasCause
<1>1. TypeOK /\ SentWasDelivered
  BY DEF CalmInv, DeliveryInv
<1>2. SendsAreCharged
  <2> SUFFICES ASSUME NEW n \in Note
               PROVE  sends[n] <= note[n].attempts
    BY DEF SendsAreCharged
  <2>1. Cardinality(Holders(n)) \in Nat
    <3>1. Holders(n) \subseteq Proc /\ IsFiniteSet(Proc)
      BY DEF Holders, DeliveryAssumption
    <3>2. QED
      BY <3>1, FS_Subset, FS_CardinalityType
  <2>2. /\ sends[n] \in Nat /\ note[n].attempts \in Nat
        /\ sends[n] + Cardinality(Holders(n)) <= note[n].attempts
    BY DEF CalmInv, DeliveryInv, TypeOK, Charged
  <2>3. QED
    BY <2>1, <2>2
<1>3. BudgetKept
  BY DEF CalmInv, Calm, Quiet, Budgeted, BudgetKept
<1>4. DuplicateHasCause
  <2>1. faults \in Nat /\ lost \in Nat
    BY DEF CalmInv, DeliveryInv, TypeOK
  <2>2. QED
    BY <2>1 DEF CalmInv, Once, Single, DuplicateHasCause
<1>5. QED
  BY <1>1, <1>2, <1>3, <1>4

\* What it says of every step.
LEMMA DeliveryStepConsequences ==
  ASSUME CalmInv, [Next]_vars
  PROVE  FinalStatusStays
<1>1. CASE Next
  BY <1>1, RowSteps, RowStepKeeps DEF CalmInv, DeliveryInv
<1>2. CASE UNCHANGED vars
  BY <1>2 DEF vars, FinalStatusStays
<1>3. QED
  BY <1>1, <1>2

\* The inductive invariant of delivery: typing, settled rows, honest answers, the charge of
\* every request, and, as long as nothing failed, one process with every claim in hand.
THEOREM DeliveryInvariant ==
  ASSUME DeliveryAssumption
  PROVE  Spec => []CalmInv
<1>1. Init => CalmInv
  BY DeliveryInit
<1>2. CalmInv /\ [Next]_vars => CalmInv'
  BY DeliveryStep
<1>3. QED
  BY <1>1, <1>2, PTL DEF Spec

\* However late a finalize comes and whoever sends it, a row once SENT or FAILED stays as it
\* is (the lease_token compare of compareAndSetOperatorNotificationDeliveryStatus).
THEOREM FinalRowsStay ==
  ASSUME DeliveryAssumption
  PROVE  Spec => [][FinalStatusStays]_vars
<1>1. CalmInv /\ [Next]_vars => [FinalStatusStays]_vars
  BY DeliveryStepConsequences
<1>2. QED
  BY <1>1, DeliveryInvariant, PTL DEF Spec

\* A row says SENT only if the operator received the message, through every crash, takeover
\* and failed write of the outcome.
THEOREM SentIsDelivered ==
  ASSUME DeliveryAssumption
  PROVE  Spec => []SentWasDelivered
<1>1. CalmInv => SentWasDelivered
  BY DeliveryConsequences
<1>2. QED
  BY <1>1, DeliveryInvariant, PTL

\* Every request to Telegram was charged to the row's attempt_count before it was made, so
\* that no crash, expiry or takeover makes an attempt free.
THEOREM NoFreeAttempt ==
  ASSUME DeliveryAssumption
  PROVE  Spec => []SendsAreCharged
<1>1. CalmInv => SendsAreCharged
  BY DeliveryConsequences
<1>2. QED
  BY <1>1, DeliveryInvariant, PTL

\* As long as no crash, takeover, lost ownership or database error occurs, no notification is
\* tried more often than maxAttempts, whoever kicks and however leases expire.
THEOREM BudgetIsKept ==
  ASSUME DeliveryAssumption
  PROVE  Spec => []BudgetKept
<1>1. CalmInv => BudgetKept
  BY DeliveryConsequences
<1>2. QED
  BY <1>1, DeliveryInvariant, PTL

\* The operator receives a notification twice only after such a fault or an answer from
\* Telegram that was lost or not understood.
THEOREM DuplicatesHaveCause ==
  ASSUME DeliveryAssumption
  PROVE  Spec => []DuplicateHasCause
<1>1. CalmInv => DuplicateHasCause
  BY DeliveryConsequences
<1>2. QED
  BY <1>1, DeliveryInvariant, PTL

=============================================================================
