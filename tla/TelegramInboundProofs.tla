-------------------------- MODULE TelegramInboundProofs --------------------------
(***************************************************************************)
(* The operator's updates, for any sequence of updates and any number of   *)
(* faults. The worker moves the durable offset over an update before it    *)
(* acts on it; what the proofs add is where, at every await, the updates   *)
(* in hand, the offset in memory and the stored one stand to one another.  *)
(***************************************************************************)
EXTENDS TelegramInbound, TLAPS

Busy == step \in {"route", "reply"}

\* Consecutive updates.
IsRun(s) == s \in Seq(Updates) /\ \A i \in 1 .. Len(s) : s[i] = s[1] + i - 1

\* The answer in hand is a run of updates, and the offset in memory is past the update
\* being handled.
BatchIsRun ==
  /\ IsRun(batch)
  /\ step \in {"idle", "load", "ask"} => batch = <<>>
  /\ Busy => batch # <<>> /\ nextOffset > batch[1]

\* A poll that asks has an offset, or a failed load behind it.
OffsetIsLoaded ==
  /\ step \in {"ask", "next", "route", "reply"} => offsetLoaded
  /\ ~offsetLoaded => nextOffset = None

\* While every load of the offset has succeeded, what is still to be handled lies at or
\* above the offset, in memory and stored, and what was executed below it.
OffsetIsAhead ==
  /\ offsetLoaded => nextOffset >= stored
  /\ step = "next" /\ batch # <<>> => batch[1] >= nextOffset
  /\ Busy => nextOffset = batch[1] + 1 /\ stored = nextOffset
  /\ \A u \in Updates : effects[u] > 0 => u < stored
  /\ step = "route" => effects[batch[1]] = 0
  /\ AtMostOnce

\* While no crash and no refused offset came between, what lies below the offset has an
\* outcome, but for the update in hand; a lost ownership ends the polling.
HandledBelow ==
  /\ stored > 0 => offsetLoaded
  /\ \A u \in Updates : u < nextOffset \/ u < stored =>
       outcome[u] # "none" \/ (Busy /\ u = batch[1])
  /\ step = "next" /\ batch # <<>> => \A u \in Updates : u < batch[1] => outcome[u] # "none"

Undisturbed == faults.crash + faults.save = 0

InboundInv ==
  /\ TypeOK /\ BatchIsRun /\ OffsetIsLoaded
  /\ faults.load = 0 => OffsetIsAhead
  /\ Undisturbed /\ held => HandledBelow
  /\ ForgottenWasHandled

-----------------------------------------------------------------------------

LEMMA ConstantFacts ==
  ASSUME InboundAssumption
  PROVE  /\ Len(Kind) \in Nat
         /\ MaxCrashes \in Nat /\ MaxLoadErrors \in Nat
         /\ MaxSaveErrors \in Nat /\ MaxHttpErrors \in Nat
<1>1. Kind \in Seq({"command", "query", "callback", "badCallback", "foreign", "foreignCallback"})
  BY DEF InboundAssumption
<1>2. QED
  BY <1>1, SMT DEF InboundAssumption

LEMMA EmptyIsRun == IsRun(<<>>)
BY DEF IsRun

LEMMA InboundInit ==
  ASSUME InboundAssumption, Init
  PROVE  InboundInv
<1>1. Len(Kind) \in Nat
  BY ConstantFacts
<1>2. TypeOK
  <2>1. unconfirmed \in 1 .. Len(Kind) + 1 /\ {stored, nextOffset} \subseteq Offsets
    BY <1>1 DEF Init, Offsets, None
  <2>2. effects \in [Updates -> 0 .. 2] /\ outcome \in [Updates -> {"none", "processed", "ignored", "failed"}]
    BY <1>1 DEF Init
  <2>3. faults \in [crash : 0 .. MaxCrashes, load : 0 .. MaxLoadErrors, save : 0 .. MaxSaveErrors,
                    http : 0 .. MaxHttpErrors]
    BY ConstantFacts DEF Init
  <2>4. \A i \in 1 .. Len(batch) : batch[i] \in Updates
    BY DEF Init
  <2>5. QED
    BY <2>1, <2>2, <2>3, <2>4 DEF Init, TypeOK
<1>3. BatchIsRun /\ OffsetIsLoaded
  BY EmptyIsRun DEF Init, BatchIsRun, OffsetIsLoaded, Busy
<1>4. OffsetIsAhead /\ HandledBelow /\ ForgottenWasHandled
  BY <1>1 DEF Init, OffsetIsAhead, HandledBelow, ForgottenWasHandled, AtMostOnce, Busy, None, Updates
<1>5. QED
  BY <1>2, <1>3, <1>4 DEF InboundInv

\* TypeOK in parts.
OffsetsTyped ==
  unconfirmed \in 1 .. Len(Kind) + 1 /\ stored \in 0 .. Len(Kind) + 1 /\ nextOffset \in 0 .. Len(Kind) + 1

FlagsTyped ==
  /\ offsetLoaded \in BOOLEAN /\ held \in BOOLEAN /\ running \in BOOLEAN
  /\ step \in {"idle", "load", "ask", "next", "route", "reply"}

OutcomesTyped ==
  effects \in [Updates -> 0 .. 2] /\ outcome \in [Updates -> {"none", "processed", "ignored", "failed"}]

FaultsTyped ==
  faults \in [crash : 0 .. MaxCrashes, load : 0 .. MaxLoadErrors, save : 0 .. MaxSaveErrors,
              http : 0 .. MaxHttpErrors]

LEMMA TypeParts ==
  ASSUME batch \in Seq(Updates)
  PROVE  TypeOK <=> OffsetsTyped /\ FlagsTyped /\ OutcomesTyped /\ FaultsTyped
<1>1. \A i \in 1 .. Len(batch) : batch[i] \in Updates
  OBVIOUS
<1>2. {stored, nextOffset} \subseteq Offsets <=> stored \in Offsets /\ nextOffset \in Offsets
  OBVIOUS
<1>3. QED
  BY <1>1, <1>2, Zenon DEF TypeOK, OffsetsTyped, FlagsTyped, OutcomesTyped, FaultsTyped, Offsets

\* A fault more.
LEMMA FaultsStep ==
  ASSUME InboundAssumption, FaultsTyped, [Next]_vars
  PROVE  /\ FaultsTyped'
         /\ faults'.load = 0 => faults.load = 0
         /\ Undisturbed' => Undisturbed
<1> USE ConstantFacts DEF FaultsTyped, Undisturbed
<1>1. CASE UNCHANGED faults
  BY <1>1
<1>2. CASE faults.load < MaxLoadErrors /\ faults' = [faults EXCEPT !.load = @ + 1]
  BY <1>2
<1>3. CASE faults.http < MaxHttpErrors /\ faults' = [faults EXCEPT !.http = @ + 1]
  BY <1>3
<1>4. CASE faults.save < MaxSaveErrors /\ faults' = [faults EXCEPT !.save = @ + 1]
  BY <1>4
<1>5. CASE faults.crash < MaxCrashes /\ faults' = [faults EXCEPT !.crash = @ + 1]
  BY <1>5
<1>6. QED
  BY <1>1, <1>2, <1>3, <1>4, <1>5, Zenon
     DEF Next, PollSucceeds, Poll, LoadOffset, GetUpdates, AdvanceOffset, PollEnds, Route, Reply,
         LoseOwnership, OwnershipThrows, Stop, Crash, vars

\* What Reply and an ignored update leave of the batch.
LEMMA RestOfBatch ==
  ASSUME InboundAssumption, IsRun(batch), batch # <<>>
  PROVE  /\ IsRun(Tail(batch))
         /\ Tail(batch) # <<>> => Tail(batch)[1] = batch[1] + 1
         /\ Head(batch) = batch[1] /\ batch[1] \in Updates /\ batch[1] \in Nat
<1> USE DEF IsRun
<1>1. Len(batch) \in Nat /\ Len(batch) > 0 /\ batch[1] \in Updates /\ Head(batch) = batch[1]
  OBVIOUS
<1>2. batch[1] \in Nat
  BY <1>1, ConstantFacts DEF Updates
<1>3. /\ Tail(batch) \in Seq(Updates) /\ Len(Tail(batch)) = Len(batch) - 1
      /\ \A i \in 1 .. Len(batch) - 1 : Tail(batch)[i] = batch[i + 1]
  BY <1>1
<1>4. \A i \in 1 .. Len(batch) - 1 : Tail(batch)[i] = batch[1] + i
  BY <1>1, <1>2, <1>3
<1>5. QED
  BY <1>1, <1>2, <1>3, <1>4

\* The updates of an answer.
LEMMA AnswerIsRun ==
  ASSUME InboundAssumption, NEW first \in 1 .. Len(Kind) + 1, NEW n \in 0 .. Len(Kind) + 1 - first,
         NEW s, s = [i \in 1 .. n |-> first + i - 1]
  PROVE  IsRun(s) /\ (s # <<>> => s[1] = first)
<1>1. n \in Nat /\ first \in Nat
  BY ConstantFacts
<1>2. \A i \in 1 .. n : s[i] = first + i - 1 /\ s[i] \in Updates
  BY <1>1, ConstantFacts DEF Updates
<1>3. s \in Seq(Updates) /\ Len(s) = n
  BY <1>1, <1>2
<1>4. QED
  BY <1>1, <1>2, <1>3 DEF IsRun

LEMMA TypeStep ==
  ASSUME InboundAssumption, TypeOK, BatchIsRun, OffsetIsLoaded, [Next]_vars
  PROVE  TypeOK' /\ BatchIsRun' /\ OffsetIsLoaded'
<1> DEFINE G == OffsetsTyped /\ FlagsTyped /\ OutcomesTyped /\ BatchIsRun /\ OffsetIsLoaded
<1>1. OffsetsTyped /\ FlagsTyped /\ OutcomesTyped /\ FaultsTyped /\ Len(Kind) \in Nat
  BY TypeParts, ConstantFacts DEF BatchIsRun, IsRun
<1> USE <1>1, EmptyIsRun DEF OffsetsTyped, FlagsTyped, OutcomesTyped, BatchIsRun, OffsetIsLoaded, Busy, None
<1>2. ASSUME Poll PROVE G'
  BY <1>2 DEF Poll
<1>3. ASSUME NEW ok \in BOOLEAN, LoadOffset(ok) PROVE G'
  BY <1>3 DEF LoadOffset, Loaded
<1>4. ASSUME NEW ok \in BOOLEAN, GetUpdates(ok) PROVE G'
  <2>1. unconfirmed' \in 1 .. Len(Kind) + 1
    BY <1>4 DEF GetUpdates, AskFrom
  <2>2. CASE ok
    <3>1. PICK n \in 0 .. Len(Kind) + 1 - unconfirmed' : batch' = [i \in 1 .. n |-> unconfirmed' + i - 1]
      BY <1>4, <2>2 DEF GetUpdates
    <3>2. IsRun(batch')
      BY <3>1, <2>1, AnswerIsRun
    <3>3. step' = "next" /\ UNCHANGED <<stored, nextOffset, offsetLoaded, effects, outcome, held, running>> /\ offsetLoaded
      BY <1>4, <2>2 DEF GetUpdates
    <3>4. QED
      BY <2>1, <3>2, <3>3
  <2>3. CASE ~ok
    BY <1>4, <2>1, <2>3 DEF GetUpdates
  <2>4. QED
    BY <2>2, <2>3
<1>5. ASSUME NEW ok \in BOOLEAN, AdvanceOffset(ok) PROVE G'
  <2>1. IsRun(Tail(batch)) /\ Head(batch) = batch[1] /\ batch[1] \in Updates /\ batch[1] \in Nat
    BY <1>5, RestOfBatch DEF AdvanceOffset
  <2>2. nextOffset' \in 0 .. Len(Kind) + 1 /\ nextOffset' > batch[1] /\ stored' \in 0 .. Len(Kind) + 1
    BY <1>5, <2>1 DEF AdvanceOffset, Advanced, Updates
  <2>3. outcome' \in [Updates -> {"none", "processed", "ignored", "failed"}]
    BY <1>5, <2>1 DEF AdvanceOffset
  <2>4. QED
    <3>1. batch # <<>> /\ offsetLoaded /\ UNCHANGED <<unconfirmed, offsetLoaded, effects, held, running>>
      BY <1>5 DEF AdvanceOffset
    <3>2. \/ step' = "route" /\ batch' = batch
          \/ step' = "next" /\ batch' = Tail(batch)
          \/ step' = "idle" /\ batch' = <<>>
      BY <1>5 DEF AdvanceOffset
    <3>3. QED
      BY <2>1, <2>2, <2>3, <3>1, <3>2
<1>6. ASSUME PollEnds PROVE G'
  BY <1>6 DEF PollEnds
<1>7. ASSUME Route PROVE G'
  BY <1>7, RestOfBatch DEF Route
<1>8. ASSUME NEW ok \in BOOLEAN, Reply(ok) PROVE G'
  <2>1. IsRun(Tail(batch)) /\ Head(batch) = batch[1] /\ batch[1] \in Updates
    BY <1>8, RestOfBatch DEF Reply
  <2>2. QED
    BY <1>8, <2>1 DEF Reply
<1>9. ASSUME LoseOwnership \/ OwnershipThrows \/ Stop PROVE G'
  BY <1>9 DEF LoseOwnership, OwnershipThrows, Stop
<1>10. ASSUME Crash PROVE G'
  <2>1. /\ nextOffset' = 0 /\ ~offsetLoaded' /\ step' = "idle" /\ batch' = <<>>
        /\ UNCHANGED <<unconfirmed, stored, effects, outcome>>
    BY <1>10 DEF Crash
  <2>2. offsetLoaded' \in BOOLEAN /\ held' \in BOOLEAN /\ running' \in BOOLEAN
    BY <1>10, Zenon DEF Crash
  <2>3. QED
    BY <2>1, <2>2
<1>11. ASSUME UNCHANGED vars PROVE G'
  BY <1>11 DEF vars
<1>12. G'
  BY <1>2, <1>3, <1>4, <1>5, <1>6, <1>7, <1>8, <1>9, <1>10, <1>11, Zenon DEF Next, PollSucceeds
<1>13. TypeOK' <=> (OffsetsTyped /\ FlagsTyped /\ OutcomesTyped /\ FaultsTyped)'
  <2>1. batch' \in Seq(Updates)
    BY <1>12 DEF IsRun
  <2>2. \A i \in 1 .. Len(batch') : batch'[i] \in Updates
    BY <2>1
  <2>3. {stored', nextOffset'} \subseteq Offsets <=> stored' \in Offsets /\ nextOffset' \in Offsets
    OBVIOUS
  <2>4. QED
    BY <2>2, <2>3, Zenon DEF TypeOK, FaultsTyped, Offsets
<1>14. QED
  BY <1>12, <1>13, FaultsStep
-----------------------------------------------------------------------------

\* Each update is acted on below the stored offset, and each new one is above it.
LEMMA AheadStep ==
  ASSUME InboundAssumption, TypeOK, BatchIsRun, OffsetIsLoaded, OffsetIsAhead, faults.load = 0,
         [Next]_vars, faults'.load = 0
  PROVE  OffsetIsAhead'
<1>1. OffsetsTyped /\ FlagsTyped /\ OutcomesTyped /\ FaultsTyped /\ Len(Kind) \in Nat
  BY TypeParts, ConstantFacts DEF BatchIsRun, IsRun
<1>2. \A u \in Updates : u \in Nat
  BY <1>1 DEF Updates
<1>3. IsRun(batch)
  BY DEF BatchIsRun
<1> USE <1>1, <1>2 DEF OffsetsTyped, FlagsTyped, OutcomesTyped, OffsetIsAhead, AtMostOnce, Busy
<1>4. ASSUME NEW ok \in BOOLEAN, LoadOffset(ok) PROVE OffsetIsAhead'
  <2>1. /\ UNCHANGED <<stored, effects, batch>> /\ step' \in {"ask", "idle"} /\ step = "load"
        /\ offsetLoaded' /\ ((offsetLoaded /\ nextOffset' = nextOffset) \/ nextOffset' = stored)
    <3>1. CASE offsetLoaded \/ ok
      BY <1>4, <3>1 DEF LoadOffset, Loaded
    <3>2. CASE ~offsetLoaded /\ ~ok
      BY <1>4, <3>2 DEF LoadOffset, FaultsTyped
    <3>3. QED
      BY <3>1, <3>2
  <2>2. QED
    BY <2>1
<1>5. ASSUME NEW ok \in BOOLEAN, GetUpdates(ok) PROVE OffsetIsAhead'
  <2>1. UNCHANGED <<stored, nextOffset, offsetLoaded, effects>> /\ step' \in {"next", "idle"}
    BY <1>5 DEF GetUpdates
  <2>2. step' = "next" /\ batch' # <<>> => batch'[1] >= nextOffset
    <3>1. SUFFICES ASSUME step' = "next", batch' # <<>> PROVE batch'[1] >= nextOffset
      OBVIOUS
    <3>2. unconfirmed' \in 1 .. Len(Kind) + 1 /\ unconfirmed' >= nextOffset
      BY <1>5 DEF GetUpdates, AskFrom
    <3>3. PICK n \in 0 .. Len(Kind) + 1 - unconfirmed' : batch' = [i \in 1 .. n |-> unconfirmed' + i - 1]
      BY <1>5, <3>1 DEF GetUpdates
    <3>4. batch'[1] = unconfirmed'
      BY <3>1, <3>2, <3>3, AnswerIsRun
    <3>5. QED
      BY <3>2, <3>4
  <2>3. QED
    BY <2>1, <2>2
<1>6. ASSUME NEW ok \in BOOLEAN, AdvanceOffset(ok) PROVE OffsetIsAhead'
  <2>1. /\ Head(batch) = batch[1] /\ batch[1] \in Updates /\ batch[1] \in Nat /\ offsetLoaded
        /\ Tail(batch) # <<>> => Tail(batch)[1] = batch[1] + 1
    BY <1>3, <1>6, RestOfBatch DEF AdvanceOffset, OffsetIsLoaded
  <2>2. nextOffset' = batch[1] + 1 /\ batch[1] >= nextOffset /\ nextOffset >= stored
    BY <1>6, <2>1 DEF AdvanceOffset, Advanced
  <2>3. /\ UNCHANGED <<offsetLoaded, effects>>
        /\ \/ step' = "route" /\ batch' = batch /\ stored' = nextOffset'
           \/ step' = "next" /\ batch' = Tail(batch) /\ stored' = nextOffset'
           \/ step' = "idle" /\ stored' = stored
    BY <1>6, <2>1 DEF AdvanceOffset
  <2>4. effects[batch[1]] = 0
    BY <2>1, <2>2
  <2>5. stored' >= stored /\ stored' \in Nat /\ nextOffset' >= stored'
    BY <2>1, <2>2, <2>3
  <2>6. \A u \in Updates : effects'[u] > 0 => u < stored'
    BY <2>3, <2>5
  <2>7. AtMostOnce'
    BY <2>3
  <2>8. step' = "next" /\ batch' # <<>> => batch'[1] >= nextOffset'
    <3>1. SUFFICES ASSUME step' = "next", batch' # <<>> PROVE batch'[1] >= nextOffset'
      OBVIOUS
    <3>2. batch' = Tail(batch)
      BY <2>3, <3>1
    <3>3. batch'[1] = batch[1] + 1
      BY <2>1, <3>1, <3>2, Zenon
    <3>4. QED
      BY <2>1, <2>2, <3>3
  <2>9. Busy' => batch' = batch /\ stored' = nextOffset' /\ step' = "route"
    BY <2>3
  <2>10. Busy' => nextOffset' = batch'[1] + 1 /\ stored' = nextOffset' /\ effects'[batch'[1]] = 0
    BY <2>2, <2>3, <2>4, <2>9
  <2>11. QED
    BY <2>5, <2>6, <2>7, <2>8, <2>9, <2>10
<1>7. ASSUME Route PROVE OffsetIsAhead'
  <2>1. Head(batch) = batch[1] /\ batch[1] \in Updates
    BY <1>3, <1>7, RestOfBatch DEF Route, BatchIsRun
  <2>2. UNCHANGED <<stored, nextOffset, offsetLoaded, batch>> /\ step = "route" /\ step' = "reply"
    BY <1>7 DEF Route
  <2>3. \A u \in Updates : effects'[u] = effects[u] \/ (u = batch[1] /\ effects'[u] = 1)
    <3>1. effects[batch[1]] = 0
      BY <2>2
    <3>2. CASE effects' = effects
      BY <3>2
    <3>3. CASE effects' = [effects EXCEPT ![batch[1]] = 1]
      BY <2>1, <3>3
    <3>4. QED
      BY <1>7, <2>1, <3>1, <3>2, <3>3 DEF Route
  <2>4. stored = batch[1] + 1 /\ nextOffset = batch[1] + 1
    BY <2>2
  <2>5. \A u \in Updates : (effects'[u] > 0 => u < stored) /\ effects'[u] <= 1
    BY <2>1, <2>3, <2>4
  <2>6. AtMostOnce' /\ \A u \in Updates : effects'[u] > 0 => u < stored'
    BY <2>2, <2>5
  <2>7. offsetLoaded' => nextOffset' >= stored'
    BY <2>2
  <2>8. nextOffset' = batch'[1] + 1 /\ stored' = nextOffset'
    BY <2>2, <2>4
  <2>9. step' = "reply"
    BY <2>2
  <2>10. QED
    BY <2>6, <2>7, <2>8, <2>9, Zenon
<1>8. ASSUME NEW ok \in BOOLEAN, Reply(ok) PROVE OffsetIsAhead'
  <2>1. Tail(batch) # <<>> => Tail(batch)[1] = batch[1] + 1
    BY <1>3, <1>8, RestOfBatch DEF Reply, BatchIsRun
  <2>2. QED
    BY <1>8, <2>1 DEF Reply
<1>9. ASSUME Poll \/ PollEnds \/ LoseOwnership \/ OwnershipThrows \/ Stop PROVE OffsetIsAhead'
  BY <1>9 DEF Poll, PollEnds, LoseOwnership, OwnershipThrows, Stop
<1>10. ASSUME Crash PROVE OffsetIsAhead'
  <2>1. ~offsetLoaded' /\ step' = "idle" /\ UNCHANGED <<stored, effects>>
    BY <1>10 DEF Crash
  <2>2. QED
    BY <2>1
<1>11. ASSUME UNCHANGED vars PROVE OffsetIsAhead'
  BY <1>11 DEF vars
<1>12. QED
  BY <1>4, <1>5, <1>6, <1>7, <1>8, <1>9, <1>10, <1>11, Zenon DEF Next, PollSucceeds

\* Without a crash or a refused offset, an update is passed over only when it has its
\* outcome.
LEMMA HandledStep ==
  ASSUME InboundAssumption, TypeOK, BatchIsRun, OffsetIsLoaded, HandledBelow, ForgottenWasHandled,
         Undisturbed, held, [Next]_vars, Undisturbed', held'
  PROVE  HandledBelow' /\ \A u \in Updates : u < unconfirmed' => outcome'[u] # "none"
<1> DEFINE Known == \A u \in Updates : u < unconfirmed => outcome[u] # "none"
           H == HandledBelow /\ Known
<1>1. OffsetsTyped /\ FlagsTyped /\ OutcomesTyped /\ FaultsTyped /\ Len(Kind) \in Nat
  BY TypeParts, ConstantFacts DEF BatchIsRun, IsRun
<1>2. \A u \in Updates : u \in Nat
  BY <1>1 DEF Updates
<1>3. IsRun(batch)
  BY DEF BatchIsRun
<1>0. H
  BY SMT DEF ForgottenWasHandled, Undisturbed
<1> USE <1>0, <1>1, <1>2 DEF OffsetsTyped, FlagsTyped, OutcomesTyped, HandledBelow, Busy
<1>4. ASSUME NEW ok \in BOOLEAN, LoadOffset(ok) PROVE H'
  BY <1>4 DEF LoadOffset, Loaded
<1>5. ASSUME NEW ok \in BOOLEAN, GetUpdates(ok) PROVE H'
  <2>1. UNCHANGED <<stored, nextOffset, offsetLoaded, outcome>> /\ step = "ask" /\ step' \in {"next", "idle"}
    BY <1>5 DEF GetUpdates
  <2>2. unconfirmed' \in 1 .. Len(Kind) + 1 /\ (unconfirmed' = unconfirmed \/ unconfirmed' = nextOffset)
    BY <1>5 DEF GetUpdates, AskFrom
  <2>3. step' = "next" /\ batch' # <<>> => batch'[1] = unconfirmed'
    <3>1. SUFFICES ASSUME step' = "next", batch' # <<>> PROVE batch'[1] = unconfirmed'
      OBVIOUS
    <3>2. PICK n \in 0 .. Len(Kind) + 1 - unconfirmed' : batch' = [i \in 1 .. n |-> unconfirmed' + i - 1]
      BY <1>5, <3>1 DEF GetUpdates
    <3>3. QED
      BY <3>1, <2>2, <3>2, AnswerIsRun
  <2>4. \A u \in Updates : u < nextOffset \/ u < stored \/ u < unconfirmed' => outcome[u] # "none"
    BY <2>1, <2>2
  <2>5. QED
    BY <2>1, <2>3, <2>4
<1>6. ASSUME NEW ok \in BOOLEAN, AdvanceOffset(ok) PROVE H'
  <2>1. /\ Head(batch) = batch[1] /\ batch[1] \in Updates /\ batch[1] \in Nat /\ offsetLoaded
        /\ Tail(batch) # <<>> => Tail(batch)[1] = batch[1] + 1
    BY <1>3, <1>6, RestOfBatch DEF AdvanceOffset, OffsetIsLoaded
  <2>2. /\ \A u \in Updates : u < batch[1] => outcome[u] # "none"
        /\ \A u \in Updates : u < nextOffset \/ u < stored => outcome[u] # "none"
        /\ UNCHANGED <<unconfirmed, offsetLoaded>>
    BY <1>6 DEF AdvanceOffset
  <2>3. nextOffset' \in {nextOffset, batch[1] + 1} /\ stored' = nextOffset'
    <3>1. CASE ok
      BY <1>6, <2>1, <3>1 DEF AdvanceOffset, Advanced
    <3>2. CASE ~ok
      BY <1>6, <3>2 DEF AdvanceOffset, Undisturbed, FaultsTyped
    <3>3. QED
      BY <3>1, <3>2
  <2>4. \/ step' = "route" /\ batch' = batch /\ outcome' = outcome
        \/ step' = "next" /\ batch' = Tail(batch) /\ outcome' = [outcome EXCEPT ![batch[1]] = "ignored"]
    <3>1. CASE ok
      BY <1>6, <2>1, <3>1 DEF AdvanceOffset
    <3>2. CASE ~ok
      BY <1>6, <3>2 DEF AdvanceOffset, Undisturbed, FaultsTyped
    <3>3. QED
      BY <3>1, <3>2
  <2>5. \A u \in Updates : u < nextOffset' => u < nextOffset \/ u < batch[1] \/ u = batch[1]
    BY <2>1, <2>3
  <2>6. CASE step' = "route" /\ batch' = batch /\ outcome' = outcome
    BY <2>1, <2>2, <2>3, <2>5, <2>6
  <2>7. CASE step' = "next" /\ batch' = Tail(batch) /\ outcome' = [outcome EXCEPT ![batch[1]] = "ignored"]
    <3>1. \A u \in Updates : (u < batch[1] \/ u = batch[1] \/ u < nextOffset \/ u < unconfirmed)
             => outcome'[u] # "none"
      BY <2>1, <2>2, <2>7
    <3>2. \A u \in Updates : u < batch[1] + 1 => u < batch[1] \/ u = batch[1]
      BY <2>1
    <3>3. QED
      BY <2>1, <2>2, <2>3, <2>5, <2>7, <3>1, <3>2
  <2>8. QED
    BY <2>4, <2>6, <2>7
<1>7. ASSUME Route PROVE H'
  BY <1>7 DEF Route
<1>8. ASSUME NEW ok \in BOOLEAN, Reply(ok) PROVE H'
  <2>1. /\ Head(batch) = batch[1] /\ batch[1] \in Updates /\ batch[1] \in Nat /\ nextOffset > batch[1]
        /\ Tail(batch) # <<>> => Tail(batch)[1] = batch[1] + 1
    BY <1>3, <1>8, RestOfBatch DEF Reply, BatchIsRun
  <2>2. /\ step' = "next" /\ batch' = Tail(batch)
        /\ UNCHANGED <<unconfirmed, stored, nextOffset, offsetLoaded>>
    BY <1>8 DEF Reply
  <2>3. \A u \in Updates : outcome[u] # "none" \/ u = batch[1] => outcome'[u] # "none"
    BY <1>8, <2>1 DEF Reply
  <2>4. \A u \in Updates : u < nextOffset \/ u < stored \/ u < unconfirmed => outcome'[u] # "none"
    BY <2>3
  <2>5. \A u \in Updates : u < batch[1] + 1 => u < nextOffset
    BY <2>1
  <2>6. QED
    BY <2>1, <2>2, <2>4, <2>5
<1>9. ASSUME Poll \/ PollEnds \/ LoseOwnership \/ OwnershipThrows \/ Stop PROVE H'
  BY <1>9 DEF Poll, PollEnds, LoseOwnership, OwnershipThrows, Stop
<1>10. ASSUME Crash PROVE H'
  BY <1>10 DEF Crash, Undisturbed, FaultsTyped
<1>11. ASSUME UNCHANGED vars PROVE H'
  BY <1>11 DEF vars
<1>12. H'
  BY <1>4, <1>5, <1>6, <1>7, <1>8, <1>9, <1>10, <1>11, Zenon DEF Next, PollSucceeds
<1>13. QED
  BY <1>12

-----------------------------------------------------------------------------

LEMMA InboundStep ==
  ASSUME InboundAssumption, InboundInv, [Next]_vars
  PROVE  InboundInv'
<1>1. TypeOK /\ BatchIsRun /\ OffsetIsLoaded /\ FaultsTyped /\ ForgottenWasHandled
  BY TypeParts DEF InboundInv, BatchIsRun, IsRun
<1>2. TypeOK' /\ BatchIsRun' /\ OffsetIsLoaded'
  BY <1>1, TypeStep
<1>3. faults'.load = 0 => OffsetIsAhead'
  BY <1>1, FaultsStep, AheadStep DEF InboundInv
<1>4. Undisturbed' => Undisturbed
  BY <1>1, FaultsStep
<1>5. FaultsTyped'
  BY <1>1, FaultsStep
<1>6. ASSUME Undisturbed', held'
      PROVE  HandledBelow' /\ \A u \in Updates : u < unconfirmed' => outcome'[u] # "none"
  <2>1. held
    <3>1. ASSUME Crash PROVE FALSE
      BY <1>1, <1>4, <1>6, <3>1 DEF Crash, Undisturbed, FaultsTyped
    <3>2. QED
      BY <1>6, <3>1, Zenon DEF Next, PollSucceeds, Poll, LoadOffset, GetUpdates, AdvanceOffset, PollEnds,
         Route, Reply, LoseOwnership, OwnershipThrows, Stop, vars
  <2>2. QED
    BY <1>1, <1>4, <1>6, <2>1, HandledStep DEF InboundInv
<1>7. ForgottenWasHandled'
  <2>1. CASE ~Undisturbed'
    <3>1. faults'.crash \in Nat /\ faults'.save \in Nat
      BY <1>5, ConstantFacts DEF FaultsTyped
    <3>2. faults'.crash + faults'.save > 0
      BY <2>1, <3>1 DEF Undisturbed
    <3>3. QED
      BY <3>2 DEF ForgottenWasHandled
  <2>2. CASE Undisturbed' /\ held'
    BY <1>6, <2>2 DEF ForgottenWasHandled
  <2>3. CASE Undisturbed' /\ ~held'
    <3>1. UNCHANGED unconfirmed /\ UNCHANGED outcome
      <4>1. ASSUME Crash PROVE FALSE
        BY <1>1, <2>3, <4>1 DEF Crash
      <4>2. QED
        BY <2>3, <4>1 DEF Next, PollSucceeds, Poll, LoadOffset, GetUpdates, AdvanceOffset, PollEnds,
           Route, Reply, LoseOwnership, OwnershipThrows, Stop, vars
    <3>2. \A u \in Updates : u < unconfirmed => outcome[u] # "none"
      BY <1>1, <1>4, <2>3 DEF ForgottenWasHandled, Undisturbed
    <3>3. QED
      BY <3>1, <3>2 DEF ForgottenWasHandled
  <2>4. QED
    BY <2>1, <2>2, <2>3
<1>8. QED
  BY <1>2, <1>3, <1>6, <1>7 DEF InboundInv

\* What the invariant says of every state.
LEMMA InboundConsequences ==
  ASSUME InboundInv
  PROVE  TypeOK /\ (faults.load = 0 => AtMostOnce) /\ ForgottenWasHandled
BY DEF InboundInv, OffsetIsAhead

\* What it says of every step: advanceOffset never stores a smaller offset.
LEMMA InboundStepConsequences ==
  ASSUME InboundAssumption, InboundInv, [Next]_vars, faults.load = 0
  PROVE  OffsetNeverMovesBack
<1>2. OffsetsTyped /\ IsRun(batch) /\ OffsetIsAhead /\ OffsetIsLoaded
  BY TypeParts DEF InboundInv, BatchIsRun, IsRun
<1>3. stored \in Nat /\ nextOffset \in Nat
  BY <1>2, ConstantFacts DEF OffsetsTyped
<1>4. ASSUME NEW ok \in BOOLEAN, AdvanceOffset(ok) PROVE stored' >= stored
  <2>1. Head(batch) = batch[1] /\ batch[1] \in Nat /\ batch[1] >= nextOffset /\ nextOffset >= stored
    BY <1>2, <1>4, RestOfBatch DEF AdvanceOffset, OffsetIsAhead, OffsetIsLoaded
  <2>2. stored' = stored \/ stored' = batch[1] + 1 \/ stored' = nextOffset
    BY <1>4, <2>1 DEF AdvanceOffset, Advanced
  <2>3. QED
    BY <1>3, <2>1, <2>2
<1>5. CASE UNCHANGED stored
  BY <1>3, <1>5 DEF OffsetNeverMovesBack
<1>6. UNCHANGED stored \/ \E ok \in BOOLEAN : AdvanceOffset(ok)
  BY Zenon DEF Next, vars, PollSucceeds, Poll, LoadOffset, GetUpdates, PollEnds, Route, Reply,
        LoseOwnership, OwnershipThrows, Stop, Crash
<1>7. QED
  BY <1>4, <1>5, <1>6 DEF OffsetNeverMovesBack

\* The inductive invariant of the polling worker: the run of updates in hand, the offset
\* past the update being handled, and where both stand to the stored offset.
THEOREM InboundInvariant ==
  ASSUME InboundAssumption
  PROVE  Spec => []InboundInv
<1>1. Init => InboundInv
  BY InboundInit
<1>2. InboundInv /\ [Next]_vars => InboundInv'
  BY InboundStep
<1>3. QED
  BY <1>1, <1>2, PTL DEF Spec

\* For any sequence of updates, any number of crashes anywhere in a poll, refused offsets
\* and failed requests, a command of the operator is executed at most once, as long as no
\* load of the durable offset failed.
THEOREM CommandsExecuteAtMostOnce ==
  ASSUME InboundAssumption
  PROVE  Spec => [](faults.load = 0 => AtMostOnce)
<1>1. InboundInv => (faults.load = 0 => AtMostOnce)
  BY InboundConsequences
<1>2. QED
  BY <1>1, InboundInvariant, PTL

\* Under the same condition advanceOffset never stores a smaller offset.
THEOREM OffsetIsMonotone ==
  ASSUME InboundAssumption
  PROVE  Spec => [][faults.load = 0 => OffsetNeverMovesBack]_vars
<1>1. InboundInv /\ [Next]_vars => [faults.load = 0 => OffsetNeverMovesBack]_vars
  BY InboundStepConsequences
<1>2. QED
  BY <1>1, InboundInvariant, PTL DEF Spec

\* Telegram is asked to forget only what has an outcome, whatever loads and requests
\* failed, unless a crash or a refused offset came between.
THEOREM NothingForgotten ==
  ASSUME InboundAssumption
  PROVE  Spec => []ForgottenWasHandled
<1>1. InboundInv => ForgottenWasHandled
  BY InboundConsequences
<1>2. QED
  BY <1>1, InboundInvariant, PTL

=============================================================================
