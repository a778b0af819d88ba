------------------------- MODULE StrategySchedulerProofs -------------------------
(***************************************************************************)
(* The scheduler, its startup loop and the operator's runs, for any list   *)
(* of markets, any interval and any interleaving. The proofs follow two    *)
(* things through every step: the place of a market (its timer, the queue  *)
(* or the startup list, one of them and only one) and the place of a       *)
(* caller in its cycle.                                                    *)
(***************************************************************************)
EXTENDS StrategyScheduler, FiniteSetTheorems, TLAPS

Steps == {"idle", "refreshing", "preflight", "persisting", "requesting", "preparing", "running",
          "recording"}
Keys == 0 .. MaxKey \cup {NoKey}
Caller == [step : Steps, market : Market, key : Keys, fresh : BOOLEAN, row : BOOLEAN,
           result : Results]
Entry == [market : Market, key : 0 .. MaxKey]

\* TypeOK in parts; what it says of the lengths of queue and toStart follows from OnePlace.
ClockTyped ==
  /\ now \in 0 .. MaxTime /\ due \in [Market -> 0 .. NoTimer]
  /\ health.at \in 0 .. MaxTime

FlagsTyped ==
  /\ started \in BOOLEAN /\ stopBegun \in BOOLEAN /\ launched \in BOOLEAN /\ held \in BOOLEAN
  /\ quiesced \in {"no", "waiting", "yes"} /\ waiting \subseteq Schedulers
  /\ running \in [Market -> BOOLEAN]
  /\ refresh \in [inFlight : BOOLEAN, fresh : BOOLEAN]
  /\ health \in [at : 0 .. MaxTime, sound : BOOLEAN]

ListsTyped == queue \in Seq(Entry) /\ toStart \in Seq(Market)

CallersTyped == actor \in [Actors -> Caller] /\ busy \in Actors \cup {"nobody"} /\ lastKey \in Keys

\* A market has one place: its timer, an entry of the queue, or the startup list.
OnePlace ==
  /\ \A i, j \in 1 .. Len(queue) : queue[i].market = queue[j].market => i = j
  /\ \A i, j \in 1 .. Len(toStart) : toStart[i] = toStart[j] => i = j
  /\ \A i \in 1 .. Len(queue) : \A j \in 1 .. Len(toStart) : queue[i].market # toStart[j]
  /\ \A i \in 1 .. Len(queue) : due[queue[i].market] = NoTimer
  /\ \A i \in 1 .. Len(toStart) : due[toStart[i]] = NoTimer

\* Before start nothing is scheduled.
NothingBeforeStart ==
  ~launched => /\ queue = <<>> /\ toStart = <<>> /\ quiesced = "no"
               /\ \A m \in Market : due[m] = NoTimer

\* A cycle in progress is the one at the head of its list.
InHand ==
  /\ actor["queue"].step # "idle" =>
       queue # <<>> /\ actor["queue"].market = queue[1].market /\ actor["queue"].key = queue[1].key
  /\ actor["startup"].step # "idle" => toStart # <<>> /\ actor["startup"].market = toStart[1]

\* Who prepares or runs holds the controller; a scheduler's request has its row.
Requests ==
  /\ \A a \in Actors : actor[a].step \in {"preparing", "running"} => busy = a
  /\ \A a \in Schedulers : actor[a].step \in {"requesting", "preparing", "running"} => actor[a].row

\* After stopAndWait no cycle begins, and what is in progress is waited for.
StopWaits ==
  /\ quiesced # "no" => ~started
  /\ quiesced = "waiting" => \A a \in Schedulers : actor[a].step # "idle" => a \in waiting
  /\ QuiescedMeansIdle

\* A cycle of the queue that may still run belongs to a batch without an order.
BatchOpen ==
  actor["queue"].step \notin {"idle", "recording"} => lastKey # actor["queue"].key

SchedulerInv ==
  /\ ClockTyped /\ FlagsTyped /\ ListsTyped /\ CallersTyped
  /\ OnePlace /\ NothingBeforeStart /\ InHand /\ Requests /\ StopWaits /\ BatchOpen
  /\ NoMarketForgotten

\* With timers only: one cycle at a time, and no order comes between its refresh and
\* its run. A refresh in flight is the one the queue's cycle waits for.
Quiet ==
  /\ toStart = <<>> /\ actor["operator"].step = "idle"
  /\ refresh.inFlight /\ held => actor["queue"].step = "refreshing" /\ refresh.fresh
  /\ actor["queue"].step \in {"preflight", "running"} => actor["queue"].fresh
  /\ actor["queue"].step = "preparing" => actor["queue"].market \in Candidate
  /\ actor["queue"].step \in {"persisting", "requesting"} =>
       actor["queue"].fresh \/ actor["queue"].market \in Candidate

-----------------------------------------------------------------------------
(***************************************************************************)
(* Types                                                                   *)
(***************************************************************************)

LEMMA ConstantFacts ==
  ASSUME SchedulerAssumption
  PROVE  /\ Markets \in Seq(Market) /\ Len(Markets) \in Nat /\ Len(Markets) > 0
         /\ Markets[1] \in Market
         /\ Interval \in Nat /\ Interval > 0 /\ MaxTime \in Nat /\ Granularity \in Nat /\ Granularity > 0
         /\ NoTimer \in Nat /\ NoKey = NoTimer /\ NoTimer > MaxTime + Interval
<1>1. Markets \in Seq(Market) /\ Len(Markets) \in Nat /\ Len(Markets) > 0
  BY DEF SchedulerAssumption
<1>2. Markets[1] \in Market
  BY <1>1 DEF Market
<1>3. QED
  BY <1>1, <1>2 DEF SchedulerAssumption, NoTimer, NoKey

\* The batch of a timer that fell due.
LEMMA BatchKeyType ==
  ASSUME SchedulerAssumption, NEW t \in 0 .. MaxTime + Interval
  PROVE  BatchKey(t) \in 0 .. MaxKey
<1> DEFINE u == MaxTime + Interval
           g == Granularity
           p == t \div g
           q == u \div g
<1>1. t \in Nat /\ u \in Nat /\ g \in Nat /\ g > 0 /\ t <= u
  BY ConstantFacts
<1>2. p \in Int /\ q \in Int /\ g * p <= t /\ t < g * p + g /\ g * q <= u /\ u < g * q + g
  BY <1>1
<1>3. p >= 0 /\ p <= q
  <2> HIDE DEF p, q, u, g
  <2>1. ASSUME p < 0 PROVE FALSE
    <3>1. g * (p + 1) <= 0
      BY <1>1, <1>2, <2>1
    <3>2. QED
      BY <1>1, <1>2, <3>1
  <2>2. ASSUME q < p PROVE FALSE
    <3>1. g * (q + 1) <= g * p
      BY <1>1, <1>2, <2>2
    <3>2. QED
      BY <1>1, <1>2, <3>1
  <2>3. QED
    BY <1>2, <2>1, <2>2
<1>4. QED
  BY <1>2, <1>3 DEF BatchKey, MaxKey

LEMMA IdleType ==
  ASSUME SchedulerAssumption, NEW m \in Market
  PROVE  Idle(m) \in Caller /\ Idle(m).step = "idle" /\ Idle(m).market = m
BY DEF Idle, Caller, Steps, Keys, Results
-----------------------------------------------------------------------------
(***************************************************************************)
(* The place of a market                                                   *)
(***************************************************************************)

Fired(m) ==
  /\ due[m] # NoTimer /\ due[m] <= now /\ due' = [due EXCEPT ![m] = NoTimer]
  /\ queue' = Append(queue, [market |-> m, key |-> BatchKey(due[m])]) /\ UNCHANGED toStart

Launches ==
  /\ ~launched /\ launched' /\ UNCHANGED queue
  /\ \/ toStart' = Markets /\ UNCHANGED due
     \/ toStart' = <<>> /\ due' = [m \in Market |-> now + Interval]
     \/ toStart' = <<>> /\ UNCHANGED due /\ ~started'

Finished(m) ==
  /\ \/ started /\ due' = [due EXCEPT ![m] = now + Interval]
     \/ ~started' /\ UNCHANGED due
  /\ started' = started

QueueDone == queue # <<>> /\ queue' = Tail(queue) /\ UNCHANGED toStart /\ Finished(queue[1].market)

StartupDone == toStart # <<>> /\ toStart' = Tail(toStart) /\ UNCHANGED queue /\ Finished(toStart[1])

Dropped ==
  /\ ~started' \/ ~held'
  /\ UNCHANGED queue \/ (queue # <<>> /\ queue' = Tail(queue))
  /\ UNCHANGED toStart \/ toStart' = <<>>
  /\ UNCHANGED due \/ due' = [m \in Market |-> NoTimer]

PlaceStep ==
  \/ UNCHANGED <<due, queue, toStart>> /\ (started' => started) /\ (held' => held)
  \/ \E m \in Market : Fired(m) /\ UNCHANGED <<started, held>>
  \/ Launches \/ (QueueDone /\ UNCHANGED held) \/ (StartupDone /\ UNCHANGED held) \/ Dropped

\* A market changes its place only when its timer fires, at start, when its cycle has
\* been recorded, or when the scheduler has stopped or lost the ownership.
LEMMA PlaceSteps ==
  ASSUME SchedulerAssumption, SchedulerInv, [Next]_vars
  PROVE  PlaceStep
<1>0. /\ actor["queue"].step # "idle" => queue # <<>> /\ actor["queue"].market = queue[1].market
      /\ actor["startup"].step # "idle" => toStart # <<>> /\ actor["startup"].market = toStart[1]
      /\ started \in BOOLEAN
  BY DEF SchedulerInv, InHand, FlagsTyped
<1>1. ASSUME Start PROVE PlaceStep
  <2>1. Launches
    <3>1. CASE HealthPasses /\ RunOnStart
      BY <1>1, <3>1 DEF Start, Launches
    <3>2. CASE HealthPasses /\ ~RunOnStart
      BY <1>1, <3>2 DEF Start, Launches
    <3>3. CASE ~HealthPasses
      BY <1>1, <3>3 DEF Start, Launches
    <3>4. QED
      BY <3>1, <3>2, <3>3
  <2>2. QED
    BY <2>1 DEF PlaceStep
<1>2. ASSUME NEW m \in Market, TimerFires(m) PROVE PlaceStep
  <2>1. Fired(m) /\ UNCHANGED <<started, held>>
    <3>1. now >= due[m] => due[m] <= now
      BY DEF SchedulerInv, ClockTyped
    <3>2. QED
      BY <1>2, <3>1, Zenon DEF TimerFires, Fired
  <2>2. QED
    BY <2>1, Zenon DEF PlaceStep
<1>3. ASSUME TakeQueued PROVE PlaceStep
  <2>1. CASE ~started
    <3>1. Dropped
      BY <1>3, <2>1 DEF TakeQueued, MayContinue, Dropped
    <3>2. QED
      BY <3>1 DEF PlaceStep
  <2>2. CASE started
    <3>1. UNCHANGED queue
      BY <1>3, <2>2, Zenon DEF TakeQueued, MayContinue
    <3>2. QED
      BY <1>3, <3>1, Zenon DEF TakeQueued, PlaceStep
  <2>3. QED
    BY <2>1, <2>2
<1>4. ASSUME StartupCycle PROVE PlaceStep
  <2>1. CASE ~started
    <3>1. Dropped
      BY <1>4, <2>1 DEF StartupCycle, MayContinue, Dropped
    <3>2. QED
      BY <3>1 DEF PlaceStep
  <2>2. CASE started
    BY <1>4, <2>2, Zenon DEF StartupCycle, MayContinue, PlaceStep
  <2>3. QED
    BY <2>1, <2>2
<1>5. ASSUME NEW a \in Schedulers, Recorded(a) PROVE PlaceStep
  <2>1. UNCHANGED <<started, held>> /\ actor[a].step # "idle"
    BY <1>5 DEF Recorded
  <2>2. Finished(actor[a].market)
    <3>1. CASE started
      BY <1>5, <2>1, <3>1 DEF Recorded, Reschedule, Finished
    <3>2. CASE ~started
      BY <1>5, <2>1, <3>2 DEF Recorded, Reschedule, Finished
    <3>3. QED
      BY <3>1, <3>2
  <2>3. CASE a = "queue"
    <3>1. queue' = Tail(queue) /\ UNCHANGED toStart
      BY <1>5, <2>3 DEF Recorded
    <3>2. QED
      BY <1>0, <2>1, <2>2, <2>3, <3>1, Zenon DEF QueueDone, PlaceStep
  <2>4. CASE a = "startup"
    <3>1. toStart' = Tail(toStart) /\ UNCHANGED queue
      BY <1>5, <2>4 DEF Recorded
    <3>2. QED
      BY <1>0, <2>1, <2>2, <2>4, <3>1, Zenon DEF StartupDone, PlaceStep
  <2>5. QED
    BY <2>3, <2>4 DEF Schedulers
<1>6. ASSUME Stop PROVE PlaceStep
  BY <1>6, Zenon DEF Stop, Stopping, Dropped, PlaceStep
<1>7. ASSUME NEW a \in Actors, Throws(a) PROVE PlaceStep
  <2>1. ~held' /\ actor[a].step # "idle"
    BY <1>7 DEF Throws
  <2>2. UNCHANGED due \/ due' = [m \in Market |-> NoTimer]
    BY <1>7, Zenon DEF Throws, Stopping
  <2>3. UNCHANGED queue \/ (queue # <<>> /\ queue' = Tail(queue))
    BY <1>0, <1>7, <2>1 DEF Throws
  <2>4. UNCHANGED toStart \/ toStart' = <<>>
    BY <1>7 DEF Throws
  <2>5. QED
    BY <2>1, <2>2, <2>3, <2>4, Zenon DEF Dropped, PlaceStep
<1>8. ASSUME RunRefused PROVE PlaceStep
  BY <1>8, Zenon DEF RunRefused, Stopping, Dropped, PlaceStep
<1>9. ASSUME \/ StopReturns \/ LoseOwnership \/ Tick \/ UNCHANGED vars
             \/ \E m \in Market : RequestManualRun(m)
             \/ \E ok, sound \in BOOLEAN : RefreshEnds(ok, sound)
             \/ \E a \in Schedulers : RequestRun(a) \/ \E ok \in BOOLEAN : Preflight(a, ok) \/ PersistStart(a, ok)
             \/ \E a \in Actors : \/ \E ready \in BOOLEAN : Prepare(a, ready)
                                \/ \E r \in {"submitted", "other", "FAILED"} : RunnerEnds(a, r)
      PROVE PlaceStep
  BY <1>9, Zenon DEF StopReturns, LoseOwnership, Tick, vars, RequestManualRun, RefreshEnds, RequestRun,
     Preflight, PersistStart, Prepare, RunnerEnds, PlaceStep
<1>10. QED
  BY <1>1, <1>2, <1>3, <1>4, <1>5, <1>6, <1>7, <1>8, <1>9, Zenon DEF Next, Cycle, Request

LEMMA TailFacts ==
  ASSUME NEW S, NEW s \in Seq(S), s # <<>>
  PROVE  /\ Tail(s) \in Seq(S) /\ Len(s) \in Nat /\ Len(s) > 0 /\ Len(Tail(s)) = Len(s) - 1
         /\ \A i \in 1 .. Len(s) - 1 : Tail(s)[i] = s[i + 1] /\ i + 1 \in 1 .. Len(s)
         /\ s[1] \in S /\ Head(s) = s[1]
OBVIOUS

LEMMA EntryFacts ==
  ASSUME ListsTyped
  PROVE  /\ \A i \in 1 .. Len(queue) : queue[i].market \in Market /\ queue[i].key \in 0 .. MaxKey
         /\ \A i \in 1 .. Len(toStart) : toStart[i] \in Market
<1>1. queue \in Seq(Entry) /\ toStart \in Seq(Market)
  BY DEF ListsTyped
<1>2. \A e \in Entry : e.market \in Market /\ e.key \in 0 .. MaxKey
  BY DEF Entry
<1>3. \A i \in 1 .. Len(queue) : queue[i] \in Entry
  BY <1>1
<1>4. \A i \in 1 .. Len(toStart) : toStart[i] \in Market
  BY <1>1
<1>5. QED
  BY <1>2, <1>3, <1>4, Zenon

LEMMA FiredKeeps ==
  ASSUME SchedulerAssumption, ClockTyped, ListsTyped, OnePlace, NEW m \in Market, Fired(m)
  PROVE  /\ ListsTyped' /\ due' \in [Market -> 0 .. NoTimer] /\ OnePlace'
         /\ Len(queue') = Len(queue) + 1 /\ Len(queue) \in Nat
         /\ \A i \in 1 .. Len(queue) : queue'[i] = queue[i]
         /\ queue'[Len(queue) + 1].market = m
<1> DEFINE e == [market |-> m, key |-> BatchKey(due[m])]
           n == Len(queue)
<1>1. e \in Entry
  <2>1. due[m] \in 0 .. MaxTime + Interval
    BY ConstantFacts DEF Fired, ClockTyped, NoTimer
  <2>2. QED
    BY <2>1, BatchKeyType DEF Entry
<1>2. n \in Nat /\ queue \in Seq(Entry)
  BY DEF ListsTyped
<1>3. /\ queue' \in Seq(Entry) /\ Len(queue') = n + 1
      /\ \A i \in 1 .. n : queue'[i] = queue[i]
      /\ queue'[n + 1] = e /\ e.market = m
  <2> HIDE DEF e
  <2>1. queue' = Append(queue, e)
    BY DEF Fired, e
  <2>2. e.market = m
    BY DEF e
  <2>3. QED
    BY <1>1, <1>2, <2>1, <2>2
<1>4. due' \in [Market -> 0 .. NoTimer] /\ due'[m] = NoTimer /\ \A x \in Market : x # m => due'[x] = due[x]
  BY ConstantFacts DEF Fired, ClockTyped
<1>5. \A i \in 1 .. n : queue[i].market # m /\ queue[i].market \in Market
  BY EntryFacts, Zenon DEF Fired, OnePlace
<1>6. \A j \in 1 .. Len(toStart) : toStart[j] # m /\ toStart[j] \in Market
  BY EntryFacts, Zenon DEF Fired, OnePlace
<1>7. toStart' = toStart
  BY DEF Fired
<1>8. \A i \in 1 .. n + 1 : i \in 1 .. n \/ i = n + 1
  BY <1>2
<1> HIDE DEF e, n
<1>9. OnePlace'
  <2>1. \A i, j \in 1 .. Len(queue') : queue'[i].market = queue'[j].market => i = j
    BY <1>3, <1>5, <1>8, Zenon DEF OnePlace, n
  <2>2. \A i \in 1 .. Len(queue') : \A j \in 1 .. Len(toStart) : queue'[i].market # toStart[j]
    <3>1. SUFFICES ASSUME NEW i \in 1 .. n + 1, NEW j \in 1 .. Len(toStart) PROVE queue'[i].market # toStart[j]
      BY <1>3, Zenon
    <3>2. CASE i \in 1 .. n
      BY <1>3, <3>2, Zenon DEF OnePlace, n
    <3>3. CASE i = n + 1
      BY <1>3, <1>6, <3>3, Zenon
    <3>4. QED
      BY <1>8, <3>2, <3>3
  <2>3. \A i \in 1 .. Len(queue') : due'[queue'[i].market] = NoTimer
    <3>1. SUFFICES ASSUME NEW i \in 1 .. n + 1 PROVE due'[queue'[i].market] = NoTimer
      BY <1>3, Zenon
    <3>2. CASE i \in 1 .. n
      <4>1. queue'[i] = queue[i] /\ due[queue[i].market] = NoTimer
        BY <1>3, <3>2, Zenon DEF OnePlace, n
      <4>2. QED
        BY <1>4, <1>5, <3>2, <4>1, Zenon
    <3>3. CASE i = n + 1
      BY <1>3, <1>4, <3>3, Zenon
    <3>4. QED
      BY <1>8, <3>2, <3>3
  <2>4. \A i \in 1 .. Len(toStart) : due'[toStart[i]] = NoTimer
    BY <1>4, <1>6, Zenon DEF OnePlace
  <2>5. QED
    BY <1>7, <2>1, <2>2, <2>3, <2>4 DEF OnePlace
<1>10. QED
  BY <1>2, <1>3, <1>4, <1>7, <1>9 DEF ListsTyped, n
\* t is s without its first k elements.
Suffix(t, s, k) ==
  Len(t) = Len(s) - k /\ \A i \in 1 .. Len(t) : t[i] = s[i + k] /\ i + k \in 1 .. Len(s)

\* Markets leave the lists from the front; the first may get a timer.
LEMMA SuffixKeeps ==
  ASSUME ListsTyped, OnePlace, NEW k \in Nat, NEW l \in Nat,
         queue' \in Seq(Entry), toStart' \in Seq(Market),
         Suffix(queue', queue, k), Suffix(toStart', toStart, l),
         \A x \in Market : \/ due'[x] = due[x] \/ due'[x] = NoTimer
                           \/ (k = 1 /\ x = queue[1].market /\ 1 \in 1 .. Len(queue))
                           \/ (l = 1 /\ x = toStart[1] /\ 1 \in 1 .. Len(toStart))
  PROVE  OnePlace'
<1>1. \A i \in 1 .. Len(queue') : i \in Nat /\ i > 0 /\ queue'[i] = queue[i + k] /\ i + k \in 1 .. Len(queue)
  BY DEF Suffix
<1>2. \A i \in 1 .. Len(toStart') : i \in Nat /\ i > 0 /\ toStart'[i] = toStart[i + l] /\ i + l \in 1 .. Len(toStart)
  BY DEF Suffix
<1>3. \A i, j \in 1 .. Len(queue') : queue'[i].market = queue'[j].market => i = j
  <2>1. SUFFICES ASSUME NEW i \in 1 .. Len(queue'), NEW j \in 1 .. Len(queue'), queue'[i].market = queue'[j].market
        PROVE  i = j
    OBVIOUS
  <2>2. /\ queue[i + k].market = queue[j + k].market
        /\ i + k \in 1 .. Len(queue) /\ j + k \in 1 .. Len(queue) /\ i \in Nat /\ j \in Nat
    BY <1>1, <2>1
  <2>3. i + k = j + k
    BY <2>2, Zenon DEF OnePlace
  <2>4. QED
    BY <2>2, <2>3
<1>4. \A i, j \in 1 .. Len(toStart') : toStart'[i] = toStart'[j] => i = j
  <2>1. SUFFICES ASSUME NEW i \in 1 .. Len(toStart'), NEW j \in 1 .. Len(toStart'), toStart'[i] = toStart'[j]
        PROVE  i = j
    OBVIOUS
  <2>2. /\ toStart[i + l] = toStart[j + l]
        /\ i + l \in 1 .. Len(toStart) /\ j + l \in 1 .. Len(toStart) /\ i \in Nat /\ j \in Nat
    BY <1>2, <2>1
  <2>3. i + l = j + l
    BY <2>2, Zenon DEF OnePlace
  <2>4. QED
    BY <2>2, <2>3
<1>5. \A i \in 1 .. Len(queue') : \A j \in 1 .. Len(toStart') : queue'[i].market # toStart'[j]
  <2>1. SUFFICES ASSUME NEW i \in 1 .. Len(queue'), NEW j \in 1 .. Len(toStart')
        PROVE  queue'[i].market # toStart'[j]
    OBVIOUS
  <2>2. /\ queue'[i] = queue[i + k] /\ i + k \in 1 .. Len(queue)
        /\ toStart'[j] = toStart[j + l] /\ j + l \in 1 .. Len(toStart)
    BY <1>1, <1>2
  <2>3. queue[i + k].market # toStart[j + l]
    BY <2>2, Zenon DEF OnePlace
  <2>4. QED
    BY <2>2, <2>3
<1>6. \A i \in 1 .. Len(queue') : due'[queue'[i].market] = NoTimer
  <2>1. SUFFICES ASSUME NEW i \in 1 .. Len(queue') PROVE due'[queue'[i].market] = NoTimer
    OBVIOUS
  <2> DEFINE x == queue[i + k].market
  <2>2. queue'[i].market = x /\ x \in Market /\ due[x] = NoTimer
    BY <1>1, EntryFacts, Zenon DEF OnePlace
  <2>3. ~(k = 1 /\ x = queue[1].market /\ 1 \in 1 .. Len(queue))
    <3>1. SUFFICES ASSUME k = 1, x = queue[1].market, 1 \in 1 .. Len(queue) PROVE FALSE
      OBVIOUS
    <3>2. i + k = 1
      BY <1>1, <3>1, Zenon DEF OnePlace
    <3>3. QED
      BY <3>1, <3>2
  <2>4. ~(l = 1 /\ x = toStart[1] /\ 1 \in 1 .. Len(toStart))
    BY <1>1, Zenon DEF OnePlace
  <2> HIDE DEF x
  <2>5. due'[x] = NoTimer
    BY <2>2, <2>3, <2>4
  <2>6. QED
    BY <2>2, <2>5
<1>7. \A i \in 1 .. Len(toStart') : due'[toStart'[i]] = NoTimer
  <2>1. SUFFICES ASSUME NEW i \in 1 .. Len(toStart') PROVE due'[toStart'[i]] = NoTimer
    OBVIOUS
  <2> DEFINE x == toStart[i + l]
  <2>2. toStart'[i] = x /\ x \in Market /\ due[x] = NoTimer
    BY <1>2, EntryFacts, Zenon DEF OnePlace
  <2>3. ~(l = 1 /\ x = toStart[1] /\ 1 \in 1 .. Len(toStart))
    <3>1. SUFFICES ASSUME l = 1, x = toStart[1], 1 \in 1 .. Len(toStart) PROVE FALSE
      OBVIOUS
    <3>2. i + l = 1
      BY <1>2, <3>1, Zenon DEF OnePlace
    <3>3. QED
      BY <3>1, <3>2
  <2>4. ~(k = 1 /\ x = queue[1].market /\ 1 \in 1 .. Len(queue))
    BY <1>2, Zenon DEF OnePlace
  <2> HIDE DEF x
  <2>5. due'[x] = NoTimer
    BY <2>2, <2>3, <2>4
  <2>6. QED
    BY <2>2, <2>5
<1>8. QED
  BY <1>3, <1>4, <1>5, <1>6, <1>7, Zenon DEF OnePlace

LEMMA SuffixForms ==
  ASSUME NEW S, NEW s \in Seq(S)
  PROVE  /\ Suffix(s, s, 0)
         /\ <<>> \in Seq(S) /\ Len(s) \in Nat /\ Suffix(<<>>, s, Len(s))
         /\ s # <<>> => Suffix(Tail(s), s, 1) /\ Tail(s) \in Seq(S) /\ 1 \in 1 .. Len(s)
<1>1. Len(s) \in Nat /\ <<>> \in Seq(S) /\ Len(<<>>) = 0
  OBVIOUS
<1>2. Suffix(s, s, 0)
  BY <1>1 DEF Suffix
<1>3. Suffix(<<>>, s, Len(s))
  BY <1>1 DEF Suffix
<1>4. ASSUME s # <<>> PROVE Suffix(Tail(s), s, 1) /\ Tail(s) \in Seq(S) /\ 1 \in 1 .. Len(s)
  BY <1>1, <1>4, TailFacts DEF Suffix
<1>5. QED
  BY <1>1, <1>2, <1>3, <1>4

\* Every change of place keeps the lists and timers well typed and the places apart.
LEMMA PlacesKept ==
  ASSUME SchedulerAssumption, ClockTyped, ListsTyped, OnePlace, NothingBeforeStart, PlaceStep
  PROVE  ListsTyped' /\ due' \in [Market -> 0 .. NoTimer] /\ OnePlace'
<1>1. /\ now + Interval \in 0 .. NoTimer /\ NoTimer \in 0 .. NoTimer /\ due \in [Market -> 0 .. NoTimer]
      /\ queue \in Seq(Entry) /\ toStart \in Seq(Market)
  BY ConstantFacts DEF ClockTyped, NoTimer, ListsTyped
<1>2. CASE UNCHANGED <<due, queue, toStart>>
  BY <1>1, <1>2 DEF ListsTyped, OnePlace
<1>3. ASSUME NEW m \in Market, Fired(m) PROVE ListsTyped' /\ due' \in [Market -> 0 .. NoTimer] /\ OnePlace'
  BY <1>3, FiredKeeps
<1>4. CASE Launches
  <2>1. queue' = <<>> /\ queue' \in Seq(Entry) /\ \A m \in Market : due[m] = NoTimer
    BY <1>1, <1>4 DEF Launches, NothingBeforeStart
  <2>2. CASE toStart' = Markets /\ UNCHANGED due
    <3>1. \A i \in 1 .. Len(Markets) : Markets[i] \in Market
      BY ConstantFacts
    <3>2. OnePlace'
      BY <2>1, <2>2, <3>1 DEF OnePlace, SchedulerAssumption
    <3>3. QED
      BY <1>1, <2>1, <2>2, <3>2, ConstantFacts DEF ListsTyped
  <2>3. CASE toStart' = <<>>
    <3>1. toStart' \in Seq(Market) /\ due' \in [Market -> 0 .. NoTimer]
      BY <1>1, <1>4, <2>3, ConstantFacts DEF Launches
    <3>2. QED
      BY <2>1, <2>3, <3>1 DEF OnePlace, ListsTyped
  <2>4. QED
    BY <1>4, <2>2, <2>3 DEF Launches
<1>5. CASE QueueDone
  <2>1. queue # <<>> /\ queue' = Tail(queue) /\ toStart' = toStart
    BY <1>5 DEF QueueDone
  <2>2. /\ Suffix(queue', queue, 1) /\ queue' \in Seq(Entry) /\ 1 \in 1 .. Len(queue)
        /\ Suffix(toStart', toStart, 0) /\ toStart' \in Seq(Market)
    BY <1>1, <2>1, SuffixForms
  <2>3. queue[1].market \in Market
    BY <2>2, EntryFacts
  <2>4. due' \in [Market -> 0 .. NoTimer] /\ \A x \in Market : due'[x] = due[x] \/ x = queue[1].market
    BY <1>1, <1>5, <2>3 DEF QueueDone, Finished
  <2>5. OnePlace'
    BY <2>2, <2>4, SuffixKeeps
  <2>6. QED
    BY <2>2, <2>4, <2>5 DEF ListsTyped
<1>6. CASE StartupDone
  <2>1. toStart # <<>> /\ toStart' = Tail(toStart) /\ queue' = queue
    BY <1>6 DEF StartupDone
  <2>2. /\ Suffix(toStart', toStart, 1) /\ toStart' \in Seq(Market) /\ 1 \in 1 .. Len(toStart)
        /\ Suffix(queue', queue, 0) /\ queue' \in Seq(Entry)
    BY <1>1, <2>1, SuffixForms
  <2>3. toStart[1] \in Market
    BY <2>2, EntryFacts
  <2>4. due' \in [Market -> 0 .. NoTimer] /\ \A x \in Market : due'[x] = due[x] \/ x = toStart[1]
    BY <1>1, <1>6, <2>3 DEF StartupDone, Finished
  <2>5. OnePlace'
    BY <2>2, <2>4, SuffixKeeps
  <2>6. QED
    BY <2>2, <2>4, <2>5 DEF ListsTyped
<1>7. CASE Dropped
  <2>1. PICK k \in Nat : Suffix(queue', queue, k) /\ queue' \in Seq(Entry)
    BY <1>1, <1>7, SuffixForms DEF Dropped
  <2>2. PICK l \in Nat : Suffix(toStart', toStart, l) /\ toStart' \in Seq(Market)
    <3>1. Len(toStart) \in Nat /\ 0 \in Nat
      BY <1>1
    <3>2. QED
      BY <1>1, <1>7, <3>1, SuffixForms DEF Dropped
  <2>3. due' \in [Market -> 0 .. NoTimer] /\ \A x \in Market : due'[x] = due[x] \/ due'[x] = NoTimer
    BY <1>1, <1>7 DEF Dropped
  <2>4. OnePlace'
    BY <2>1, <2>2, <2>3, SuffixKeeps
  <2>5. QED
    BY <2>1, <2>2, <2>3, <2>4 DEF ListsTyped
<1>8. QED
  BY <1>2, <1>3, <1>4, <1>5, <1>6, <1>7, Zenon DEF PlaceStep
\* No market is forgotten: it leaves a list only with a timer, or the scheduler stopped.
LEMMA MarketsKept ==
  ASSUME SchedulerAssumption, ClockTyped, FlagsTyped, ListsTyped, OnePlace, NothingBeforeStart,
         NoMarketForgotten, PlaceStep
  PROVE  NoMarketForgotten'
<1> DEFINE Placed(m) == \/ due[m] # NoTimer
                        \/ \E i \in 1 .. Len(queue) : queue[i].market = m
                        \/ \E i \in 1 .. Len(toStart) : toStart[i] = m
<1>1. started /\ held => \A m \in Market : Placed(m)
  BY DEF NoMarketForgotten
<1>2. SUFFICES ASSUME started', held', NEW m \in Market PROVE Placed(m)'
  BY DEF NoMarketForgotten
<1>3. /\ now + Interval \in Nat /\ now + Interval # NoTimer /\ due \in [Market -> 0 .. NoTimer]
      /\ queue \in Seq(Entry) /\ toStart \in Seq(Market)
  BY ConstantFacts DEF ClockTyped, NoTimer, ListsTyped
<1>4. CASE UNCHANGED <<due, queue, toStart>> /\ (started' => started) /\ (held' => held)
  BY <1>1, <1>2, <1>4
<1>5. ASSUME NEW f \in Market, Fired(f), UNCHANGED <<started, held>> PROVE Placed(m)'
  <2>1. /\ Len(queue') = Len(queue) + 1 /\ Len(queue) \in Nat
        /\ \A i \in 1 .. Len(queue) : queue'[i] = queue[i]
        /\ queue'[Len(queue) + 1].market = f
    BY <1>5, FiredKeeps
  <2>2. Placed(m)
    BY <1>1, <1>2, <1>5
  <2>3. CASE m = f
    <3>1. Len(queue) + 1 \in 1 .. Len(queue')
      BY <2>1
    <3>2. QED
      BY <2>1, <2>3, <3>1
  <2>4. CASE m # f
    <3>1. due'[m] = due[m] /\ toStart' = toStart
      BY <1>3, <1>5, <2>4 DEF Fired
    <3>2. \A i \in 1 .. Len(queue) : i \in 1 .. Len(queue') /\ queue'[i] = queue[i]
      BY <2>1
    <3>3. QED
      BY <2>2, <3>1, <3>2
  <2>5. QED
    BY <2>3, <2>4
<1>6. CASE Launches
  <2>1. CASE toStart' = Markets
    BY <2>1 DEF Market
  <2>2. CASE due' = [x \in Market |-> now + Interval]
    BY <1>3, <2>2
  <2>3. QED
    BY <1>2, <1>6, <2>1, <2>2 DEF Launches
<1>7. CASE QueueDone /\ UNCHANGED held
  <2>1. Placed(m) /\ started
    BY <1>1, <1>2, <1>7 DEF QueueDone, Finished
  <2>2. /\ Len(queue) \in Nat /\ Len(queue') = Len(queue) - 1 /\ toStart' = toStart /\ 1 \in 1 .. Len(queue)
        /\ \A i \in 1 .. Len(queue) - 1 : queue'[i] = queue[i + 1]
    BY <1>3, <1>7, TailFacts DEF QueueDone
  <2>3. due' = [due EXCEPT ![queue[1].market] = now + Interval]
    BY <1>2, <1>7, <2>1 DEF QueueDone, Finished
  <2>4. CASE m = queue[1].market
    BY <1>3, <2>3, <2>4
  <2>5. CASE m # queue[1].market
    <3>1. due'[m] = due[m]
      BY <1>3, <2>3, <2>5
    <3>2. ASSUME NEW i \in 1 .. Len(queue), queue[i].market = m PROVE \E j \in 1 .. Len(queue') : queue'[j].market = m
      <4>1. i # 1 /\ i - 1 \in 1 .. Len(queue') /\ i - 1 \in 1 .. Len(queue) - 1 /\ (i - 1) + 1 = i
        BY <2>2, <2>5, <3>2
      <4>2. queue'[i - 1] = queue[i]
        BY <2>2, <4>1
      <4>3. QED
        BY <3>2, <4>1, <4>2
    <3>3. QED
      BY <2>1, <2>2, <3>1, <3>2
  <2>6. QED
    BY <2>4, <2>5
<1>8. CASE StartupDone /\ UNCHANGED held
  <2>1. Placed(m) /\ started
    BY <1>1, <1>2, <1>8 DEF StartupDone, Finished
  <2>2. /\ Len(toStart) \in Nat /\ Len(toStart') = Len(toStart) - 1 /\ queue' = queue /\ 1 \in 1 .. Len(toStart)
        /\ \A i \in 1 .. Len(toStart) - 1 : toStart'[i] = toStart[i + 1]
    BY <1>3, <1>8, TailFacts DEF StartupDone
  <2>3. due' = [due EXCEPT ![toStart[1]] = now + Interval]
    BY <1>2, <1>8, <2>1 DEF StartupDone, Finished
  <2>4. CASE m = toStart[1]
    BY <1>3, <2>3, <2>4
  <2>5. CASE m # toStart[1]
    <3>1. due'[m] = due[m]
      BY <1>3, <2>3, <2>5
    <3>2. ASSUME NEW i \in 1 .. Len(toStart), toStart[i] = m PROVE \E j \in 1 .. Len(toStart') : toStart'[j] = m
      <4>1. i # 1 /\ i - 1 \in 1 .. Len(toStart') /\ i - 1 \in 1 .. Len(toStart) - 1 /\ (i - 1) + 1 = i
        BY <2>2, <2>5, <3>2
      <4>2. toStart'[i - 1] = toStart[i]
        BY <2>2, <4>1
      <4>3. QED
        BY <3>2, <4>1, <4>2
    <3>3. QED
      BY <2>1, <2>2, <3>1, <3>2
  <2>6. QED
    BY <2>4, <2>5
<1>9. CASE Dropped
  BY <1>2, <1>9 DEF Dropped
<1>10. QED
  BY <1>4, <1>5, <1>6, <1>7, <1>8, <1>9, Zenon DEF PlaceStep

\* What holds before start holds until start.
LEMMA StartKept ==
  ASSUME SchedulerAssumption, SchedulerInv, [Next]_vars
  PROVE  NothingBeforeStart'
<1>1. PlaceStep
  BY PlaceSteps
<1>2. (launched => launched') /\ (quiesced' = quiesced \/ launched \/ quiesced # "no")
  <2>1. ASSUME Start PROVE launched' /\ quiesced' = quiesced
    BY <2>1 DEF Start
  <2>2. ASSUME Stop PROVE launched' = launched /\ launched
    BY <2>2 DEF Stop
  <2>3. ASSUME StopReturns PROVE launched' = launched /\ quiesced # "no"
    BY <2>3 DEF StopReturns
  <2>4. ASSUME \/ TakeQueued \/ StartupCycle \/ LoseOwnership \/ RunRefused \/ Tick \/ UNCHANGED vars
               \/ \E m \in Market : TimerFires(m) \/ RequestManualRun(m)
               \/ \E ok, sound \in BOOLEAN : RefreshEnds(ok, sound)
        PROVE  launched' = launched /\ quiesced' = quiesced
    BY <2>4, Zenon DEF TakeQueued, StartupCycle, LoseOwnership, RunRefused, Tick, vars, TimerFires,
       RequestManualRun, RefreshEnds
  <2>5. ASSUME (\E a \in Schedulers : Cycle(a)) \/ \E a \in Actors : Request(a)
        PROVE  launched' = launched /\ quiesced' = quiesced
    BY <2>5, Zenon DEF Cycle, Request, Preflight, PersistStart, RequestRun, Recorded, Prepare, RunnerEnds, Throws
  <2>6. QED
    BY <2>1, <2>2, <2>3, <2>4, <2>5, Zenon DEF Next
<1>3. SUFFICES ASSUME ~launched' PROVE /\ queue' = <<>> /\ toStart' = <<>> /\ quiesced' = "no"
                                        /\ \A m \in Market : due'[m] = NoTimer
  BY DEF NothingBeforeStart
<1>4. /\ ~launched /\ queue = <<>> /\ toStart = <<>> /\ quiesced = "no" /\ quiesced' = "no"
      /\ \A m \in Market : due[m] = NoTimer
  BY <1>2, <1>3 DEF SchedulerInv, NothingBeforeStart
<1>5. CASE UNCHANGED <<due, queue, toStart>>
  BY <1>4, <1>5
<1>6. CASE Dropped
  BY <1>4, <1>6 DEF Dropped
<1>7. QED
  BY <1>1, <1>3, <1>4, <1>5, <1>6, Zenon DEF PlaceStep, Fired, Launches, QueueDone, StartupDone
-----------------------------------------------------------------------------
(***************************************************************************)
(* The place of a caller                                                   *)
(***************************************************************************)

Requesting == {"preparing", "running"}

Stays(b) ==
  /\ actor'[b].step = actor[b].step /\ actor'[b].market = actor[b].market
  /\ actor'[b].key = actor[b].key /\ actor'[b].row = actor[b].row
  /\ actor[b].step \in Requesting => busy' = b

Goes(b) ==
  /\ actor[b].step # "idle" /\ actor'[b].step # "idle"
  /\ actor'[b].market = actor[b].market /\ actor'[b].key = actor[b].key
  /\ actor'[b].step \in Requesting => busy' = b
  /\ b \in Schedulers /\ actor'[b].step \in Requesting \cup {"requesting"} => actor'[b].row
  /\ actor[b].step = "recording" => actor'[b].step = "recording"

\* A scheduler's cycle begins with the head of its list, unless its batch has an order.
Opens(b) ==
  /\ b \in Schedulers /\ started /\ actor[b].step = "idle"
  /\ actor'[b].step \in {"refreshing", "persisting", "recording"}
  /\ b = "queue" => /\ queue # <<>> /\ actor'[b].market = queue[1].market /\ actor'[b].key = queue[1].key
                    /\ actor'[b].step = "recording" \/ lastKey # actor'[b].key
  /\ b = "startup" => toStart # <<>> /\ actor'[b].market = toStart[1]

Manually(b) == b = "operator" /\ actor'[b].step \in Requesting /\ busy' = b

Ends(b) == actor'[b].step = "idle"

Journey(b) == Stays(b) \/ Goes(b) \/ Opens(b) \/ Manually(b) \/ Ends(b)

CallerParts == actor' \in [Actors -> Caller] /\ busy' \in Actors \cup {"nobody"} /\ lastKey' \in Keys

FlagParts ==
  /\ running' \in [Market -> BOOLEAN]
  /\ refresh' \in [inFlight : BOOLEAN, fresh : BOOLEAN] /\ health' \in [at : 0 .. MaxTime, sound : BOOLEAN]

CallerStep == CallerParts /\ FlagParts /\ \A b \in Actors : Journey(b)

LEMMA CallerFacts ==
  ASSUME SchedulerInv
  PROVE  /\ actor \in [Actors -> Caller]
         /\ \A a \in Actors : /\ actor[a].market \in Market /\ actor[a].key \in Keys /\ actor[a].step \in Steps
                              /\ actor[a] \in Caller
                              /\ actor[a].step \in Requesting => busy = a
         /\ \A a \in Schedulers : actor[a].step \in Requesting \cup {"requesting"} => actor[a].row
         /\ busy \in Actors \cup {"nobody"} /\ lastKey \in Keys
         /\ running \in [Market -> BOOLEAN]
         /\ refresh \in [inFlight : BOOLEAN, fresh : BOOLEAN]
         /\ health \in [at : 0 .. MaxTime, sound : BOOLEAN]
         /\ Schedulers \subseteq Actors
<1>1. /\ actor \in [Actors -> Caller] /\ busy \in Actors \cup {"nobody"} /\ lastKey \in Keys
      /\ running \in [Market -> BOOLEAN] /\ refresh \in [inFlight : BOOLEAN, fresh : BOOLEAN]
      /\ health \in [at : 0 .. MaxTime, sound : BOOLEAN]
  BY DEF SchedulerInv, CallersTyped, FlagsTyped
<1>2. \A c \in Caller : c.market \in Market /\ c.key \in Keys /\ c.step \in Steps
  BY DEF Caller
<1>3. \A a \in Actors : actor[a] \in Caller
  BY <1>1
<1>4. \A a \in Actors : actor[a].step \in Requesting => busy = a
  BY DEF SchedulerInv, Requests, Requesting
<1>5. \A a \in Schedulers : actor[a].step \in Requesting \cup {"requesting"} => actor[a].row
  BY DEF SchedulerInv, Requests, Requesting
<1>6. QED
  BY <1>1, <1>2, <1>3, <1>4, <1>5, Zenon DEF Actors

\* Only the record of one caller changes, and whoever holds the controller keeps it.
LEMMA OneChanges ==
  ASSUME SchedulerInv, NEW a \in Actors, NEW c \in Caller, actor' = [actor EXCEPT ![a] = c],
         busy' \in Actors \cup {"nobody"}, lastKey' \in Keys,
         busy' = busy \/ busy = a \/ busy = "nobody",
         actor'[a] = c => Journey(a)
  PROVE  CallerParts /\ \A b \in Actors : Journey(b)
<1>1. actor' \in [Actors -> Caller] /\ actor'[a] = c /\ \A b \in Actors : b # a => actor'[b] = actor[b]
  BY CallerFacts
<1>2. ASSUME NEW b \in Actors, b # a PROVE Stays(b)
  <2>1. actor'[b] = actor[b]
    BY <1>1, <1>2
  <2>2. actor[b].step \in Requesting => busy = b
    BY CallerFacts
  <2>3. b # "nobody"
    BY DEF Actors, Schedulers
  <2>4. actor[b].step \in Requesting => busy' = b
    BY <1>2, <2>2, <2>3
  <2>5. QED
    BY <2>1, <2>4, Zenon DEF Stays
<1>3. QED
  BY <1>1, <1>2, Zenon DEF CallerParts, Journey

LEMMA BeginMoves ==
  ASSUME SchedulerAssumption, SchedulerInv, NEW a \in Schedulers, NEW m \in Market, NEW key \in Keys,
         BeginRun(a, m, key)
  PROVE  /\ \E c \in Caller : /\ actor' = [actor EXCEPT ![a] = c] /\ c.market = m /\ c.key = key
                              /\ c.step \in {"refreshing", "persisting", "recording"}
         /\ running' \in [Market -> BOOLEAN] /\ refresh' \in [inFlight : BOOLEAN, fresh : BOOLEAN]
<1>1. /\ running \in [Market -> BOOLEAN] /\ refresh \in [inFlight : BOOLEAN, fresh : BOOLEAN]
  BY CallerFacts
<1>2. CASE running[m]
  <2> DEFINE c == [Idle(m) EXCEPT !.step = "recording", !.key = key, !.result = "ALREADY_RUNNING"]
  <2>1. c \in Caller /\ c.market = m /\ c.key = key /\ c.step = "recording"
    BY DEF Idle, Caller, Steps, Keys, Results
  <2>2. actor' = [actor EXCEPT ![a] = c] /\ running' = running /\ refresh' = refresh
    BY <1>2 DEF BeginRun
  <2> HIDE DEF c
  <2>3. QED
    BY <1>1, <2>1, <2>2
<1>3. CASE ~running[m]
  <2> DEFINE c == [Idle(m) EXCEPT !.step = FirstStep(m), !.key = key]
  <2>1. c \in Caller /\ c.market = m /\ c.key = key /\ c.step \in {"refreshing", "persisting"}
    BY DEF Idle, Caller, Steps, Keys, Results, FirstStep
  <2>2. actor' = [actor EXCEPT ![a] = c] /\ running' = [running EXCEPT ![m] = TRUE]
    BY <1>3 DEF BeginRun
  <2>3. refresh' = [inFlight |-> TRUE, fresh |-> TRUE] \/ refresh' = refresh
    BY <1>3 DEF BeginRun
  <2>4. running' \in [Market -> BOOLEAN] /\ refresh' \in [inFlight : BOOLEAN, fresh : BOOLEAN]
    <3>1. running' = [running EXCEPT ![m] = TRUE]
      BY <2>2
    <3>2. running' \in [Market -> BOOLEAN]
      BY <1>1, <3>1
    <3>3. [inFlight |-> TRUE, fresh |-> TRUE] \in [inFlight : BOOLEAN, fresh : BOOLEAN]
      OBVIOUS
    <3>4. QED
      BY <1>1, <2>3, <3>2, <3>3, Zenon
  <2>5. c.step \in {"refreshing", "persisting", "recording"}
    BY <2>1
  <2> HIDE DEF c
  <2>6. QED
    BY <2>1, <2>2, <2>4, <2>5, Zenon
<1>4. QED
  BY <1>2, <1>3
LEMMA TakeQueuedMoves ==
  ASSUME SchedulerAssumption, SchedulerInv, TakeQueued
  PROVE  CallerStep
<1> DEFINE e == queue[1]
<1>1. e.market \in Market /\ e.key \in Keys /\ Head(queue) = e /\ queue # <<>>
  <2>1. queue \in Seq(Entry) /\ queue # <<>> /\ ListsTyped
    BY DEF TakeQueued, SchedulerInv, ListsTyped
  <2>2. 1 \in 1 .. Len(queue) /\ Head(queue) = queue[1]
    BY <2>1
  <2>3. QED
    BY <2>1, <2>2, EntryFacts DEF Keys
<1>2. /\ actor["queue"].step = "idle" /\ busy' = busy /\ lastKey' = lastKey /\ health' = health
      /\ busy' \in Actors \cup {"nobody"} /\ lastKey' \in Keys /\ health' \in [at : 0 .. MaxTime, sound : BOOLEAN]
  BY CallerFacts DEF TakeQueued
<1>3. "queue" \in Actors /\ "queue" \in Schedulers
  BY DEF Actors, Schedulers
<1>4. CASE ~started
  <2>1. actor' = actor /\ running' = running /\ refresh' = refresh
    BY <1>4 DEF TakeQueued, MayContinue
  <2>2. \A b \in Actors : Stays(b)
    BY <1>2, <2>1, CallerFacts, Zenon DEF Stays
  <2>3. CallerParts /\ FlagParts
    BY <1>2, <2>1, CallerFacts, Zenon DEF CallerParts, FlagParts
  <2>4. QED
    BY <2>2, <2>3, Zenon DEF CallerStep, Journey
<1>5. CASE started /\ AlreadyOrdered(e.key)
  <2> DEFINE c == [Idle(e.market) EXCEPT !.step = "recording", !.key = e.key, !.result = "SKIPPED"]
  <2>1. c \in Caller /\ c.market = e.market /\ c.key = e.key /\ c.step = "recording"
    BY <1>1 DEF Idle, Caller, Steps, Keys, Results
  <2>2. /\ actor' = [actor EXCEPT !["queue"] = c]
        /\ running' = [running EXCEPT ![e.market] = FALSE] /\ refresh' = refresh
    BY <1>1, <1>5 DEF TakeQueued, MayContinue
  <2>3. FlagParts
    BY <1>1, <1>2, <2>2, CallerFacts DEF FlagParts
  <2> HIDE DEF c
  <2>4. ASSUME actor'["queue"] = c PROVE Journey("queue")
    BY <1>1, <1>2, <1>3, <1>5, <2>1, <2>4 DEF Journey, Opens
  <2>5. CallerParts /\ \A b \in Actors : Journey(b)
    BY <1>2, <1>3, <2>1, <2>2, <2>4, OneChanges
  <2>6. QED
    BY <2>3, <2>5 DEF CallerStep
<1>6. CASE started /\ ~AlreadyOrdered(e.key)
  <2>1. BeginRun("queue", e.market, e.key)
    BY <1>1, <1>6 DEF TakeQueued, MayContinue
  <2>2. running' \in [Market -> BOOLEAN] /\ refresh' \in [inFlight : BOOLEAN, fresh : BOOLEAN]
    BY <1>1, <1>3, <2>1, BeginMoves
  <2>3. PICK c \in Caller : /\ actor' = [actor EXCEPT !["queue"] = c] /\ c.market = e.market /\ c.key = e.key
                            /\ c.step \in {"refreshing", "persisting", "recording"}
    BY <1>1, <1>3, <2>1, BeginMoves
  <2>4. FlagParts
    BY <1>2, <2>2 DEF FlagParts
  <2>5. ASSUME actor'["queue"] = c PROVE Journey("queue")
    BY <1>1, <1>2, <1>3, <1>6, <2>3, <2>5 DEF Journey, Opens, AlreadyOrdered
  <2>6. CallerParts /\ \A b \in Actors : Journey(b)
    BY <1>2, <1>3, <2>3, <2>5, OneChanges
  <2>7. QED
    BY <2>4, <2>6 DEF CallerStep
<1>7. QED
  BY <1>4, <1>5, <1>6

LEMMA StartupMoves ==
  ASSUME SchedulerAssumption, SchedulerInv, StartupCycle
  PROVE  CallerStep
<1> DEFINE m == toStart[1]
<1>1. m \in Market /\ NoKey \in Keys /\ Head(toStart) = m /\ toStart # <<>>
  <2>1. toStart \in Seq(Market) /\ toStart # <<>> /\ ListsTyped
    BY DEF StartupCycle, SchedulerInv, ListsTyped
  <2>2. 1 \in 1 .. Len(toStart) /\ Head(toStart) = toStart[1]
    BY <2>1
  <2>3. QED
    BY <2>1, <2>2, EntryFacts DEF Keys
<1>2. /\ actor["startup"].step = "idle" /\ busy' = busy /\ lastKey' = lastKey /\ health' = health
      /\ busy' \in Actors \cup {"nobody"} /\ lastKey' \in Keys /\ health' \in [at : 0 .. MaxTime, sound : BOOLEAN]
  BY CallerFacts DEF StartupCycle
<1>3. "startup" \in Actors /\ "startup" \in Schedulers /\ "startup" # "queue"
  BY DEF Actors, Schedulers
<1>4. CASE ~started
  <2>1. actor' = actor /\ running' = running /\ refresh' = refresh
    BY <1>4 DEF StartupCycle, MayContinue
  <2>2. \A b \in Actors : Stays(b)
    BY <1>2, <2>1, CallerFacts, Zenon DEF Stays
  <2>3. CallerParts /\ FlagParts
    BY <1>2, <2>1, CallerFacts, Zenon DEF CallerParts, FlagParts
  <2>4. QED
    BY <2>2, <2>3, Zenon DEF CallerStep, Journey
<1>5. CASE started
  <2>1. BeginRun("startup", m, NoKey)
    BY <1>1, <1>5 DEF StartupCycle, MayContinue
  <2>2. running' \in [Market -> BOOLEAN] /\ refresh' \in [inFlight : BOOLEAN, fresh : BOOLEAN]
    BY <1>1, <1>3, <2>1, BeginMoves
  <2>3. PICK c \in Caller : /\ actor' = [actor EXCEPT !["startup"] = c] /\ c.market = m
                            /\ c.step \in {"refreshing", "persisting", "recording"}
    BY <1>1, <1>3, <2>1, BeginMoves
  <2>4. FlagParts
    BY <1>2, <2>2 DEF FlagParts
  <2>5. ASSUME actor'["startup"] = c PROVE Journey("startup")
    BY <1>1, <1>2, <1>3, <1>5, <2>3, <2>5 DEF Journey, Opens
  <2>6. CallerParts /\ \A b \in Actors : Journey(b)
    BY <1>2, <1>3, <2>3, <2>5, OneChanges
  <2>7. QED
    BY <2>4, <2>6 DEF CallerStep
<1>6. QED
  BY <1>4, <1>5
\* A caller's record with another step and another result, row or freshness.
LEMMA StepRecord ==
  ASSUME NEW c \in Caller, NEW s \in Steps
  PROVE  /\ [c EXCEPT !.step = s] \in Caller
         /\ [c EXCEPT !.step = s].step = s
         /\ [c EXCEPT !.step = s].market = c.market
         /\ [c EXCEPT !.step = s].key = c.key
         /\ [c EXCEPT !.step = s].row = c.row
         /\ [c EXCEPT !.step = s].fresh = c.fresh
BY DEF Caller

LEMMA ResultRecord ==
  ASSUME NEW c \in Caller, NEW s \in Steps, NEW r \in Results
  PROVE  /\ [c EXCEPT !.step = s, !.result = r] \in Caller
         /\ [c EXCEPT !.step = s, !.result = r].step = s
         /\ [c EXCEPT !.step = s, !.result = r].market = c.market
         /\ [c EXCEPT !.step = s, !.result = r].key = c.key
BY DEF Caller

LEMMA FreshRecord ==
  ASSUME NEW c \in Caller, NEW s \in Steps, NEW f \in BOOLEAN
  PROVE  /\ [c EXCEPT !.step = s, !.fresh = f] \in Caller
         /\ [c EXCEPT !.step = s, !.fresh = f].step = s
         /\ [c EXCEPT !.step = s, !.fresh = f].market = c.market
         /\ [c EXCEPT !.step = s, !.fresh = f].key = c.key
         /\ [c EXCEPT !.step = s, !.fresh = f].row = c.row
         /\ [c EXCEPT !.step = s, !.fresh = f].fresh = f
BY DEF Caller

LEMMA StaleRecord ==
  ASSUME NEW c \in Caller
  PROVE  /\ [c EXCEPT !.fresh = FALSE] \in Caller
         /\ [c EXCEPT !.fresh = FALSE].step = c.step
         /\ [c EXCEPT !.fresh = FALSE].market = c.market
         /\ [c EXCEPT !.fresh = FALSE].key = c.key
         /\ [c EXCEPT !.fresh = FALSE].row = c.row
BY DEF Caller

\* Preflight, PersistStart and RequestRun, failed or passed.
LEMMA FailedMoves ==
  ASSUME SchedulerInv, NEW a \in Schedulers, NEW r \in Results, actor[a].step # "idle",
         actor' = [actor EXCEPT ![a] = [actor[a] EXCEPT !.step = "recording", !.result = r]],
         running' = [running EXCEPT ![actor[a].market] = FALSE],
         UNCHANGED <<busy, lastKey, refresh, health>>
  PROVE  CallerStep
<1> DEFINE c == [actor[a] EXCEPT !.step = "recording", !.result = r]
<1>1. a \in Actors /\ actor[a] \in Caller /\ "recording" \in Steps /\ actor[a].market \in Market
  BY CallerFacts DEF Steps
<1>2. c \in Caller /\ c.step = "recording" /\ c.market = actor[a].market /\ c.key = actor[a].key
  BY <1>1, ResultRecord
<1>3. actor' = [actor EXCEPT ![a] = c]
  OBVIOUS
<1>4. running' \in [Market -> BOOLEAN]
  BY <1>1, CallerFacts
<1>5. FlagParts
  BY <1>4, CallerFacts, Zenon DEF FlagParts
<1> HIDE DEF c
<1>6. ASSUME actor'[a] = c PROVE Journey(a)
  BY <1>2, <1>6 DEF Journey, Goes, Requesting
<1>7. CallerParts /\ \A b \in Actors : Journey(b)
  <2>1. busy' \in Actors \cup {"nobody"} /\ lastKey' \in Keys /\ busy' = busy
    BY CallerFacts
  <2>2. QED
    BY <1>1, <1>2, <1>3, <1>6, <2>1, OneChanges
<1>8. QED
  BY <1>5, <1>7 DEF CallerStep

LEMMA CheckMoves ==
  ASSUME SchedulerAssumption, SchedulerInv, NEW a \in Schedulers, NEW ok \in BOOLEAN,
         Preflight(a, ok) \/ PersistStart(a, ok)
  PROVE  CallerStep
<1>1. a \in Actors /\ actor[a] \in Caller /\ {"persisting", "requesting"} \subseteq Steps /\ "FAILED" \in Results
  BY CallerFacts DEF Steps, Results
<1>2. /\ busy' = busy /\ lastKey' = lastKey /\ refresh' = refresh /\ health' = health
      /\ actor[a].step \in {"preflight", "persisting"}
  BY DEF Preflight, PersistStart
<1>3. CASE Failed(a)
  BY <1>1, <1>2, <1>3, FailedMoves DEF Failed
<1>4. ASSUME NEW c \in Caller, actor' = [actor EXCEPT ![a] = c], running' = running,
             c.step = "persisting" \/ (c.step = "requesting" /\ c.row),
             c.market = actor[a].market, c.key = actor[a].key
      PROVE  CallerStep
  <2>1. FlagParts
    BY <1>2, <1>4, CallerFacts DEF FlagParts
  <2>2. ASSUME actor'[a] = c PROVE Journey(a)
    BY <1>2, <1>4, <2>2 DEF Journey, Goes, Requesting
  <2>3. busy' \in Actors \cup {"nobody"} /\ lastKey' \in Keys
    BY <1>2, CallerFacts
  <2>4. CallerParts /\ \A b \in Actors : Journey(b)
    BY <1>1, <1>2, <1>4, <2>2, <2>3, OneChanges
  <2>5. QED
    BY <2>1, <2>4 DEF CallerStep
<1>5. CASE Preflight(a, ok) /\ ok /\ HealthPasses
  <2> DEFINE c == [actor[a] EXCEPT !.step = "persisting"]
  <2>1. actor' = [actor EXCEPT ![a] = c] /\ running' = running
    BY <1>5 DEF Preflight
  <2>2. c \in Caller /\ c.step = "persisting" /\ c.market = actor[a].market /\ c.key = actor[a].key
    BY <1>1, StepRecord
  <2> HIDE DEF c
  <2>3. QED
    BY <1>4, <2>1, <2>2
<1>6. CASE PersistStart(a, ok) /\ ok
  <2> DEFINE c == [actor[a] EXCEPT !.step = "requesting", !.row = ok]
  <2>1. actor' = [actor EXCEPT ![a] = c] /\ running' = running
    BY <1>6 DEF PersistStart, StartPersisted
  <2>2. c \in Caller /\ c.step = "requesting" /\ c.market = actor[a].market /\ c.key = actor[a].key /\ c.row
    <3>1. "requesting" \in Steps
      BY <1>1
    <3>2. /\ c \in Caller /\ c.step = "requesting" /\ c.market = actor[a].market /\ c.key = actor[a].key
          /\ c.row = ok
      BY <1>1, <3>1 DEF Caller
    <3>3. QED
      BY <1>6, <3>2, Zenon
  <2> HIDE DEF c
  <2>3. QED
    BY <1>4, <2>1, <2>2
<1>7. QED
  BY <1>3, <1>5, <1>6, Zenon DEF Preflight, PersistStart, StartPersisted

LEMMA RequestMoves ==
  ASSUME SchedulerAssumption, SchedulerInv, NEW a \in Schedulers, RequestRun(a)
  PROVE  CallerStep
<1>1. a \in Actors /\ actor[a] \in Caller /\ Requesting \subseteq Steps /\ "ALREADY_RUNNING" \in Results
  BY CallerFacts DEF Steps, Results, Requesting
<1>2. lastKey' = lastKey /\ refresh' = refresh /\ health' = health /\ actor[a].step = "requesting" /\ actor[a].row
  BY CallerFacts DEF RequestRun
<1>3. CASE busy # "nobody"
  BY <1>1, <1>2, <1>3, FailedMoves DEF RequestRun, ControllerFree
<1>4. CASE busy = "nobody"
  <2> DEFINE s == IF actor[a].market \in Candidate THEN "preparing" ELSE "running"
             c == [actor[a] EXCEPT !.step = s]
  <2>1. actor' = [actor EXCEPT ![a] = c] /\ running' = running /\ busy' = a
    BY <1>4 DEF RequestRun, ControllerFree
  <2>2. s \in Requesting
    BY DEF Requesting
  <2> HIDE DEF s
  <2>3. c \in Caller /\ c.step = s /\ c.market = actor[a].market /\ c.key = actor[a].key /\ c.row = actor[a].row
    BY <1>1, <2>2, StepRecord
  <2> HIDE DEF c
  <2>4. FlagParts
    BY <1>2, <2>1, CallerFacts DEF FlagParts
  <2>5. ASSUME actor'[a] = c PROVE Journey(a)
    BY <1>2, <2>1, <2>2, <2>3, <2>5 DEF Journey, Goes, Requesting
  <2>6. CallerParts /\ \A b \in Actors : Journey(b)
    <3>1. busy' \in Actors \cup {"nobody"} /\ lastKey' \in Keys
      BY <1>1, <1>2, <2>1, CallerFacts
    <3>2. QED
      BY <1>1, <1>4, <2>1, <2>3, <2>5, <3>1, OneChanges
  <2>7. QED
    BY <2>4, <2>6 DEF CallerStep
<1>5. QED
  BY <1>3, <1>4

LEMMA ManualMoves ==
  ASSUME SchedulerAssumption, SchedulerInv, NEW m \in Market, RequestManualRun(m)
  PROVE  CallerStep
<1> DEFINE s == IF m \in Candidate THEN "preparing" ELSE "running"
           c == [Idle(m) EXCEPT !.step = s]
<1>1. /\ actor' = [actor EXCEPT !["operator"] = c] /\ running' = running /\ busy' = "operator" /\ busy = "nobody"
      /\ lastKey' = lastKey /\ refresh' = refresh /\ health' = health
  BY DEF RequestManualRun, ControllerFree
<1>2. s \in Requesting /\ s \in Steps /\ "operator" \in Actors
  BY DEF Requesting, Steps, Actors
<1> HIDE DEF s
<1>3. c \in Caller /\ c.step = s
  <2>1. Idle(m) \in Caller
    BY IdleType
  <2>2. QED
    BY <1>2, <2>1, StepRecord
<1> HIDE DEF c
<1>4. FlagParts
  BY <1>1, CallerFacts DEF FlagParts
<1>5. ASSUME actor'["operator"] = c PROVE Journey("operator")
  BY <1>1, <1>2, <1>3, <1>5 DEF Journey, Manually
<1>6. CallerParts /\ \A b \in Actors : Journey(b)
  <2>1. busy' \in Actors \cup {"nobody"} /\ lastKey' \in Keys
    BY <1>1, <1>2, CallerFacts
  <2>2. QED
    BY <1>1, <1>2, <1>3, <1>5, <2>1, OneChanges
<1>7. QED
  BY <1>4, <1>6 DEF CallerStep
\* The end of a request: the controller is free, the others may have lost their freshness.
LEMMA ReturnMoves ==
  ASSUME SchedulerAssumption, SchedulerInv, NEW a \in Actors, NEW r \in Results,
         actor[a].step \in Requesting, Return(a, r), lastKey' = lastKey
  PROVE  CallerParts /\ running' \in [Market -> BOOLEAN] /\ \A b \in Actors : Journey(b)
<1> DEFINE done == IF a \in Schedulers THEN [actor[a] EXCEPT !.step = "recording", !.result = r]
                   ELSE Idle(actor[a].market)
<1>1. actor[a] \in Caller /\ actor[a].market \in Market /\ "recording" \in Steps /\ busy = a /\ "nobody" \notin Actors
  BY CallerFacts DEF Steps, Actors, Schedulers
<1>2. /\ actor' = [b \in Actors |-> IF b = a THEN done
                                    ELSE IF r = "submitted" THEN [actor[b] EXCEPT !.fresh = FALSE] ELSE actor[b]]
      /\ busy' = "nobody"
  BY <1>1 DEF Return
<1>3. /\ done \in Caller
      /\ a \in Schedulers => done.step = "recording" /\ done.market = actor[a].market /\ done.key = actor[a].key
      /\ a \notin Schedulers => done.step = "idle"
  <2>1. CASE a \in Schedulers
    <3> DEFINE c == [actor[a] EXCEPT !.step = "recording", !.result = r]
    <3>1. c \in Caller /\ c.step = "recording" /\ c.market = actor[a].market /\ c.key = actor[a].key
      BY <1>1 DEF Caller
    <3>2. done = c
      BY <2>1
    <3> HIDE DEF c, done
    <3>3. QED
      BY <2>1, <3>1, <3>2
  <2>2. CASE a \notin Schedulers
    BY <1>1, <2>2, IdleType
  <2>3. QED
    BY <2>1, <2>2
<1> HIDE DEF done
<1>4. actor'[a] = done
  BY <1>2
<1>5. ASSUME NEW b \in Actors, b # a PROVE actor'[b] \in Caller /\ Stays(b)
  <2>1. actor'[b] = actor[b] \/ actor'[b] = [actor[b] EXCEPT !.fresh = FALSE]
    BY <1>2, <1>5
  <2>2. actor[b] \in Caller /\ actor[b].step \notin Requesting
    BY <1>1, <1>5, CallerFacts
  <2>3. /\ actor'[b] \in Caller
        /\ actor'[b].step = actor[b].step /\ actor'[b].market = actor[b].market
        /\ actor'[b].key = actor[b].key /\ actor'[b].row = actor[b].row
    BY <2>1, <2>2, StaleRecord, Zenon
  <2>4. QED
    BY <2>2, <2>3 DEF Stays
<1>6. Goes(a) \/ Ends(a)
  <2>1. CASE a \in Schedulers
    BY <1>3, <1>4, <2>1 DEF Goes, Requesting
  <2>2. CASE a \notin Schedulers
    BY <1>3, <1>4, <2>2 DEF Ends
  <2>3. QED
    BY <2>1, <2>2
<1>7. \A b \in Actors : actor'[b] \in Caller /\ Journey(b)
  BY <1>3, <1>4, <1>5, <1>6, Zenon DEF Journey
<1>8. actor' \in [Actors -> Caller]
  <2>1. actor' = [b \in Actors |-> actor'[b]]
    BY <1>2
  <2>2. QED
    BY <1>7, <2>1, Zenon
<1>9. CallerParts
  BY <1>2, <1>8, CallerFacts DEF CallerParts
<1>10. running' \in [Market -> BOOLEAN]
  BY <1>1, CallerFacts DEF Return
<1>11. QED
  BY <1>7, <1>9, <1>10

LEMMA PrepareMoves ==
  ASSUME SchedulerAssumption, SchedulerInv, NEW a \in Actors, NEW ready \in BOOLEAN, Prepare(a, ready)
  PROVE  CallerStep
<1>1. /\ actor[a].step = "preparing" /\ lastKey' = lastKey /\ refresh' = refresh
      /\ actor[a] \in Caller /\ "running" \in Steps /\ TRUE \in BOOLEAN /\ "FAILED" \in Results
      /\ actor[a].step \in Requesting
  BY CallerFacts DEF Prepare, Steps, Results, Requesting
<1>2. CASE ~ready
  <2>1. Return(a, "FAILED") /\ health' = health
    BY <1>2 DEF Prepare
  <2>2. CallerParts /\ running' \in [Market -> BOOLEAN] /\ \A b \in Actors : Journey(b)
    BY <1>1, <2>1, ReturnMoves
  <2>3. FlagParts
    BY <1>1, <2>1, <2>2, CallerFacts DEF FlagParts
  <2>4. QED
    BY <2>2, <2>3 DEF CallerStep
<1>3. CASE ready
  <2> DEFINE c == [actor[a] EXCEPT !.step = "running", !.fresh = TRUE]
  <2>1. /\ actor' = [actor EXCEPT ![a] = c] /\ running' = running /\ busy' = busy
        /\ health' = [at |-> now, sound |-> TRUE]
    BY <1>3 DEF Prepare
  <2>2. c \in Caller /\ c.step = "running" /\ c.market = actor[a].market /\ c.key = actor[a].key /\ c.row = actor[a].row
    BY <1>1, FreshRecord, Zenon
  <2>3. health' \in [at : 0 .. MaxTime, sound : BOOLEAN]
    <3>1. now \in 0 .. MaxTime
      BY DEF SchedulerInv, ClockTyped
    <3>2. QED
      BY <2>1, <3>1
  <2> HIDE DEF c
  <2>4. FlagParts
    BY <1>1, <2>1, <2>3, CallerFacts DEF FlagParts
  <2>5. ASSUME actor'[a] = c PROVE Journey(a)
    <3>1. busy = a /\ (a \in Schedulers => actor[a].row)
      BY <1>1, CallerFacts
    <3>2. QED
      BY <1>1, <2>1, <2>2, <2>5, <3>1, Zenon DEF Journey, Stays, Goes
  <2>6. CallerParts /\ \A b \in Actors : Journey(b)
    <3>1. busy' \in Actors \cup {"nobody"} /\ lastKey' \in Keys
      BY <1>1, <2>1, CallerFacts
    <3>2. QED
      BY <1>1, <2>1, <2>2, <2>5, <3>1, OneChanges
  <2>7. QED
    BY <2>4, <2>6 DEF CallerStep
<1>4. QED
  BY <1>2, <1>3

LEMMA RunnerMoves ==
  ASSUME SchedulerAssumption, SchedulerInv, NEW a \in Actors, NEW r \in {"submitted", "other", "FAILED"},
         RunnerEnds(a, r)
  PROVE  CallerStep
<1>1. actor[a].step \in Requesting /\ Return(a, r) /\ lastKey' = lastKey /\ r \in Results
  BY DEF RunnerEnds, Results, Requesting
<1>2. CallerParts /\ running' \in [Market -> BOOLEAN] /\ \A b \in Actors : Journey(b)
  BY <1>1, ReturnMoves
<1>3. refresh' \in [inFlight : BOOLEAN, fresh : BOOLEAN] /\ health' \in [at : 0 .. MaxTime, sound : BOOLEAN]
  BY CallerFacts DEF RunnerEnds
<1>4. QED
  BY <1>2, <1>3 DEF FlagParts, CallerStep

\* Recorded and Throws end the cycle.
LEMMA EndMoves ==
  ASSUME SchedulerAssumption, SchedulerInv, NEW a \in Actors,
         (Recorded(a) /\ a \in Schedulers) \/ Throws(a)
  PROVE  CallerStep
<1> DEFINE c == Idle(actor[a].market)
<1>1. c \in Caller /\ c.step = "idle" /\ actor[a].key \in Keys
  BY CallerFacts, IdleType
<1>2. /\ actor' = [actor EXCEPT ![a] = c] /\ running' = running /\ refresh' = refresh /\ health' = health
      /\ busy' = busy \/ busy = a
      /\ busy' \in Actors \cup {"nobody"}
      /\ lastKey' \in Keys
  <2>1. CASE Recorded(a)
    BY <2>1, <1>1, CallerFacts DEF Recorded
  <2>2. CASE Throws(a)
    BY <2>2, CallerFacts DEF Throws
  <2>3. QED
    BY <2>1, <2>2
<1> HIDE DEF c
<1>3. FlagParts
  BY <1>2, CallerFacts DEF FlagParts
<1>4. ASSUME actor'[a] = c PROVE Journey(a)
  BY <1>1, <1>4 DEF Journey, Ends
<1>5. CallerParts /\ \A b \in Actors : Journey(b)
  BY <1>1, <1>2, <1>4, OneChanges
<1>6. QED
  BY <1>3, <1>5 DEF CallerStep

LEMMA RefreshMoves ==
  ASSUME SchedulerAssumption, SchedulerInv, NEW ok \in BOOLEAN, NEW sound \in BOOLEAN, RefreshEnds(ok, sound)
  PROVE  CallerStep
<1>1. /\ busy' = busy /\ lastKey' = lastKey /\ refresh.fresh \in BOOLEAN
      /\ "preflight" \in Steps /\ "recording" \in Steps /\ "FAILED" \in Results
  BY CallerFacts DEF RefreshEnds, Steps, Results
<1>2. FlagParts
  <2>1. refresh' \in [inFlight : BOOLEAN, fresh : BOOLEAN]
    BY CallerFacts DEF RefreshEnds
  <2>2. health' \in [at : 0 .. MaxTime, sound : BOOLEAN]
    <3>1. now \in 0 .. MaxTime
      BY DEF SchedulerInv, ClockTyped
    <3>2. health' = [at |-> now, sound |-> sound] \/ health' = health
      BY DEF RefreshEnds
    <3>3. [at |-> now, sound |-> sound] \in [at : 0 .. MaxTime, sound : BOOLEAN]
      BY <3>1
    <3>4. QED
      BY <3>2, <3>3, CallerFacts, Zenon
  <2>3. running' \in [Market -> BOOLEAN]
    <3>1. running' = [m \in Market |-> IF ~ok /\ m \in {actor[a].market : a \in {x \in Schedulers : actor[x].step = "refreshing"}}
                                       THEN FALSE ELSE running[m]]
      BY Zenon DEF RefreshEnds
    <3>2. \A m \in Market : running[m] \in BOOLEAN
      BY CallerFacts
    <3>3. QED
      BY <3>1, <3>2, Zenon
  <2>4. QED
    BY <2>1, <2>2, <2>3, Zenon DEF FlagParts
<1>3. actor' = [a \in Actors |->
                  IF a \notin {x \in Schedulers : actor[x].step = "refreshing"} THEN actor[a]
                  ELSE IF ok THEN [actor[a] EXCEPT !.step = "preflight", !.fresh = refresh.fresh]
                  ELSE [actor[a] EXCEPT !.step = "recording", !.result = "FAILED"]]
  BY Zenon DEF RefreshEnds
<1>4. ASSUME NEW b \in Actors PROVE actor'[b] \in Caller /\ Journey(b)
  <2>1. actor[b] \in Caller /\ (actor[b].step \in Requesting => busy' = b)
    BY <1>1, CallerFacts
  <2>2. CASE actor'[b] = actor[b]
    BY <2>1, <2>2, Zenon DEF Journey, Stays
  <2>3. CASE actor'[b] # actor[b]
    <3>1. actor[b].step = "refreshing"
      BY <1>3, <2>3
    <3>2. actor'[b] \in Caller /\ actor'[b].step \in {"preflight", "recording"}
             /\ actor'[b].market = actor[b].market /\ actor'[b].key = actor[b].key
      <4>1. CASE ok
        <5>1. actor'[b] = [actor[b] EXCEPT !.step = "preflight", !.fresh = refresh.fresh]
          BY <1>3, <2>3, <4>1
        <5>2. actor'[b] \in Caller /\ actor'[b].step = "preflight"
              /\ actor'[b].market = actor[b].market /\ actor'[b].key = actor[b].key
          BY <1>1, <2>1, <5>1 DEF Caller
        <5>3. QED
          BY <5>2
      <4>2. CASE ~ok
        <5>1. actor'[b] = [actor[b] EXCEPT !.step = "recording", !.result = "FAILED"]
          BY <1>3, <2>3, <4>2
        <5>2. actor'[b] \in Caller /\ actor'[b].step = "recording"
              /\ actor'[b].market = actor[b].market /\ actor'[b].key = actor[b].key
          BY <1>1, <2>1, <5>1 DEF Caller
        <5>3. QED
          BY <5>2
      <4>3. QED
        BY <4>1, <4>2
    <3>3. QED
      BY <3>1, <3>2 DEF Journey, Goes, Requesting
  <2>4. QED
    BY <2>2, <2>3
<1>5. actor' \in [Actors -> Caller]
  <2>1. actor' = [b \in Actors |-> actor'[b]]
    BY <1>3
  <2>2. QED
    BY <1>4, <2>1, Zenon
<1>6. CallerParts
  BY <1>1, <1>5, CallerFacts DEF CallerParts
<1>7. QED
  BY <1>2, <1>4, <1>6, Zenon DEF CallerStep

\* Every step leaves each caller where it is, moves it on in its cycle, begins the
\* cycle at the head of a list, or ends it.
LEMMA CallerSteps ==
  ASSUME SchedulerAssumption, SchedulerInv, [Next]_vars
  PROVE  CallerStep
<1>1. ASSUME UNCHANGED <<actor, busy, lastKey, running, refresh, health>> PROVE CallerStep
  <2>1. \A b \in Actors : Stays(b)
    BY <1>1, CallerFacts, Zenon DEF Stays
  <2>2. CallerParts /\ FlagParts
    BY <1>1, CallerFacts, Zenon DEF CallerParts, FlagParts
  <2>3. QED
    BY <2>1, <2>2, Zenon DEF CallerStep, Journey
<1>2. ASSUME \/ Start \/ Stop \/ StopReturns \/ LoseOwnership \/ RunRefused \/ Tick \/ UNCHANGED vars
             \/ \E m \in Market : TimerFires(m)
      PROVE  UNCHANGED <<actor, busy, lastKey, running, refresh, health>>
  BY <1>2, Zenon DEF Start, Stop, StopReturns, LoseOwnership, RunRefused, Tick, vars, TimerFires
<1>3. Schedulers \subseteq Actors
  BY DEF Actors
<1>4. QED
  BY <1>1, <1>2, <1>3, TakeQueuedMoves, StartupMoves, CheckMoves, RequestMoves, ManualMoves, PrepareMoves,
     RunnerMoves, EndMoves, RefreshMoves, Zenon DEF Next, Cycle, Request
-----------------------------------------------------------------------------
(***************************************************************************)
(* Callers and lists together                                              *)
(***************************************************************************)

\* A list loses its head, and a batch gets its order, only when the cycle has ended.
ListStep ==
  /\ queue' = queue \/ (\E e : queue' = Append(queue, e)) \/ actor'["queue"].step = "idle"
  /\ toStart' = toStart \/ actor'["startup"].step = "idle"
  /\ lastKey' = lastKey \/ actor'["queue"].step = "idle"

\* What stopAndWait waits for is released only when it has ended.
StopStep ==
  \/ /\ quiesced' = "waiting" /\ ~started' /\ actor' = actor
     /\ \A a \in Schedulers : actor[a].step # "idle" => a \in waiting'
  \/ quiesced = "waiting" /\ waiting = {} /\ quiesced' = "yes" /\ started' = started /\ actor' = actor
  \/ /\ quiesced' = quiesced /\ (started' => started \/ quiesced = "no")
     /\ \A a \in Schedulers : a \in waiting => a \in waiting' \/ actor'[a].step = "idle"

\* The flags a step may set.
FlagStep ==
  /\ started' \in BOOLEAN /\ stopBegun' \in BOOLEAN /\ launched' \in BOOLEAN /\ held' \in BOOLEAN
  /\ quiesced' \in {"no", "waiting", "yes"} /\ waiting' \subseteq Schedulers /\ now' \in 0 .. MaxTime

LEMMA PlainSteps ==
  ASSUME SchedulerAssumption, SchedulerInv,
         \/ StopReturns \/ LoseOwnership \/ Tick \/ UNCHANGED vars
         \/ \E m \in Market : TimerFires(m) \/ RequestManualRun(m)
         \/ \E ok, sound \in BOOLEAN : RefreshEnds(ok, sound)
         \/ \E a \in Schedulers : RequestRun(a) \/ \E ok \in BOOLEAN : Preflight(a, ok) \/ PersistStart(a, ok)
         \/ \E a \in Actors : \/ \E ready \in BOOLEAN : Prepare(a, ready)
                              \/ \E r \in {"submitted", "other", "FAILED"} : RunnerEnds(a, r)
  PROVE  ListStep /\ StopStep /\ FlagStep
<1>1. /\ started \in BOOLEAN /\ stopBegun \in BOOLEAN /\ launched \in BOOLEAN /\ held \in BOOLEAN
      /\ quiesced \in {"no", "waiting", "yes"} /\ waiting \subseteq Schedulers /\ now \in 0 .. MaxTime
  BY DEF SchedulerInv, FlagsTyped, ClockTyped
<1>2. CASE StopReturns
  BY <1>1, <1>2, Zenon DEF StopReturns, ListStep, StopStep, FlagStep
<1>3. CASE LoseOwnership
  BY <1>1, <1>3, Zenon DEF LoseOwnership, ListStep, StopStep, FlagStep
<1>4. CASE Tick
  <2>1. now' \in 0 .. MaxTime
    BY <1>1, <1>4, ConstantFacts DEF Tick
  <2>2. QED
    BY <1>1, <1>4, <2>1, Zenon DEF Tick, ListStep, StopStep, FlagStep
<1>5. CASE UNCHANGED vars
  BY <1>1, <1>5, Zenon DEF vars, ListStep, StopStep, FlagStep
<1>6. ASSUME NEW m \in Market, TimerFires(m) PROVE ListStep /\ StopStep /\ FlagStep
  BY <1>1, <1>6, Zenon DEF TimerFires, ListStep, StopStep, FlagStep
<1>7. ASSUME UNCHANGED <<now, started, stopBegun, launched, quiesced, waiting, held, queue, toStart, lastKey>>
      PROVE  ListStep /\ StopStep /\ FlagStep
  BY <1>1, <1>7, Zenon DEF ListStep, StopStep, FlagStep
<1>8. QED
  BY <1>2, <1>3, <1>4, <1>5, <1>6, <1>7, Zenon DEF RequestManualRun, RefreshEnds, RequestRun, Preflight,
     PersistStart, Prepare, RunnerEnds

LEMMA ListSteps ==
  ASSUME SchedulerAssumption, SchedulerInv, [Next]_vars
  PROVE  ListStep /\ StopStep /\ FlagStep
<1>1. /\ started \in BOOLEAN /\ stopBegun \in BOOLEAN /\ launched \in BOOLEAN /\ held \in BOOLEAN
      /\ quiesced \in {"no", "waiting", "yes"} /\ waiting \subseteq Schedulers /\ now \in 0 .. MaxTime
      /\ actor \in [Actors -> Caller]
  BY CallerFacts DEF SchedulerInv, FlagsTyped, ClockTyped
<1>2. ASSUME Start PROVE ListStep /\ StopStep /\ FlagStep
  <2>1. toStart = <<>> /\ quiesced = "no"
    BY <1>2 DEF Start, SchedulerInv, NothingBeforeStart
  <2>2. actor["startup"].step = "idle"
    BY <2>1 DEF SchedulerInv, InHand
  <2>3. HealthPasses \in BOOLEAN
    BY CallerFacts DEF HealthPasses
  <2>4. QED
    BY <1>1, <1>2, <2>1, <2>2, <2>3, Zenon DEF Start, ListStep, StopStep, FlagStep
<1>3. ASSUME Stop PROVE ListStep /\ StopStep /\ FlagStep
  <2>1. waiting' \subseteq Schedulers /\ \A a \in Schedulers : actor[a].step # "idle" => a \in waiting'
    BY <1>3 DEF Stop, Schedulers
  <2>2. QED
    BY <1>1, <1>3, <2>1, Zenon DEF Stop, Stopping, ListStep, StopStep, FlagStep
<1>4. ASSUME TakeQueued PROVE ListStep /\ StopStep /\ FlagStep
  <2>1. /\ actor["queue"].step = "idle"
        /\ UNCHANGED <<now, started, stopBegun, launched, quiesced, held, toStart, lastKey>>
    BY <1>4, Zenon DEF TakeQueued
  <2>2. CASE ~started
    <3>1. actor' = actor /\ (waiting' = waiting \/ waiting' = waiting \ {"queue"})
      BY <1>4, <2>2, Zenon DEF TakeQueued, MayContinue
    <3>2. waiting' \subseteq Schedulers /\ \A a \in Schedulers : a \in waiting => a \in waiting' \/ actor'[a].step = "idle"
      BY <1>1, <2>1, <3>1
    <3>3. QED
      BY <1>1, <2>1, <3>1, <3>2, Zenon DEF ListStep, StopStep, FlagStep
  <2>3. CASE started
    <3>1. queue' = queue /\ waiting' = waiting
      BY <1>4, <2>3, Zenon DEF TakeQueued, MayContinue
    <3>2. QED
      BY <1>1, <2>1, <3>1, Zenon DEF ListStep, StopStep, FlagStep
  <2>4. QED
    BY <2>2, <2>3
<1>5. ASSUME StartupCycle PROVE ListStep /\ StopStep /\ FlagStep
  <2>1. /\ actor["startup"].step = "idle"
        /\ UNCHANGED <<now, started, stopBegun, launched, quiesced, waiting, held, queue, lastKey>>
    BY <1>5, Zenon DEF StartupCycle
  <2>2. toStart' = toStart \/ actor' = actor
    BY <1>5, Zenon DEF StartupCycle
  <2>3. QED
    BY <1>1, <2>1, <2>2, Zenon DEF ListStep, StopStep, FlagStep
<1>6. ASSUME NEW a \in Schedulers, Recorded(a) PROVE ListStep /\ StopStep /\ FlagStep
  <2>1. a \in Actors /\ actor[a].market \in Market
    BY CallerFacts
  <2>2. actor'[a].step = "idle"
    <3>1. actor' = [actor EXCEPT ![a] = Idle(actor[a].market)]
      BY <1>6, Zenon DEF Recorded
    <3>2. actor'[a] = Idle(actor[a].market)
      BY <1>1, <2>1, <3>1
    <3>3. QED
      BY <2>1, <3>2, IdleType
  <2>3. /\ UNCHANGED <<now, started, stopBegun, launched, quiesced, held>>
        /\ waiting' = waiting \/ waiting' = waiting \ {a}
    BY <1>6, Zenon DEF Recorded
  <2>4. waiting' \subseteq Schedulers /\ \A b \in Schedulers : b \in waiting => b \in waiting' \/ actor'[b].step = "idle"
    BY <1>1, <2>2, <2>3
  <2>5. ListStep
    <3>1. a \in {"startup", "queue"}
      BY DEF Schedulers
    <3>2. QED
      BY <1>6, <2>2, <3>1 DEF Recorded, ListStep
  <2>6. QED
    BY <1>1, <2>3, <2>4, <2>5, Zenon DEF StopStep, FlagStep
<1>7. ASSUME NEW a \in Actors, Throws(a) PROVE ListStep /\ StopStep /\ FlagStep
  <2>1. actor[a].market \in Market
    BY CallerFacts
  <2>2. actor'[a].step = "idle"
    <3>1. actor' = [actor EXCEPT ![a] = Idle(actor[a].market)]
      BY <1>7, Zenon DEF Throws
    <3>2. actor'[a] = Idle(actor[a].market)
      BY <1>1, <2>1, <3>1
    <3>3. QED
      BY <2>1, <3>2, IdleType
  <2>3. /\ UNCHANGED <<now, launched, quiesced, held, lastKey>>
        /\ waiting' = waiting \/ waiting' = waiting \ {a}
    BY <1>7, Zenon DEF Throws
  <2>4. waiting' \subseteq Schedulers /\ \A b \in Schedulers : b \in waiting => b \in waiting' \/ actor'[b].step = "idle"
    BY <1>1, <2>2, <2>3
  <2>5. ListStep
    BY <1>7, <2>2, <2>3 DEF Throws, ListStep
  <2>6. started' \in BOOLEAN /\ stopBegun' \in BOOLEAN /\ (started' => started)
    BY <1>1, <1>7, Zenon DEF Throws, Stopping
  <2>7. QED
    BY <1>1, <2>3, <2>4, <2>5, <2>6, Zenon DEF StopStep, FlagStep
<1>8. ASSUME RunRefused PROVE ListStep /\ StopStep /\ FlagStep
  <2>1. UNCHANGED <<now, launched, quiesced, held, actor, lastKey>> /\ started' = FALSE /\ stopBegun' = TRUE
    BY <1>8, Zenon DEF RunRefused, Stopping
  <2>2. /\ queue' = queue \/ actor["queue"].step = "idle"
        /\ toStart' = toStart \/ actor["startup"].step = "idle"
        /\ waiting' = waiting \/ (waiting' = waiting \ {"queue"} /\ actor["queue"].step = "idle")
    BY <1>8, Zenon DEF RunRefused
  <2>3. waiting' \subseteq Schedulers /\ \A b \in Schedulers : b \in waiting => b \in waiting' \/ actor'[b].step = "idle"
    BY <1>1, <2>1, <2>2
  <2>4. QED
    BY <1>1, <2>1, <2>2, <2>3, Zenon DEF ListStep, StopStep, FlagStep
<1>9. QED
  BY <1>2, <1>3, <1>4, <1>5, <1>6, <1>7, <1>8, PlainSteps, Zenon DEF Next, Cycle, Request

\* The head of the queue stays while its cycle is in progress.
LEMMA HeadStays ==
  ASSUME ListsTyped, ListStep, queue # <<>>, actor'["queue"].step # "idle"
  PROVE  queue' # <<>> /\ queue'[1] = queue[1]
<1>1. queue \in Seq(Entry)
  BY DEF ListsTyped
<1>2. CASE queue' = queue
  BY <1>2
<1>3. ASSUME NEW e, queue' = Append(queue, e) PROVE queue' # <<>> /\ queue'[1] = queue[1]
  BY <1>1, <1>3
<1>4. QED
  BY <1>2, <1>3 DEF ListStep

\* The cycle in progress is the one at the head, and its batch has no order yet.
LEMMA InHandKept ==
  ASSUME SchedulerAssumption, SchedulerInv, CallerStep, ListStep
  PROVE  InHand' /\ BatchOpen'
<1>1. "queue" \in Actors /\ "startup" \in Actors /\ ListsTyped
  BY DEF Actors, Schedulers, SchedulerInv
<1>2. Journey("queue") /\ Journey("startup")
  BY <1>1, Zenon DEF CallerStep
<1>3. ASSUME actor'["queue"].step # "idle"
      PROVE  /\ queue' # <<>> /\ actor'["queue"].market = queue'[1].market /\ actor'["queue"].key = queue'[1].key
             /\ actor'["queue"].step # "recording" => lastKey' # actor'["queue"].key
  <2>1. lastKey' = lastKey
    BY <1>3 DEF ListStep
  <2>2. ASSUME queue # <<>> PROVE queue' # <<>> /\ queue'[1] = queue[1]
    BY <1>1, <1>3, <2>2, HeadStays
  <2>3. CASE Stays("queue") \/ Goes("queue")
    <3>1. /\ actor["queue"].step # "idle" /\ actor'["queue"].market = actor["queue"].market
          /\ actor'["queue"].key = actor["queue"].key
          /\ actor'["queue"].step # "recording" => actor["queue"].step # "recording"
      BY <1>3, <2>3 DEF Stays, Goes
    <3>2. /\ queue # <<>> /\ actor["queue"].market = queue[1].market /\ actor["queue"].key = queue[1].key
          /\ actor["queue"].step # "recording" => lastKey # actor["queue"].key
      BY <3>1 DEF SchedulerInv, InHand, BatchOpen
    <3>3. QED
      BY <2>1, <2>2, <3>1, <3>2
  <2>4. CASE Opens("queue")
    BY <2>1, <2>2, <2>4 DEF Opens
  <2>5. QED
    BY <1>2, <1>3, <2>3, <2>4 DEF Journey, Manually, Ends
<1>4. ASSUME actor'["startup"].step # "idle" PROVE toStart' # <<>> /\ actor'["startup"].market = toStart'[1]
  <2>1. toStart' = toStart
    BY <1>4 DEF ListStep
  <2>2. CASE Stays("startup") \/ Goes("startup")
    <3>1. actor["startup"].step # "idle" /\ actor'["startup"].market = actor["startup"].market
      BY <1>4, <2>2 DEF Stays, Goes
    <3>2. QED
      BY <2>1, <3>1 DEF SchedulerInv, InHand
  <2>3. CASE Opens("startup")
    BY <2>1, <2>3 DEF Opens
  <2>4. QED
    BY <1>2, <1>4, <2>2, <2>3 DEF Journey, Manually, Ends
<1>5. QED
  BY <1>3, <1>4 DEF InHand, BatchOpen

LEMMA RequestsKept ==
  ASSUME SchedulerInv, CallerStep
  PROVE  Requests'
<1>1. ASSUME NEW a \in Actors
      PROVE  /\ actor'[a].step \in Requesting => busy' = a
             /\ a \in Schedulers /\ actor'[a].step \in Requesting \cup {"requesting"} => actor'[a].row
  <2>1. Journey(a)
    BY <1>1 DEF CallerStep
  <2>2. CASE Stays(a)
    BY <2>2, CallerFacts, Zenon DEF Stays
  <2>3. CASE Goes(a)
    BY <2>3, Zenon DEF Goes
  <2>4. CASE Opens(a)
    BY <2>4 DEF Opens, Requesting
  <2>5. CASE Manually(a)
    BY <2>5 DEF Manually, Schedulers
  <2>6. CASE Ends(a)
    BY <2>6 DEF Ends, Requesting
  <2>7. QED
    BY <2>1, <2>2, <2>3, <2>4, <2>5, <2>6, Zenon DEF Journey
<1>2. Schedulers \subseteq Actors
  BY DEF Actors
<1>3. QED
  BY <1>1, <1>2 DEF Requests, Requesting

LEMMA StopKept ==
  ASSUME SchedulerInv, CallerStep, StopStep
  PROVE  StopWaits'
<1>1. /\ quiesced # "no" => ~started
      /\ quiesced = "waiting" => \A a \in Schedulers : actor[a].step # "idle" => a \in waiting
      /\ quiesced = "yes" => \A a \in Schedulers : actor[a].step = "idle"
  BY DEF SchedulerInv, StopWaits, QuiescedMeansIdle
<1>2. ASSUME NEW a \in Schedulers, actor[a].step = "idle", actor'[a].step # "idle" PROVE started
  <2>1. Journey(a)
    BY DEF CallerStep, Actors
  <2>2. QED
    BY <1>2, <2>1 DEF Journey, Stays, Goes, Opens, Manually, Ends, Schedulers
<1>3. CASE /\ quiesced' = "waiting" /\ ~started' /\ actor' = actor
           /\ \A a \in Schedulers : actor[a].step # "idle" => a \in waiting'
  BY <1>3 DEF StopWaits, QuiescedMeansIdle
<1>4. CASE quiesced = "waiting" /\ waiting = {} /\ quiesced' = "yes" /\ started' = started /\ actor' = actor
  BY <1>1, <1>4 DEF StopWaits, QuiescedMeansIdle
<1>5. CASE /\ quiesced' = quiesced /\ (started' => started \/ quiesced = "no")
           /\ \A a \in Schedulers : a \in waiting => a \in waiting' \/ actor'[a].step = "idle"
  <2>1. quiesced' # "no" => ~started'
    BY <1>1, <1>5
  <2>2. ASSUME quiesced' = "waiting", NEW a \in Schedulers, actor'[a].step # "idle" PROVE a \in waiting'
    BY <1>1, <1>2, <1>5, <2>2
  <2>3. ASSUME quiesced' = "yes", NEW a \in Schedulers PROVE actor'[a].step = "idle"
    BY <1>1, <1>2, <1>5, <2>3
  <2>4. QED
    BY <2>1, <2>2, <2>3 DEF StopWaits, QuiescedMeansIdle
<1>6. QED
  BY <1>3, <1>4, <1>5 DEF StopStep
-----------------------------------------------------------------------------
(***************************************************************************)
(* The invariant                                                           *)
(***************************************************************************)

LEMMA SchedulerInit ==
  ASSUME SchedulerAssumption, Init
  PROVE  SchedulerInv
<1>1. ClockTyped /\ FlagsTyped
  <2>1. now \in 0 .. MaxTime /\ due \in [Market -> 0 .. NoTimer]
    BY ConstantFacts DEF Init
  <2>2. health \in [at : 0 .. MaxTime, sound : BOOLEAN] /\ health.at \in 0 .. MaxTime
    BY ConstantFacts DEF Init
  <2>3. running \in [Market -> BOOLEAN] /\ refresh \in [inFlight : BOOLEAN, fresh : BOOLEAN]
    BY DEF Init
  <2>4. QED
    BY <2>1, <2>2, <2>3 DEF Init, ClockTyped, FlagsTyped
<1>2. ListsTyped /\ CallersTyped
  <2>1. Idle(Markets[1]) \in Caller
    BY ConstantFacts, IdleType
  <2>2. actor \in [Actors -> Caller]
    BY <2>1, Zenon DEF Init
  <2>3. QED
    BY <2>2 DEF Init, ListsTyped, CallersTyped, Keys
<1>3. \A a \in Actors : actor[a].step = "idle"
  <2>1. \A a \in Actors : actor[a] = Idle(Markets[1])
    BY DEF Init
  <2>2. QED
    BY <2>1, ConstantFacts, IdleType
<1>4. OnePlace /\ NothingBeforeStart /\ NoMarketForgotten
  BY DEF Init, OnePlace, NothingBeforeStart, NoMarketForgotten
<1>5. InHand /\ Requests /\ StopWaits /\ BatchOpen
  <2>1. \A a \in Schedulers : actor[a].step = "idle"
    BY <1>3 DEF Actors
  <2>2. actor["queue"].step = "idle" /\ actor["startup"].step = "idle" /\ quiesced = "no"
    BY <2>1 DEF Schedulers, Init
  <2>3. QED
    BY <1>3, <2>1, <2>2 DEF InHand, Requests, StopWaits, QuiescedMeansIdle, BatchOpen
<1>6. QED
  BY <1>1, <1>2, <1>4, <1>5 DEF SchedulerInv

LEMMA SchedulerStep ==
  ASSUME SchedulerAssumption, SchedulerInv, [Next]_vars
  PROVE  SchedulerInv'
<1>1. /\ ClockTyped /\ FlagsTyped /\ ListsTyped /\ OnePlace /\ NothingBeforeStart /\ NoMarketForgotten
  BY DEF SchedulerInv
<1>2. PlaceStep /\ CallerStep /\ ListStep /\ StopStep /\ FlagStep
  BY PlaceSteps, CallerSteps, ListSteps
<1>3. ListsTyped' /\ due' \in [Market -> 0 .. NoTimer] /\ OnePlace'
  BY <1>1, <1>2, PlacesKept
<1>4. NoMarketForgotten'
  BY <1>1, <1>2, MarketsKept
<1>5. NothingBeforeStart'
  BY StartKept
<1>6. InHand' /\ BatchOpen' /\ Requests' /\ StopWaits'
  BY <1>2, InHandKept, RequestsKept, StopKept
<1>7. CallersTyped'
  BY <1>2 DEF CallerStep, CallerParts, CallersTyped
<1>8. ClockTyped' /\ FlagsTyped'
  <2>1. /\ running' \in [Market -> BOOLEAN] /\ refresh' \in [inFlight : BOOLEAN, fresh : BOOLEAN]
        /\ health' \in [at : 0 .. MaxTime, sound : BOOLEAN]
    BY <1>2 DEF CallerStep, FlagParts
  <2>2. health'.at \in 0 .. MaxTime
    BY <2>1
  <2>3. QED
    BY <1>2, <1>3, <2>1, <2>2, Zenon DEF FlagStep, ClockTyped, FlagsTyped
<1>9. QED
  BY <1>3, <1>4, <1>5, <1>6, <1>7, <1>8 DEF SchedulerInv

\* A list of markets without repetition is no longer than the set of markets.
LEMMA ListBound ==
  ASSUME SchedulerAssumption, NEW n \in Nat, NEW f \in [1 .. n -> Market],
         \A i, j \in 1 .. n : f[i] = f[j] => i = j
  PROVE  n <= Cardinality(Market)
<1>1. IsFiniteSet(1 .. n) /\ Cardinality(1 .. n) = n
  BY FS_Interval
<1>2. IsFiniteSet(Market)
  <2> DEFINE k == Len(Markets)
  <2>1. k \in Nat /\ Markets \in [1 .. k -> Market] /\ \A m \in Market : \E i \in 1 .. k : Markets[i] = m
    BY ConstantFacts DEF Market
  <2>2. Markets \in Surjection(1 .. k, Market)
    BY <2>1 DEF Surjection
  <2>3. IsFiniteSet(1 .. k)
    BY <2>1, FS_Interval
  <2> HIDE DEF k
  <2>4. QED
    BY <2>2, <2>3, FS_Surjection
<1>3. Cardinality(Market) \in Nat
  BY <1>2, FS_CardinalityType
<1>4. ASSUME Cardinality(Market) < n PROVE FALSE
  BY <1>1, <1>2, <1>4, FS_PigeonHole
<1>5. QED
  BY <1>3, <1>4

\* What the scheduler's run checks, from the invariant.
LEMMA SchedulerConsequences ==
  ASSUME SchedulerAssumption, SchedulerInv
  PROVE  TypeOK /\ OneStrategyRun /\ NoMarketForgotten /\ RunHasHistory /\ QuiescedMeansIdle
<1>1. OneStrategyRun /\ RunHasHistory
  <2>1. \A a \in Actors : actor[a].step \in {"preparing", "running"} => busy = a
    BY DEF SchedulerInv, Requests
  <2>2. \A a \in Schedulers : actor[a].step \in {"preparing", "running"} => actor[a].row
    BY DEF SchedulerInv, Requests
  <2>3. QED
    BY <2>1, <2>2, Zenon DEF OneStrategyRun, RunHasHistory
<1>2. NoMarketForgotten /\ QuiescedMeansIdle
  BY DEF SchedulerInv, StopWaits
<1>3. ListsTyped /\ OnePlace /\ queue \in Seq(Entry) /\ toStart \in Seq(Market)
  BY DEF SchedulerInv, ListsTyped
<1>4. \A i \in 1 .. Len(queue) : queue[i] \in [market : Market, key : 0 .. MaxKey]
  <2>1. \A i \in 1 .. Len(queue) : queue[i] \in Entry
    BY <1>3
  <2>2. QED
    BY <2>1, Zenon DEF Entry
<1>5. Len(queue) <= Cardinality(Market)
  <2> DEFINE f == [i \in 1 .. Len(queue) |-> queue[i].market]
  <2>1. \A i \in 1 .. Len(queue) : queue[i].market \in Market
    BY <1>3, EntryFacts
  <2>2. f \in [1 .. Len(queue) -> Market] /\ \A i \in 1 .. Len(queue) : f[i] = queue[i].market
    BY <2>1
  <2>3. \A i, j \in 1 .. Len(queue) : queue[i].market = queue[j].market => i = j
    BY <1>3 DEF OnePlace
  <2>4. Len(queue) \in Nat
    BY <1>3
  <2> HIDE DEF f
  <2>5. \A i, j \in 1 .. Len(queue) : f[i] = f[j] => i = j
    BY <2>2, <2>3
  <2>6. QED
    BY <2>2, <2>4, <2>5, ListBound
<1>6. Len(toStart) <= Cardinality(Market)
  <2>1. Len(toStart) \in Nat /\ toStart \in [1 .. Len(toStart) -> Market]
    BY <1>3
  <2>2. \A i, j \in 1 .. Len(toStart) : toStart[i] = toStart[j] => i = j
    BY <1>3 DEF OnePlace
  <2>3. QED
    BY <2>1, <2>2, ListBound
<1>7. TypeOK
  <2>1. /\ now \in 0 .. MaxTime /\ due \in [Market -> 0 .. NoTimer]
        /\ {started, stopBegun, launched, held} \subseteq BOOLEAN
        /\ quiesced \in {"no", "waiting", "yes"} /\ waiting \subseteq Schedulers
        /\ running \in [Market -> BOOLEAN] /\ refresh \in [inFlight : BOOLEAN, fresh : BOOLEAN]
        /\ health \in [at : 0 .. MaxTime, sound : BOOLEAN]
    BY Zenon DEF SchedulerInv, ClockTyped, FlagsTyped
  <2>2. /\ actor \in [Actors -> [step : {"idle", "refreshing", "preflight", "persisting", "requesting",
                                         "preparing", "running", "recording"},
                                 market : Market, key : 0 .. MaxKey \cup {NoKey},
                                 fresh : BOOLEAN, row : BOOLEAN, result : Results]]
        /\ busy \in Actors \cup {"nobody"} /\ lastKey \in 0 .. MaxKey \cup {NoKey}
    BY Zenon DEF SchedulerInv, CallersTyped, Caller, Steps, Keys
  <2>3. QED
    BY <1>4, <1>5, <1>6, <2>1, <2>2, Zenon DEF TypeOK
<1>8. QED
  BY <1>1, <1>2, <1>7

LEMMA BatchConsequence ==
  ASSUME SchedulerInv
  PROVE  BatchOrdersOnce
BY DEF SchedulerInv, BatchOpen, BatchOrdersOnce

-----------------------------------------------------------------------------
(***************************************************************************)
(* Timers only                                                             *)
(***************************************************************************)

QuietCaller(c) ==
  /\ c.step \in {"preflight", "running"} => c.fresh
  /\ c.step = "preparing" => c.market \in Candidate
  /\ c.step \in {"persisting", "requesting"} => c.fresh \/ c.market \in Candidate

LEMMA QuietFacts ==
  ASSUME SchedulerInv, Quiet
  PROVE  /\ QuietCaller(actor["queue"]) /\ actor["startup"].step = "idle" /\ actor["operator"].step = "idle"
         /\ toStart = <<>>
         /\ refresh.inFlight /\ held => actor["queue"].step = "refreshing" /\ refresh.fresh
         /\ actor["queue"] \in Caller /\ actor \in [Actors -> Caller] /\ "queue" \in Actors
         /\ refresh \in [inFlight : BOOLEAN, fresh : BOOLEAN]
         /\ \A a \in Actors : actor[a].step # "idle" => a = "queue"
<1>1. actor["startup"].step = "idle" /\ actor["operator"].step = "idle" /\ toStart = <<>>
  BY DEF SchedulerInv, InHand, Quiet
<1>2. \A a \in Actors : actor[a].step # "idle" => a = "queue"
  BY <1>1 DEF Actors, Schedulers
<1>3. QuietCaller(actor["queue"])
  BY Zenon DEF Quiet, QuietCaller
<1>4. actor \in [Actors -> Caller] /\ "queue" \in Actors /\ refresh \in [inFlight : BOOLEAN, fresh : BOOLEAN]
  BY CallerFacts DEF Actors, Schedulers
<1>5. actor["queue"] \in Caller
  BY <1>4
<1>6. QED
  BY <1>1, <1>2, <1>3, <1>4, <1>5, Zenon DEF Quiet

\* The queue's caller moves on; nobody else stirs, and no refresh is left in flight.
LEMMA QuietMove ==
  ASSUME SchedulerInv, Quiet, NEW c, actor' = [actor EXCEPT !["queue"] = c], QuietCaller(c), toStart' = toStart,
         refresh'.inFlight /\ held' => c.step = "refreshing" /\ refresh'.fresh
  PROVE  Quiet'
<1>1. actor'["queue"] = c /\ actor'["operator"].step = "idle"
  BY QuietFacts DEF Actors, Schedulers
<1>2. QED
  BY <1>1, QuietFacts, Zenon DEF Quiet, QuietCaller

LEMMA QuietInit ==
  ASSUME SchedulerAssumption, Init
  PROVE  Quiet
<1>1. actor["queue"] = Idle(Markets[1]) /\ actor["operator"] = Idle(Markets[1])
  BY DEF Init, Actors, Schedulers
<1>2. actor["queue"].step = "idle" /\ actor["operator"].step = "idle"
  BY <1>1, ConstantFacts, IdleType
<1>3. toStart = <<>> /\ refresh.inFlight = FALSE
  BY DEF Init
<1>4. QED
  BY <1>2, <1>3 DEF Quiet

LEMMA QuietRuns ==
  ASSUME SchedulerInv, Quiet
  PROVE  RefreshedSinceOrder
<1>1. ASSUME NEW a \in Schedulers, actor[a].step = "running" PROVE actor[a].fresh
  <2>1. a = "queue"
    BY <1>1, QuietFacts DEF Actors
  <2>2. QED
    BY <1>1, <2>1 DEF Quiet
<1>2. QED
  BY <1>1, Zenon DEF RefreshedSinceOrder

LEMMA QuietKept ==
  ASSUME SchedulerAssumption, ~RunOnStart, ~Manual, SchedulerInv, Quiet, [Next]_vars
  PROVE  Quiet'
<1>0. Quiet /\ "queue" \in Actors /\ "queue" \in Schedulers
  BY DEF Actors, Schedulers
<1>1. ASSUME actor' = actor, refresh' = refresh, toStart' = <<>>, held' => held PROVE Quiet'
  BY <1>1, Zenon DEF Quiet
<1>2. ASSUME \/ Start \/ Stop \/ StopReturns \/ LoseOwnership \/ RunRefused \/ Tick \/ UNCHANGED vars
             \/ \E m \in Market : TimerFires(m)
      PROVE  Quiet'
  <2>1. actor' = actor /\ refresh' = refresh /\ (held' => held) /\ toStart' = <<>>
    <3>1. toStart = <<>>
      BY DEF Quiet
    <3>2. CASE Start
      BY <3>2 DEF Start
    <3>3. CASE RunRefused
      BY <3>1, <3>3, Zenon DEF RunRefused
    <3>4. CASE LoseOwnership
      BY <3>1, <3>4 DEF LoseOwnership
    <3>5. CASE Stop \/ StopReturns \/ Tick \/ UNCHANGED vars \/ \E m \in Market : TimerFires(m)
      <4>1. actor' = actor /\ refresh' = refresh /\ held' = held /\ toStart' = toStart
        BY <3>5, Zenon DEF Stop, StopReturns, Tick, vars, TimerFires
      <4>2. QED
        BY <3>1, <4>1
    <3>6. QED
      BY <1>2, <3>2, <3>3, <3>4, <3>5, Zenon
  <2>2. QED
    BY <1>1, <2>1
<1>3. ASSUME TakeQueued PROVE Quiet'
  <2> DEFINE e == Head(queue)
  <2>1. toStart' = toStart /\ actor["queue"].step = "idle" /\ held' = held /\ held /\ ~refresh.inFlight
    BY <1>3, QuietFacts DEF TakeQueued
  <2>2. CASE ~started
    <3>1. actor' = actor /\ refresh' = refresh
      BY <1>3, <2>2, Zenon DEF TakeQueued, MayContinue
    <3>2. QED
      BY <1>1, <2>1, <3>1, QuietFacts
  <2>3. CASE started /\ AlreadyOrdered(e.key)
    <3> DEFINE c == [Idle(e.market) EXCEPT !.step = "recording", !.key = e.key, !.result = "SKIPPED"]
    <3>1. actor' = [actor EXCEPT !["queue"] = c] /\ refresh' = refresh
      BY <1>3, <2>3 DEF TakeQueued, MayContinue
    <3>2. QuietCaller(c)
      BY DEF Idle, QuietCaller
    <3> HIDE DEF c
    <3>3. QED
      BY <2>1, <3>1, <3>2, QuietMove
  <2>4. CASE started /\ ~AlreadyOrdered(e.key)
    <3>1. BeginRun("queue", e.market, e.key)
      BY <1>3, <2>4 DEF TakeQueued, MayContinue
    <3>2. CASE running[e.market]
      <4> DEFINE c == [Idle(e.market) EXCEPT !.step = "recording", !.key = e.key, !.result = "ALREADY_RUNNING"]
      <4>1. actor' = [actor EXCEPT !["queue"] = c] /\ refresh' = refresh
        BY <3>1, <3>2 DEF BeginRun
      <4>2. QuietCaller(c)
        BY DEF Idle, QuietCaller
      <4> HIDE DEF c
      <4>3. QED
        BY <2>1, <4>1, <4>2, QuietMove
    <3>3. CASE ~running[e.market]
      <4> DEFINE c == [Idle(e.market) EXCEPT !.step = FirstStep(e.market), !.key = e.key]
      <4>1. actor' = [actor EXCEPT !["queue"] = c]
        BY <3>1, <3>3 DEF BeginRun
      <4>2. refresh' = IF FirstStep(e.market) = "refreshing" THEN [inFlight |-> TRUE, fresh |-> TRUE] ELSE refresh
        BY <2>1, <3>1, <3>3 DEF BeginRun
      <4>3. c.step = FirstStep(e.market) /\ c.market = e.market
        BY DEF Idle
      <4> HIDE DEF c
      <4>4. QuietCaller(c)
        BY <4>3 DEF FirstStep, QuietCaller
      <4>5. refresh'.inFlight => c.step = "refreshing" /\ refresh'.fresh
        BY <2>1, <4>2, <4>3
      <4>6. QED
        BY <2>1, <4>1, <4>4, <4>5, QuietMove
    <3>4. QED
      BY <3>2, <3>3
  <2>5. QED
    BY <2>2, <2>3, <2>4
<1>4. ASSUME StartupCycle PROVE Quiet'
  BY <1>4, QuietFacts DEF StartupCycle
<1>5. ASSUME NEW m \in Market, RequestManualRun(m) PROVE Quiet'
  BY <1>5 DEF RequestManualRun
<1>6. ASSUME NEW ok \in BOOLEAN, NEW sound \in BOOLEAN, RefreshEnds(ok, sound) PROVE Quiet'
  <2>1. /\ actor["queue"].step = "refreshing" /\ refresh.fresh /\ toStart' = toStart
        /\ actor["operator"].step = "idle" /\ toStart = <<>> /\ "operator" \in Actors /\ "operator" \notin Schedulers
    BY <1>6, QuietFacts DEF RefreshEnds, Actors, Schedulers
  <2>2. ~refresh'.inFlight
    BY <1>6, QuietFacts DEF RefreshEnds
  <2>3. actor' = [a \in Actors |->
                    IF a \notin {x \in Schedulers : actor[x].step = "refreshing"} THEN actor[a]
                    ELSE IF ok THEN [actor[a] EXCEPT !.step = "preflight", !.fresh = refresh.fresh]
                    ELSE [actor[a] EXCEPT !.step = "recording", !.result = "FAILED"]]
    BY <1>6, Zenon DEF RefreshEnds
  <2>4. actor'["operator"] = actor["operator"]
    BY <2>1, <2>3
  <2>5. QuietCaller(actor'["queue"])
    <3>1. CASE ok
      <4>1. actor'["queue"] = [actor["queue"] EXCEPT !.step = "preflight", !.fresh = refresh.fresh]
        BY <1>0, <2>1, <2>3, <3>1
      <4>2. actor'["queue"].step = "preflight" /\ actor'["queue"].fresh = refresh.fresh
        BY <4>1, QuietFacts DEF Caller
      <4>3. QED
        BY <2>1, <4>2 DEF QuietCaller
    <3>2. CASE ~ok
      <4>1. actor'["queue"] = [actor["queue"] EXCEPT !.step = "recording", !.result = "FAILED"]
        BY <1>0, <2>1, <2>3, <3>2
      <4>2. actor'["queue"].step = "recording"
        BY <4>1, QuietFacts DEF Caller
      <4>3. QED
        BY <4>2 DEF QuietCaller
    <3>3. QED
      BY <3>1, <3>2
  <2>6. QED
    BY <2>1, <2>2, <2>4, <2>5, Zenon DEF Quiet, QuietCaller
<1>7. ASSUME NEW c, actor' = [actor EXCEPT !["queue"] = c], QuietCaller(c), toStart' = toStart,
             refresh' = refresh \/ ~refresh'.inFlight, held' = held, actor["queue"].step # "refreshing"
      PROVE  Quiet'
  <2>1. refresh'.inFlight => ~held'
    BY <1>7, QuietFacts
  <2>2. QED
    BY <1>7, <2>1, QuietMove
<1>8. ASSUME NEW a \in Schedulers, NEW ok \in BOOLEAN, Preflight(a, ok) \/ PersistStart(a, ok) PROVE Quiet'
  <2>1. /\ a = "queue" /\ toStart' = toStart /\ refresh' = refresh /\ held' = held
        /\ actor["queue"].step \in {"preflight", "persisting"}
    BY <1>8, QuietFacts DEF Preflight, PersistStart, Actors
  <2>2. CASE Failed("queue")
    <3> DEFINE c == [actor["queue"] EXCEPT !.step = "recording", !.result = "FAILED"]
    <3>1. actor' = [actor EXCEPT !["queue"] = c]
      BY <2>2 DEF Failed
    <3>2. c.step = "recording"
      BY QuietFacts DEF Caller
    <3> HIDE DEF c
    <3>3. QuietCaller(c)
      BY <3>2 DEF QuietCaller
    <3>4. QED
      BY <1>7, <2>1, <3>1, <3>3
  <2>3. CASE Preflight(a, ok) /\ ~Failed("queue")
    <3> DEFINE c == [actor["queue"] EXCEPT !.step = "persisting"]
    <3>1. actor' = [actor EXCEPT !["queue"] = c] /\ actor["queue"].step = "preflight"
      BY <2>1, <2>3 DEF Preflight
    <3>2. c.step = "persisting" /\ c.fresh = actor["queue"].fresh
      BY QuietFacts DEF Caller
    <3> HIDE DEF c
    <3>3. QuietCaller(c)
      BY <3>1, <3>2, QuietFacts DEF QuietCaller
    <3>4. QED
      BY <1>7, <2>1, <3>1, <3>3
  <2>4. CASE PersistStart(a, ok) /\ ~Failed("queue")
    <3> DEFINE c == [actor["queue"] EXCEPT !.step = "requesting", !.row = ok]
    <3>1. actor' = [actor EXCEPT !["queue"] = c] /\ actor["queue"].step = "persisting"
      BY <2>1, <2>4 DEF PersistStart
    <3>2. c.step = "requesting" /\ c.fresh = actor["queue"].fresh /\ c.market = actor["queue"].market
      BY QuietFacts DEF Caller
    <3> HIDE DEF c
    <3>3. QuietCaller(c)
      BY <3>1, <3>2, QuietFacts DEF QuietCaller
    <3>4. QED
      BY <1>7, <2>1, <3>1, <3>3
  <2>5. QED
    BY <1>8, <2>2, <2>3, <2>4
<1>9. ASSUME NEW a \in Schedulers, RequestRun(a) PROVE Quiet'
  <2>1. /\ a = "queue" /\ toStart' = toStart /\ refresh' = refresh /\ held' = held
        /\ actor["queue"].step = "requesting"
    BY <1>9, QuietFacts DEF RequestRun, Actors
  <2>2. CASE busy # "nobody"
    <3> DEFINE c == [actor["queue"] EXCEPT !.step = "recording", !.result = "ALREADY_RUNNING"]
    <3>1. actor' = [actor EXCEPT !["queue"] = c]
      BY <1>9, <2>1, <2>2 DEF RequestRun, ControllerFree
    <3>2. c.step = "recording"
      BY QuietFacts DEF Caller
    <3> HIDE DEF c
    <3>3. QuietCaller(c)
      BY <3>2 DEF QuietCaller
    <3>4. QED
      BY <1>7, <2>1, <3>1, <3>3
  <2>3. CASE busy = "nobody"
    <3> DEFINE s == IF actor["queue"].market \in Candidate THEN "preparing" ELSE "running"
               c == [actor["queue"] EXCEPT !.step = s]
    <3>1. actor' = [actor EXCEPT !["queue"] = c]
      BY <1>9, <2>1, <2>3 DEF RequestRun, ControllerFree
    <3>2. c.step = s /\ c.fresh = actor["queue"].fresh /\ c.market = actor["queue"].market
      BY QuietFacts DEF Caller
    <3> HIDE DEF c
    <3>3. QuietCaller(c)
      BY <2>1, <3>2, QuietFacts DEF QuietCaller
    <3>4. QED
      BY <1>7, <2>1, <3>1, <3>3
  <2>4. QED
    BY <2>2, <2>3
<1>10. ASSUME NEW a \in Schedulers, Recorded(a) PROVE Quiet'
  <2>1. /\ a = "queue" /\ toStart' = toStart /\ refresh' = refresh /\ held' = held
        /\ actor["queue"].step = "recording"
    BY <1>10, QuietFacts DEF Recorded, Actors
  <2> DEFINE c == Idle(actor["queue"].market)
  <2>2. actor' = [actor EXCEPT !["queue"] = c]
    BY <1>10, <2>1 DEF Recorded
  <2>3. QuietCaller(c)
    BY DEF Idle, QuietCaller
  <2> HIDE DEF c
  <2>4. QED
    BY <1>7, <2>1, <2>2, <2>3
<1>11. ASSUME NEW a \in Actors, NEW r, Return(a, r), actor[a].step \in Requesting, toStart' = toStart,
              refresh' = refresh \/ ~refresh'.inFlight, held' = held
       PROVE  Quiet'
  <2>1. a = "queue" /\ a \in Schedulers /\ actor["queue"].step # "refreshing"
    BY <1>0, <1>11, QuietFacts DEF Requesting
  <2>2. /\ actor'["queue"] = [actor["queue"] EXCEPT !.step = "recording", !.result = r]
        /\ actor'["operator"] = actor["operator"] \/ actor'["operator"] = [actor["operator"] EXCEPT !.fresh = FALSE]
    BY <1>11, <2>1 DEF Return, Actors, Schedulers
  <2>3. actor'["queue"].step = "recording"
    BY <2>2, QuietFacts DEF Caller
  <2>4. actor'["operator"].step = "idle"
    <3>1. actor["operator"] \in Caller /\ actor["operator"].step = "idle"
      BY QuietFacts DEF Actors
    <3>2. QED
      BY <2>2, <3>1 DEF Caller
  <2>5. refresh'.inFlight => ~held'
    BY <1>11, <2>1, QuietFacts
  <2>6. QED
    BY <1>11, <2>3, <2>4, <2>5, QuietFacts DEF Quiet
<1>12. ASSUME NEW a \in Actors, NEW ready \in BOOLEAN, Prepare(a, ready) PROVE Quiet'
  <2>1. toStart' = toStart /\ refresh' = refresh /\ held' = held /\ actor[a].step = "preparing" /\ a = "queue"
    BY <1>12, QuietFacts DEF Prepare
  <2>2. CASE ~ready
    BY <1>11, <1>12, <2>1, <2>2 DEF Prepare, Requesting
  <2>3. CASE ready
    <3> DEFINE c == [actor["queue"] EXCEPT !.step = "running", !.fresh = TRUE]
    <3>1. actor' = [actor EXCEPT !["queue"] = c]
      BY <1>12, <2>1, <2>3 DEF Prepare
    <3>2. c.step = "running" /\ c.fresh
      BY QuietFacts DEF Caller
    <3> HIDE DEF c
    <3>3. QuietCaller(c)
      BY <3>2 DEF QuietCaller
    <3>4. QED
      BY <1>7, <2>1, <3>1, <3>3
  <2>4. QED
    BY <2>2, <2>3
<1>13. ASSUME NEW a \in Actors, NEW r \in {"submitted", "other", "FAILED"}, RunnerEnds(a, r) PROVE Quiet'
  <2>1. toStart' = toStart /\ held' = held /\ held /\ actor[a].step = "running" /\ a = "queue" /\ Return(a, r)
    BY <1>13, QuietFacts DEF RunnerEnds
  <2>2. ~refresh.inFlight
    BY <2>1, QuietFacts
  <2>3. refresh' = refresh \/ ~refresh'.inFlight
    BY <1>13, <2>2, QuietFacts DEF RunnerEnds
  <2>4. QED
    BY <1>11, <2>1, <2>3 DEF Requesting
<1>14. ASSUME NEW a \in Actors, Throws(a) PROVE Quiet'
  <2>1. /\ a = "queue" /\ toStart' = toStart /\ refresh' = refresh /\ ~held'
    BY <1>14, QuietFacts DEF Throws
  <2> DEFINE c == Idle(actor["queue"].market)
  <2>2. actor' = [actor EXCEPT !["queue"] = c]
    BY <1>14, <2>1 DEF Throws
  <2>3. QuietCaller(c)
    BY DEF Idle, QuietCaller
  <2> HIDE DEF c
  <2>4. QED
    BY <2>1, <2>2, <2>3, QuietMove
<1>15. QED
  BY <1>2, <1>3, <1>4, <1>5, <1>6, <1>8, <1>9, <1>10, <1>12, <1>13, <1>14, Zenon DEF Next, Cycle, Request

-----------------------------------------------------------------------------
(***************************************************************************)
(* Theorems                                                                *)
(***************************************************************************)

\* Every reachable state of the scheduler, with its queue, its startup loop and the
\* operator's runs, satisfies the inductive invariant.
THEOREM SchedulerInvariant ==
  ASSUME SchedulerAssumption
  PROVE  Spec => []SchedulerInv
<1>1. Init => SchedulerInv
  BY SchedulerInit
<1>2. SchedulerInv /\ [Next]_vars => SchedulerInv'
  BY SchedulerStep
<1>3. QED
  BY <1>1, <1>2, PTL DEF Spec

\* The scheduler's state keeps its type; neither the queue nor the startup list ever
\* holds more entries than there are markets.
THEOREM SchedulerTypeOK ==
  ASSUME SchedulerAssumption
  PROVE  Spec => []TypeOK
<1>1. SchedulerInv => TypeOK
  BY SchedulerConsequences
<1>2. QED
  BY <1>1, SchedulerInvariant, PTL

\* The queue, the startup loop and /run never have two strategy runs in progress.
THEOREM AtMostOneStrategyRun ==
  ASSUME SchedulerAssumption
  PROVE  Spec => []OneStrategyRun
<1>1. SchedulerInv => OneStrategyRun
  BY SchedulerConsequences
<1>2. QED
  BY <1>1, SchedulerInvariant, PTL

\* While the scheduler runs and the ownership is held, no market is dropped, whatever
\* cycles fail, are skipped or are refused.
THEOREM NoMarketIsForgotten ==
  ASSUME SchedulerAssumption
  PROVE  Spec => []NoMarketForgotten
<1>1. SchedulerInv => NoMarketForgotten
  BY SchedulerConsequences
<1>2. QED
  BY <1>1, SchedulerInvariant, PTL

\* Every strategy run the scheduler requested has its history row.
THEOREM RunsHaveHistory ==
  ASSUME SchedulerAssumption
  PROVE  Spec => []RunHasHistory
<1>1. SchedulerInv => RunHasHistory
  BY SchedulerConsequences
<1>2. QED
  BY <1>1, SchedulerInvariant, PTL

\* When stopAndWait returns with quiesced, no cycle of the scheduler is in progress,
\* and none begins afterwards.
THEOREM QuiescedIsIdle ==
  ASSUME SchedulerAssumption
  PROVE  Spec => []QuiescedMeansIdle
<1>1. SchedulerInv => QuiescedMeansIdle
  BY SchedulerConsequences
<1>2. QED
  BY <1>1, SchedulerInvariant, PTL

\* A cycle of the queue submits an order only in a batch whose order is not recorded.
THEOREM OneOrderPerBatch ==
  ASSUME SchedulerAssumption
  PROVE  Spec => [][BatchOrdersOnce]_vars
<1>1. SchedulerInv => BatchOrdersOnce
  BY BatchConsequence
<1>2. QED
  BY <1>1, SchedulerInvariant, PTL DEF Spec

\* With timers only (no startup cycle and no /run) no strategy run decides on an account
\* refresh older than the last order.
THEOREM TimersRefreshSinceOrder ==
  ASSUME SchedulerAssumption, ~RunOnStart, ~Manual
  PROVE  Spec => []RefreshedSinceOrder
<1>1. Init => SchedulerInv /\ Quiet
  BY SchedulerInit, QuietInit
<1>2. (SchedulerInv /\ Quiet) /\ [Next]_vars => (SchedulerInv /\ Quiet)'
  BY SchedulerStep, QuietKept
<1>3. SchedulerInv /\ Quiet => RefreshedSinceOrder
  BY QuietRuns
<1>4. QED
  BY <1>1, <1>2, <1>3, PTL DEF Spec

=============================================================================
