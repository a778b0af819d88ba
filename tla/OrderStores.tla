----------------------------- MODULE OrderStores -----------------------------
(***************************************************************************)
(* The two implementations of the execution repository, side by side: the  *)
(* one in memory that the tests run on (lists) and the one in SQLite that  *)
(* the program runs on (tables with keys, one transaction per call). Every *)
(* call is made to both; what they answer and what they then hold is       *)
(* compared. A call may be repeated, changed and repeated, or be built on  *)
(* a row read long before.                                                 *)
(***************************************************************************)
EXTENDS Integers, Sequences, FiniteSets, SequencesExt

CONSTANTS Identities,  \* [id, identifier, key] of the orders callers create
          Fills,       \* [id, order, trade, price]: what the exchange may report
          MaxCalls,    \* bound: new calls
          Limit        \* of the bounded lists

StoresAssumption ==
  /\ Fills \subseteq [id : STRING, order : {i.id : i \in Identities}, trade : STRING, price : Nat]
  /\ MaxCalls \in Nat /\ Limit \in Nat \ {0}

VARIABLES
  mem,    \* the lists: [orders, events, fills, risks, observations]
  db,     \* the tables, the same fields as sets of rows
  calls,  \* the calls made; any may be repeated
  seen,   \* every version of an order a caller has read
  clock,  \* new calls so far: the time of the next one
  last    \* what both answered to the last call

vars == <<mem, db, calls, seen, clock, last>>

Active == {"PERSISTED", "SUBMITTING", "OPEN", "PARTIALLY_FILLED", "RECONCILIATION_REQUIRED"}
Statuses == Active \cup {"FILLED", "REJECTED", "CANCELED", "FAILED"}

\* An order row; its event, its risk event and its recovery observation.
Order(i, status, at) == [id |-> i.id, identifier |-> i.identifier, key |-> i.key, status |-> status, at |-> at]
Event(order, type, source, n, at) == [id |-> <<at, n>>, order |-> order, type |-> type, source |-> source, at |-> at]
Risk(order, rule, at) == [id |-> at, order |-> order, rule |-> rule, at |-> at]

Empty(none) == [orders |-> none, events |-> none, fills |-> none, risks |-> none, observations |-> none]

Init ==
  /\ mem = Empty(<<>>) /\ db = Empty({})
  /\ calls = {} /\ seen = {} /\ clock = 0
  /\ last = [mem |-> "none", db |-> "none"]

-----------------------------------------------------------------------------
(***************************************************************************)
(* Validation shared by both (atomic-lifecycle-validation.ts)              *)
(***************************************************************************)

EventOf(c, type, source) == c.events[1].order = c.order.id /\ c.events[1].type = type /\ c.events[1].source = source

\* validateOrderIdentity
SameIdentity(old, new) == old.id = new.id /\ old.identifier = new.identifier /\ old.key = new.key

ValidIntent(c) == c.order.status = "PERSISTED" /\ EventOf(c, "ORDER_PERSISTED", "LOCAL")

DistinctFills(c) ==
  \A f, g \in c.fills : f # g => f.id # g.id /\ <<f.order, f.trade>> # <<g.order, g.trade>>

ValidSubmission(c) ==
  /\ c.order.status \in {"OPEN", "PARTIALLY_FILLED", "FILLED", "REJECTED"}
  /\ (c.fills = {}) = (c.order.status \in {"OPEN", "REJECTED"})
  /\ EventOf(c, IF c.order.status = "REJECTED" THEN "ORDER_REJECTED" ELSE "ORDER_SUBMITTED", "EXCHANGE")
  /\ (Len(c.events) = 2) = (c.order.status = "FILLED")
  /\ DistinctFills(c) /\ \A f \in c.fills : f.order = c.order.id

ValidUncertain(c) ==
  /\ c.order.status = "RECONCILIATION_REQUIRED"
  /\ EventOf(c, "RECONCILIATION_RECOVERY_REQUIRED", "EXCHANGE")
  /\ \A r \in c.risks : r.order = c.order.id /\ r.rule = "UNCERTAIN"

ValidSnapshot(c) ==
  /\ SameIdentity(c.expected, c.order)
  /\ (c.expected # c.order) = (c.events # <<>>)
  /\ c.events # <<>> => EventOf(c, "RECONCILIATION_STATUS_UPDATED", "RECONCILIATION")
  /\ DistinctFills(c) /\ \A f \in c.fills : f.order = c.order.id

ValidRecovery(c) ==
  /\ SameIdentity(c.expected, c.order) /\ c.order.status = "RECONCILIATION_REQUIRED"
  /\ EventOf(c, "RECONCILIATION_RECOVERY_REQUIRED", "RECONCILIATION")
  /\ \A r \in c.risks : r.order = c.order.id /\ r.rule = "RECOVERY"

\* The completions answer "apply", "retry" or "error", from the children of the order.
OfType(events, types) == {e \in events : e.type \in types}

SubmissionCompletion(current, c, events, fills) ==
  LET submitted == OfType(events, {"ORDER_SUBMITTED", "ORDER_REJECTED"})
      terminal == OfType(events, {"ORDER_FILLED"})
  IN CASE ~SameIdentity(current, c.order) -> "error"
       [] SameIdentity(current, c.order) /\ current.status \in {"PERSISTED", "SUBMITTING"} ->
            IF submitted = {} /\ terminal = {} /\ fills = {} THEN "apply" ELSE "error"
       [] OTHER ->
            IF /\ current = c.order /\ submitted = {c.events[1]} /\ fills = c.fills
               /\ terminal = {c.events[n] : n \in 2 .. Len(c.events)}
            THEN "retry" ELSE "error"

UncertainCompletion(current, c, events, risks) ==
  LET recovery == OfType(events, {"RECONCILIATION_RECOVERY_REQUIRED"})
      uncertain == {r \in risks : r.rule = "UNCERTAIN"}
  IN CASE ~SameIdentity(current, c.order) -> "error"
       [] SameIdentity(current, c.order) /\ current.status \in {"PERSISTED", "SUBMITTING"} ->
            IF recovery = {} /\ uncertain = {} THEN "apply" ELSE "error"
       [] OTHER -> IF current = c.order /\ recovery = {c.events[1]} /\ uncertain = c.risks THEN "retry" ELSE "error"

RecoveryCompletion(current, c, events, risks) ==
  LET recovery == OfType(events, {"RECONCILIATION_RECOVERY_REQUIRED"})
      required == {r \in risks : r.rule = "RECOVERY"}
  IN IF current # c.order THEN IF recovery = {} /\ required = {} THEN "apply" ELSE "error"
     ELSE IF recovery = {c.events[1]} /\ required = c.risks THEN "retry" ELSE "error"

\* resolveImmutableFillReplay: existing has at most one element.
FillReplay(existing, f) ==
  IF existing = {} THEN "insert"
  ELSE LET e == CHOOSE e \in existing : TRUE
       IN IF <<e.order, e.trade>> = <<f.order, f.trade>> /\ [e EXCEPT !.id = f.id] = f
          THEN "preserve" ELSE "error"

\* The row is what the caller read, whatever it is now.
WrongUnmoved(order, c) == TRUE

\* The row is still the one the caller read.
Unmoved(order, c) == order = {c.expected}

\* classifySubmissionBlockingOrder, over what the rows here tell apart.
Blocking(order, events, observations) ==
  \/ order.status \in Active
  \/ /\ order.status \in {"REJECTED", "FAILED"}
     /\ \/ "FOUND" \in {o.outcome : o \in observations}
        \/ OfType(events, {"ORDER_SUBMITTED", "RECONCILIATION_RECOVERY_REQUIRED"}) # {}

-----------------------------------------------------------------------------
(***************************************************************************)
(* In memory: lists. find answers the first match, as a set of at most one *)
(***************************************************************************)

Find(list, Test(_)) ==
  LET found == SelectSeq(list, Test) IN IF found = <<>> THEN {} ELSE {Head(found)}

MemById(list, id) == Find(list, LAMBDA x : x.id = id)
MemOf(list, order) == ToSet(SelectSeq(list, LAMBDA x : x.order = order))
MemPut(list, row) == [n \in DOMAIN list |-> IF list[n].id = row.id THEN row ELSE list[n]]

Answer(store, answer) == [store |-> store, answer |-> answer]
Refuse(store) == Answer(store, "error")

\* findStoredFill: more than one match is a conflict.
MemFill(m, f) ==
  LET matches == SelectSeq(m.fills, LAMBDA x : x.id = f.id \/ (x.order = f.order /\ x.trade = f.trade))
  IN [conflict |-> Len(matches) > 1, existing |-> IF matches = <<>> THEN {} ELSE {Head(matches)}]

\* assertNoConflictingRecord, over the events and the risk events of a call
MemConflict(m, c) ==
  \/ \E n \in DOMAIN c.events : ~(MemById(m.events, c.events[n].id) \subseteq {c.events[n]})
  \/ \E r \in c.risks : ~(MemById(m.risks, r.id) \subseteq {r})

MemWith(m, c, order, fills) ==
  [m EXCEPT !.orders = MemPut(@, order), !.events = @ \o c.events,
            !.fills = @ \o SetToSeq(fills), !.risks = @ \o SetToSeq(c.risks)]

MemIntent(m, c) ==
  LET order == MemById(m.orders, c.order.id)
      event == MemById(m.events, c.events[1].id)
  IN CASE ~ValidIntent(c) -> Refuse(m)
       [] ValidIntent(c) /\ order # {} ->
            IF order = {c.order} /\ event = {c.events[1]} THEN Answer(m, "done") ELSE Refuse(m)
       [] ValidIntent(c) /\ order = {} ->
            IF event # {} \/ \E o \in ToSet(m.orders) : o.identifier = c.order.identifier \/ o.key = c.order.key
            THEN Refuse(m)
            ELSE Answer([m EXCEPT !.orders = Append(@, c.order), !.events = Append(@, c.events[1])], "done")

MemSubmission(m, c) ==
  LET order == MemById(m.orders, c.order.id)
      completion == SubmissionCompletion(CHOOSE o \in order : TRUE, c, MemOf(m.events, c.order.id), MemOf(m.fills, c.order.id))
  IN IF \/ ~ValidSubmission(c) \/ order = {} \/ MemConflict(m, c)
        \/ \E f \in c.fills : MemFill(m, f).conflict \/ ~(MemFill(m, f).existing \subseteq {f})
     THEN Refuse(m)
     ELSE CASE completion = "apply" -> Answer(MemWith(m, c, c.order, c.fills), "done")
            [] completion = "retry" -> Answer(m, "done")
            [] completion = "error" -> Refuse(m)

MemUncertain(m, c) ==
  LET order == MemById(m.orders, c.order.id)
      completion == UncertainCompletion(CHOOSE o \in order : TRUE, c, MemOf(m.events, c.order.id), MemOf(m.risks, c.order.id))
  IN IF ~ValidUncertain(c) \/ order = {} \/ MemConflict(m, c) THEN Refuse(m)
     ELSE CASE completion = "apply" -> Answer(MemWith(m, c, c.order, {}), "done")
            [] completion = "retry" -> Answer(m, "done")
            [] completion = "error" -> Refuse(m)

MemSnapshot(m, c) ==
  LET order == MemById(m.orders, c.order.id)
      replay == [f \in c.fills |-> IF MemFill(m, f).conflict THEN "error" ELSE FillReplay(MemFill(m, f).existing, f)]
      inserted == {f \in c.fills : replay[f] = "insert"}
      new == SelectSeq(c.events, LAMBDA e : MemById(m.events, e.id) = {})
  IN CASE ~ValidSnapshot(c) \/ order = {} -> Refuse(m)
       [] ValidSnapshot(c) /\ order # {} /\ ~Unmoved(order, c) -> Answer(m, "conflict")
       [] OTHER ->
            IF MemConflict(m, c) \/ \E f \in c.fills : replay[f] = "error" THEN Refuse(m)
            ELSE Answer(MemWith(m, [c EXCEPT !.events = new], c.order, inserted),
                        IF c.expected # c.order \/ new # <<>> \/ inserted # {} THEN "applied" ELSE "duplicate")

MemRecovery(m, c) ==
  LET order == MemById(m.orders, c.order.id)
      completion == RecoveryCompletion(CHOOSE o \in order : TRUE, c, MemOf(m.events, c.order.id), MemOf(m.risks, c.order.id))
  IN CASE ~ValidRecovery(c) \/ order = {} -> Refuse(m)
       [] ValidRecovery(c) /\ order # {} /\ ~Unmoved(order, c) -> Answer(m, "conflict")
       [] OTHER -> IF MemConflict(m, c) THEN Refuse(m)
                   ELSE CASE completion = "apply" -> Answer(MemWith(m, c, c.order, {}), "applied")
                          [] completion = "retry" -> Answer(m, "duplicate")
                          [] completion = "error" -> Refuse(m)

\* updateOrder: the first row with the id, or a new one.
MemUpdate(m, c) ==
  Answer([m EXCEPT !.orders = IF MemById(@, c.order.id) = {} THEN Append(@, c.order) ELSE MemPut(@, c.order)], "done")

MemSaveFill(m, c) ==
  LET f == CHOOSE f \in c.fills : TRUE
      replay == IF MemFill(m, f).conflict THEN "error" ELSE FillReplay(MemFill(m, f).existing, f)
  IN CASE MemById(m.orders, f.order) = {} \/ replay = "error" -> Refuse(m)
       [] OTHER -> Answer(IF replay = "insert" THEN [m EXCEPT !.fills = Append(@, f)] ELSE m, "done")

MemAppendEvent(m, c) == Answer([m EXCEPT !.events = Append(@, c.events[1])], "done")

MemObserve(m, c) ==
  LET o == CHOOSE o \in c.observations : TRUE
      existing == MemById(m.observations, o.id)
  IN CASE existing = {} -> Answer([m EXCEPT !.observations = Append(@, o)], "done")
       [] OTHER -> IF existing = {o} THEN Answer(m, "done") ELSE Refuse(m)

-----------------------------------------------------------------------------
(***************************************************************************)
(* In SQLite: tables with keys. A failed statement rolls the call back     *)
(***************************************************************************)

DbById(table, id) == {x \in table : x.id = id}
DbOf(table, order) == {x \in table : x.order = order}

\* upsertOrder: UNIQUE identifier and (account, idempotency key); "error" aborts the transaction.
UpsertOrder(orders, row) ==
  LET others == {o \in orders : o.id # row.id}
  IN [ok |-> \A o \in others : o.identifier # row.identifier /\ o.key # row.key, orders |-> others \cup {row}]

\* INSERTs of rows with a primary key; fills also have UNIQUE (order, trade).
KeysFree(table, rows) == \A r \in rows : DbById(table, r.id) = {}
FillsFree(table, rows) == KeysFree(table, rows) /\ \A r \in rows : ~\E x \in table : x.order = r.order /\ x.trade = r.trade

\* The writes of a call, in one transaction.
Commit(d, c, events, fills, answer) ==
  LET upsert == UpsertOrder(d.orders, c.order)
  IN IF upsert.ok /\ KeysFree(d.events, events) /\ FillsFree(d.fills, fills)
     THEN Answer([d EXCEPT !.orders = upsert.orders, !.events = @ \cup events, !.fills = @ \cup fills,
                           !.risks = {r \in @ : \A n \in c.risks : n.id # r.id} \cup c.risks], answer)
     ELSE Refuse(d)

\* getFillByIdentity
DbFill(d, f) ==
  LET matches == {x \in d.fills : x.id = f.id \/ (x.order = f.order /\ x.trade = f.trade)}
  IN [conflict |-> Cardinality(matches) > 1, existing |-> matches]

DbConflict(d, c) ==
  \/ \E n \in DOMAIN c.events : ~(DbById(d.events, c.events[n].id) \subseteq {c.events[n]})
  \/ \E r \in c.risks : ~(DbById(d.risks, r.id) \subseteq {r})

\* A new order is written before the event is validated, in the same transaction.
DbIntent(d, c) ==
  LET order == DbById(d.orders, c.order.id)
      event == DbById(d.events, c.events[1].id)
  IN CASE order # {} -> IF ValidIntent(c) /\ order = {c.order} /\ event = {c.events[1]} THEN Answer(d, "done") ELSE Refuse(d)
       [] order = {} /\ event # {} -> Refuse(d)
       [] order = {} /\ event = {} -> IF ValidIntent(c) THEN Commit(d, c, {c.events[1]}, {}, "done") ELSE Refuse(d)

DbSubmission(d, c) ==
  LET order == DbById(d.orders, c.order.id)
      completion == SubmissionCompletion(CHOOSE o \in order : TRUE, c, DbOf(d.events, c.order.id), DbOf(d.fills, c.order.id))
  IN IF \/ ~ValidSubmission(c) \/ order = {} \/ DbConflict(d, c)
        \/ \E f \in c.fills : DbFill(d, f).conflict \/ ~(DbFill(d, f).existing \subseteq {f})
     THEN Refuse(d)
     ELSE CASE completion = "apply" -> Commit(d, c, ToSet(c.events), c.fills, "done")
            [] completion = "retry" -> Answer(d, "done")
            [] completion = "error" -> Refuse(d)

DbUncertain(d, c) ==
  LET order == DbById(d.orders, c.order.id)
      completion == UncertainCompletion(CHOOSE o \in order : TRUE, c, DbOf(d.events, c.order.id), DbOf(d.risks, c.order.id))
  IN IF ~ValidUncertain(c) \/ order = {} \/ DbConflict(d, c) THEN Refuse(d)
     ELSE CASE completion = "apply" -> Commit(d, c, ToSet(c.events), {}, "done")
            [] completion = "retry" -> Answer(d, "done")
            [] completion = "error" -> Refuse(d)

\* Every fill of the call is inserted.
WrongDbSnapshot(d, c) ==
  LET order == DbById(d.orders, c.order.id)
  IN CASE ~ValidSnapshot(c) \/ order = {} -> Refuse(d)
       [] ValidSnapshot(c) /\ order # {} /\ ~Unmoved(order, c) -> Answer(d, "conflict")
       [] OTHER -> Commit(d, c, ToSet(c.events), c.fills,
                          IF c.events # <<>> \/ c.fills # {} THEN "applied" ELSE "duplicate")

DbSnapshot(d, c) ==
  LET order == DbById(d.orders, c.order.id)
      replay == [f \in c.fills |-> IF DbFill(d, f).conflict THEN "error" ELSE FillReplay(DbFill(d, f).existing, f)]
      inserted == {f \in c.fills : replay[f] = "insert"}
      new == {e \in ToSet(c.events) : DbById(d.events, e.id) = {}}
  IN CASE ~ValidSnapshot(c) \/ order = {} -> Refuse(d)
       [] ValidSnapshot(c) /\ order # {} /\ ~Unmoved(order, c) -> Answer(d, "conflict")
       [] OTHER ->
            IF DbConflict(d, c) \/ \E f \in c.fills : replay[f] = "error" THEN Refuse(d)
            ELSE Commit(d, c, new, inserted,
                        IF c.expected # c.order \/ new # {} \/ inserted # {} THEN "applied" ELSE "duplicate")

DbRecovery(d, c) ==
  LET order == DbById(d.orders, c.order.id)
      completion == RecoveryCompletion(CHOOSE o \in order : TRUE, c, DbOf(d.events, c.order.id), DbOf(d.risks, c.order.id))
  IN CASE ~ValidRecovery(c) \/ order = {} -> Refuse(d)
       [] ValidRecovery(c) /\ order # {} /\ ~Unmoved(order, c) -> Answer(d, "conflict")
       [] OTHER -> IF DbConflict(d, c) THEN Refuse(d)
                   ELSE CASE completion = "apply" -> Commit(d, c, ToSet(c.events), {}, "applied")
                          [] completion = "retry" -> Answer(d, "duplicate")
                          [] completion = "error" -> Refuse(d)

DbUpdate(d, c) == Commit(d, c, {}, {}, "done")

DbSaveFill(d, c) ==
  LET f == CHOOSE f \in c.fills : TRUE
      replay == IF DbFill(d, f).conflict THEN "error" ELSE FillReplay(DbFill(d, f).existing, f)
  IN CASE DbById(d.orders, f.order) = {} \/ replay = "error" -> Refuse(d)
       [] OTHER -> Answer(IF replay = "insert" THEN [d EXCEPT !.fills = @ \cup {f}] ELSE d, "done")

DbAppendEvent(d, c) ==
  IF KeysFree(d.events, {c.events[1]}) THEN Answer([d EXCEPT !.events = @ \cup {c.events[1]}], "done") ELSE Refuse(d)

DbObserve(d, c) ==
  Answer([d EXCEPT !.observations = @ \cup {o \in c.observations : DbById(@, o.id) = {}}], "done")

-----------------------------------------------------------------------------
(***************************************************************************)
(* What callers read                                                       *)
(***************************************************************************)

NewestFirst(rows) == SetToSortSeq(rows, LAMBDA x, y : x.at > y.at)
Bounded(list) == SubSeq(list, 1, IF Len(list) < Limit THEN Len(list) ELSE Limit)

MemFindByKey(m, key) == Find(m.orders, LAMBDA o : o.key = key)
MemFindByReference(m, ref) == Find(m.orders, LAMBDA o : o.id = ref \/ o.identifier = ref)
MemListActive(m) ==
  Bounded(SortSeq(SelectSeq(m.orders, LAMBDA o : o.status \in Active), LAMBDA x, y : x.at > y.at))
MemListBlocking(m) ==
  Bounded(SortSeq(SelectSeq(m.orders, LAMBDA o : Blocking(o, MemOf(m.events, o.id), MemOf(m.observations, o.id))),
                  LAMBDA x, y : x.at > y.at))
MemListEvents(m, order) == SortSeq(SelectSeq(m.events, LAMBDA e : e.order = order), LAMBDA x, y : x.at < y.at)

DbFindByKey(d, key) == {o \in d.orders : o.key = key}
DbFindByReference(d, ref) ==
  LET byId == {o \in d.orders : o.id = ref}
  IN IF byId # {} THEN byId ELSE {o \in d.orders : o.identifier = ref}
DbListActive(d) == Bounded(NewestFirst({o \in d.orders : o.status \in Active}))
DbListBlocking(d) ==
  Bounded(NewestFirst({o \in d.orders : Blocking(o, DbOf(d.events, o.id), DbOf(d.observations, o.id))}))
DbListEvents(d, order) ==
  SetToSortSeq(DbOf(d.events, order), LAMBDA x, y : x.at < y.at \/ (x.at = y.at /\ x.id[2] < y.id[2]))

-----------------------------------------------------------------------------
(***************************************************************************)
(* Calls                                                                   *)
(***************************************************************************)

Made(op, expected, order, events, fills, risks, observations) ==
  [op |-> op, expected |-> expected, order |-> order, events |-> events, fills |-> fills, risks |-> risks,
   observations |-> observations]

InMemory(c) ==
  CASE c.op = "intent" -> MemIntent(mem, c)
    [] c.op = "submission" -> MemSubmission(mem, c)
    [] c.op = "uncertain" -> MemUncertain(mem, c)
    [] c.op = "snapshot" -> MemSnapshot(mem, c)
    [] c.op = "recovery" -> MemRecovery(mem, c)
    [] c.op = "update" -> MemUpdate(mem, c)
    [] c.op = "fill" -> MemSaveFill(mem, c)
    [] c.op = "event" -> MemAppendEvent(mem, c)
    [] c.op = "observe" -> MemObserve(mem, c)

InSqlite(c) ==
  CASE c.op = "intent" -> DbIntent(db, c)
    [] c.op = "submission" -> DbSubmission(db, c)
    [] c.op = "uncertain" -> DbUncertain(db, c)
    [] c.op = "snapshot" -> DbSnapshot(db, c)
    [] c.op = "recovery" -> DbRecovery(db, c)
    [] c.op = "update" -> DbUpdate(db, c)
    [] c.op = "fill" -> DbSaveFill(db, c)
    [] c.op = "event" -> DbAppendEvent(db, c)
    [] c.op = "observe" -> DbObserve(db, c)

Call(c) ==
  LET m == InMemory(c)
      d == InSqlite(c)
  IN /\ mem' = m.store /\ db' = d.store
     /\ last' = [mem |-> m.answer, db |-> d.answer]
     /\ seen' = seen \cup d.store.orders

New(c) == Call(c) /\ clock < MaxCalls /\ clock' = clock + 1 /\ calls' = calls \cup {c}

\* A new order; its event may name another one.
PersistIntent ==
  \E i \in Identities : \E event \in {i.id, "another"} :
    LET order == Order(i, "PERSISTED", clock)
    IN New(Made("intent", order, order, <<Event(event, "ORDER_PERSISTED", "LOCAL", 1, clock)>>, {}, {}, {}))

\* The exchange's answer to a submission; a rejection is one too.
PersistSubmission ==
  \E row \in seen, status \in {"OPEN", "PARTIALLY_FILLED", "FILLED", "REJECTED"}, fills \in SUBSET Fills :
    /\ Cardinality(fills) <= 2
    /\ (fills = {}) = (status \in {"OPEN", "REJECTED"})
    /\ LET type == IF status = "REJECTED" THEN "ORDER_REJECTED" ELSE "ORDER_SUBMITTED"
           events == <<Event(row.id, type, "EXCHANGE", 1, clock)>>
       IN New(Made("submission", row, [row EXCEPT !.status = status, !.at = clock],
                   IF status = "FILLED" THEN Append(events, Event(row.id, "ORDER_FILLED", "EXCHANGE", 2, clock)) ELSE events,
                   fills, {}, {}))

PersistUncertain ==
  \E row \in seen :
    New(Made("uncertain", row, [row EXCEPT !.status = "RECONCILIATION_REQUIRED", !.at = clock],
             <<Event(row.id, "RECONCILIATION_RECOVERY_REQUIRED", "EXCHANGE", 1, clock)>>, {},
             {Risk(row.id, "UNCERTAIN", clock)}, {}))

\* What reconciliation found at the exchange for a row it read.
PersistSnapshot ==
  \E row \in seen, status \in {"OPEN", "FILLED", "CANCELED"}, fills \in SUBSET Fills :
    /\ Cardinality(fills) <= 2
    /\ LET changed == status # row.status
       IN New(Made("snapshot", row, IF changed THEN [row EXCEPT !.status = status, !.at = clock] ELSE row,
                   IF changed THEN <<Event(row.id, "RECONCILIATION_STATUS_UPDATED", "RECONCILIATION", 1, clock)>> ELSE <<>>,
                   fills, {}, {}))

PersistRecovery ==
  \E row \in seen :
    New(Made("recovery", row, [row EXCEPT !.status = "RECONCILIATION_REQUIRED", !.at = clock],
             <<Event(row.id, "RECONCILIATION_RECOVERY_REQUIRED", "RECONCILIATION", 1, clock)>>, {},
             {Risk(row.id, "RECOVERY", clock)}, {}))

\* The row is marked before the order is sent.
UpdateOrder ==
  \E row \in db.orders :
    /\ row.status = "PERSISTED"
    /\ New(Made("update", row, [row EXCEPT !.status = "SUBMITTING", !.at = clock], <<>>, {}, {}, {}))

SaveFill == \E row \in db.orders, f \in Fills : New(Made("fill", row, row, <<>>, {f}, {}, {}))

AppendEvent ==
  \E row \in db.orders :
    New(Made("event", row, row, <<Event(row.id, "RECONCILIATION_NO_CHANGE", "RECONCILIATION", 1, clock)>>, {}, {}, {}))

SaveObservation ==
  \E row \in db.orders, outcome \in {"FOUND", "NOT_FOUND"} :
    New(Made("observe", row, row, <<>>, {}, {}, {[id |-> clock, order |-> row.id, outcome |-> outcome]}))

\* A call whose answer was lost is made again, as it was or with another status. updateOrder,
\* appendOrderEvent and the observation are made once.
Atomic == {"intent", "submission", "uncertain", "snapshot", "recovery", "fill"}

Repeat == \E c \in calls : c.op \in Atomic /\ Call(c) /\ UNCHANGED <<calls, clock>>

RepeatChanged ==
  \E c \in calls, status \in {"OPEN", "REJECTED", "RECONCILIATION_REQUIRED"} :
    /\ c.op \in Atomic \ {"fill"} /\ status # c.order.status
    /\ Call([c EXCEPT !.order.status = status]) /\ UNCHANGED <<calls, clock>>

Next ==
  \/ PersistIntent \/ PersistSubmission \/ PersistUncertain \/ PersistSnapshot \/ PersistRecovery
  \/ UpdateOrder \/ SaveFill \/ AppendEvent \/ SaveObservation
  \/ Repeat \/ RepeatChanged

Spec == Init /\ [][Next]_vars

-----------------------------------------------------------------------------
(***************************************************************************)
(* Properties                                                              *)
(***************************************************************************)

\* The lists hold a row once, and the tables keep their keys.
TypeOK ==
  /\ \A table \in DOMAIN mem : \A i, j \in DOMAIN mem[table] : mem[table][i].id = mem[table][j].id => i = j
  /\ \A table \in DOMAIN db : \A x, y \in db[table] : x.id = y.id => x = y
  /\ \A o \in db.orders : o.status \in Statuses

\* Both answer every call alike: done, refused, conflict or duplicate, however stale, repeated
\* or changed it is. (interfaces.ts: one contract, two implementations.)
SameAnswer == last.mem = last.db

\* Both hold the same rows after every call, so a test on the lists speaks about the tables;
\* above all a refused call has left nothing behind in either.
SameRows == \A table \in DOMAIN mem : ToSet(mem[table]) = db[table]

\* Both give the same lists, in the same order, cut at the same row, and find the same order.
SameReads ==
  /\ MemListActive(mem) = DbListActive(db) /\ MemListBlocking(mem) = DbListBlocking(db)
  /\ \A i \in Identities : /\ MemFindByKey(mem, i.key) = DbFindByKey(db, i.key)
                           /\ \A ref \in {i.id, i.identifier} : MemFindByReference(mem, ref) = DbFindByReference(db, ref)
                           /\ MemListEvents(mem, i.id) = DbListEvents(db, i.id)

\* Whatever was repeated, an order has one answer of the exchange at most, one recovery mark of
\* each kind, and no trade twice.
ChildrenOnce ==
  \A o \in db.orders :
    /\ Cardinality(OfType(DbOf(db.events, o.id), {"ORDER_SUBMITTED", "ORDER_REJECTED"})) <= 1
    /\ Cardinality(OfType(DbOf(db.events, o.id), {"RECONCILIATION_RECOVERY_REQUIRED"})) <= 1
    /\ \A f, g \in DbOf(db.fills, o.id) : f.trade = g.trade => f = g

\* Repeating a call changes nothing: it was applied before, or it is refused again, or it is
\* a conflict with what was written since.
RepeatIsIdempotent == (Repeat \/ RepeatChanged) => UNCHANGED <<mem, db>>
==============================================================================
