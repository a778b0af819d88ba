--------------------------- MODULE CandidateLedger ---------------------------
(***************************************************************************)
(* The ledger of the pilot: the terminal orders of the candidate, replayed *)
(* in exact decimals into an inventory, a cost basis and a realized result,*)
(* in the repository of SQLite and in the one of the tests. A call may be  *)
(* built on a state read before, be late, be repeated or be changed.       *)
(***************************************************************************)
EXTENDS Integers, Sequences, FiniteSets, SequencesExt

CONSTANTS Trades,     \* [action, status, qty, gross, fee] of the terminal orders that may be projected
          Times,      \* when they were executed
          Ids,        \* the names of their evidence, ordered as the code orders text
          MaxEvidence, \* bound: evidence in the ledger
          Tolerance   \* EXACT_CANDIDATE_QUANTITY_TOLERANCE

LedgerAssumption == Times \subseteq Nat \ {0} /\ Ids \subseteq Nat \ {0} /\ MaxEvidence \in Nat

VARIABLES
  mem,    \* [evidence (in order of arrival), state, audit]
  db,     \* [evidence (the rows), state, audit]
  read,   \* the states callers have read
  last    \* what both answered to the last call, and whether it was the next in order

vars == <<mem, db, read, last>>

-----------------------------------------------------------------------------
(***************************************************************************)
(* Exact decimals: c / 10^s. A text is canonical, so it is its decimal     *)
(***************************************************************************)

Abs(n) == IF n < 0 THEN -n ELSE n

Normal(d) ==
  LET zeros == CHOOSE k \in 0 .. d.s : d.c % 10 ^ k = 0 /\ \A j \in k + 1 .. d.s : d.c % 10 ^ j # 0
  IN [c |-> d.c \div 10 ^ zeros, s |-> d.s - zeros]

Dec(c, s) == Normal([c |-> c, s |-> s])
Zero == Dec(0, 0)

\* Both over the larger scale.
Aligned(a, b) ==
  LET s == IF a.s > b.s THEN a.s ELSE b.s IN [a |-> a.c * 10 ^ (s - a.s), b |-> b.c * 10 ^ (s - b.s), s |-> s]

Plus(a, b) == LET p == Aligned(a, b) IN Dec(p.a + p.b, p.s)
Minus(a, b) == LET p == Aligned(a, b) IN Dec(p.a - p.b, p.s)
Times10(a, b) == Dec(a.c * b.c, a.s + b.s)
AtMost(a, b) == LET p == Aligned(a, b) IN p.a <= p.b

gcd[a \in Nat, b \in Nat] == IF b = 0 THEN IF a = 0 THEN 1 ELSE a ELSE gcd[b, a % b]
factors[n \in Nat \ {0}, p \in {2, 5}] == IF n % p = 0 THEN 1 + factors[n \div p, p] ELSE 0

\* The quotient of two non-negative decimals, when it has a terminating representation.
Over(a, b) ==
  LET n == a.c * (IF b.s >= a.s THEN 10 ^ (b.s - a.s) ELSE 1)
      m == b.c * (IF b.s >= a.s THEN 1 ELSE 10 ^ (a.s - b.s))
      g == gcd[n, m]
      twos == factors[m \div g, 2]
      fives == factors[m \div g, 5]
      s == IF twos > fives THEN twos ELSE fives
  IN IF b.c = 0 \/ m \div g # 2 ^ twos * 5 ^ fives THEN {}
     ELSE {Dec((n \div g) * 2 ^ (s - twos) * 5 ^ (s - fives), s)}

\* CANONICAL_SIGNED: zero, or a whole part that does not start with 0.
ReadsSigned(d) == d.c = 0 \/ Abs(d.c) >= 10 ^ d.s

-----------------------------------------------------------------------------
(***************************************************************************)
(* Evidence and the state it is replayed into                              *)
(***************************************************************************)

EmptyState == [adds |-> 0, cost |-> Zero, qty |-> Zero, pnl |-> Zero, exit |-> {}, entered |-> FALSE,
               at |-> 0, id |-> 0, version |-> 0]

Buys(e) == e.action \in {"ENTER", "ADD"}

\* candidateEvidenceMaterial: nothing executed is a cancellation without value or fee.
ValidMaterial(e) ==
  IF e.qty = Zero THEN e.status = "CANCELED" /\ e.gross = Zero /\ e.fee = Zero ELSE e.gross # Zero

\* deriveExactRemainingQuantity; nothing when more is sold than held.
RemainingQuantity(qty, e) ==
  LET left == Minus(qty, e.qty)
  IN IF Buys(e) THEN {Plus(qty, e.qty)}
     ELSE IF ~AtMost(e.qty, Plus(qty, Tolerance)) THEN {}
     ELSE {IF AtMost(Dec(Abs(left.c), left.s), Tolerance) THEN Zero ELSE left}

After(e, at, id) == at < e.at \/ (at = e.at /\ id < e.id)

Bought(s, e) ==
  [s EXCEPT !.qty = e.remaining, !.cost = Plus(@, Plus(e.gross, e.fee)), !.entered = TRUE,
            !.adds = IF e.action = "ADD" THEN @ + 1 ELSE @, !.at = e.at, !.id = e.id, !.version = @ + 1]

Sold(s, e, removed) ==
  LET realized == Minus(Plus(s.pnl, Minus(e.gross, e.fee)), removed)
      next == [s EXCEPT !.at = e.at, !.id = e.id, !.version = @ + 1]
  IN IF e.remaining = Zero
     THEN [next EXCEPT !.adds = 0, !.cost = Zero, !.qty = Zero, !.pnl = Zero, !.exit = {[at |-> e.at, pnl |-> realized]}]
     ELSE [next EXCEPT !.cost = Minus(@, removed), !.qty = e.remaining, !.pnl = realized]

\* assertExactChronology
Follows(s, e) == s.at = 0 \/ After(e, s.at, s.id)

\* advanceExactCandidateState: the next state, or none.
Advance(s, e) ==
  IF ~Follows(s, e) THEN {}
  ELSE IF e.qty = Zero THEN IF e.remaining = s.qty THEN {s} ELSE {}
  ELSE IF RemainingQuantity(s.qty, e) # {e.remaining} \/ ~ReadsSigned(s.pnl) THEN {}
  ELSE IF Buys(e) THEN IF (e.action = "ENTER") = (s.qty = Zero) THEN {Bought(s, e)} ELSE {}
  ELSE IF s.qty = Zero THEN {}
  ELSE {Sold(s, e, removed) : removed \in IF e.remaining = Zero THEN {s.cost} ELSE Over(Times10(s.cost, e.qty), s.qty)}

InOrder(evidence) == SetToSortSeq(evidence, LAMBDA x, y : After(y, x.at, x.id))

\* Replay(Step, s, list): the state after the list, or none.
Replay(Step(_, _), s, list) ==
  LET after[n \in 0 .. Len(list)] ==
        IF n = 0 THEN {s} ELSE UNION {Step(t, list[n]) : t \in after[n - 1]}
  IN after[Len(list)]

Project(evidence) == Replay(Advance, EmptyState, InOrder(evidence))

-----------------------------------------------------------------------------
(***************************************************************************)
(* The state strategies see (position-guard-candidate-state.ts), in        *)
(* floating point there; rounding is left out                              *)
(***************************************************************************)

MinimumVersion(s) ==
  (IF s.exit = {} THEN 0 ELSE 2)
  + (IF AtMost(s.qty, Tolerance) THEN 0 ELSE 1 + s.adds + IF s.pnl = Zero THEN 0 ELSE 1)

CursorValid(s) ==
  IF s.at = 0 THEN s = EmptyState ELSE s.version > 0 /\ \A x \in s.exit : x.at <= s.at

ValidState(s) ==
  /\ s.qty.c >= 0 /\ s.cost.c >= 0
  /\ s.exit # {} => s.entered
  /\ CursorValid(s)
  /\ IF AtMost(s.qty, Tolerance)
     THEN /\ s.qty = Zero /\ s.cost = Zero /\ s.adds = 0 /\ s.pnl = Zero
          /\ s.at # 0 => s.exit # {}
     ELSE s.cost.c > 0 /\ s.entered
  /\ s.version >= MinimumVersion(s)

\* toPositionGuardCandidateRoutingState: the same state, when every text reads and it is valid.
Routing(s) ==
  IF ReadsSigned(s.pnl) /\ (\A x \in s.exit : ReadsSigned(x.pnl)) /\ ValidState(s) THEN {s} ELSE {}

Residual(expected, e) == AtMost(Dec(Abs(Minus(expected, e.remaining).c), Minus(expected, e.remaining).s), Tolerance)

Lifecycle(s, e) ==
  CASE e.action = "ENTER" -> s.qty = Zero
    [] e.action = "ADD" -> ~AtMost(s.qty, Tolerance)
    [] OTHER -> ~AtMost(s.qty, Tolerance) /\ AtMost(e.qty, Plus(s.qty, Tolerance))

\* advanceValidatedPositionGuardCandidateState
RoutingAdvance(s, e) ==
  LET left == Minus(s.qty, e.qty)
      closes == AtMost(left, Tolerance)
  IN IF ~Follows(s, e) THEN {}
     ELSE IF e.qty = Zero THEN IF Residual(s.qty, e) THEN {s} ELSE {}
     ELSE IF ~Lifecycle(s, e) THEN {}
     ELSE LET removed == IF closes THEN {s.cost} ELSE Over(Times10(s.cost, e.qty), s.qty)
              next == IF Buys(e) THEN IF Residual(Plus(s.qty, e.qty), e) THEN {Bought(s, e)} ELSE {}
                      ELSE IF Residual(IF closes THEN Zero ELSE left, e) THEN {Sold(s, e, r) : r \in removed} ELSE {}
          IN {n \in next : ValidState(n)}

\* validateExecutionEvidence
ValidEvidence(e) ==
  IF e.qty = Zero THEN e.status = "CANCELED" /\ e.gross = Zero /\ e.fee = Zero ELSE e.gross # Zero

\* projectPositionGuardCandidateState
RoutingProject(s, evidence) ==
  IF \E e \in evidence : e.id = s.id \/ ~ValidEvidence(e) THEN {} ELSE Replay(RoutingAdvance, s, InOrder(evidence))

-----------------------------------------------------------------------------
(***************************************************************************)
(* The two repositories. A call c: [e, expected (version)]                 *)
(***************************************************************************)

Audit(e, from, to) == [id |-> e.id, from |-> from, to |-> to, at |-> e.at]
Answer(store, answer) == [store |-> store, answer |-> answer]

\* getEvidenceRecord
Known(evidence, id) == {e \in evidence : e.id = id}

\* updateExactState: the row holds the exact texts and the numbers strategies read.
RowWritten(d, s, expected) == d.state.version = expected /\ Routing(s) # {}

\* advanceStateWithEvidence in memory: the state is stored before the answer is formed.
MemAdvance(m, c) ==
  LET known == Known(ToSet(m.evidence), c.e.id)
      next == Project(ToSet(m.evidence) \cup {c.e})
      s == CHOOSE s \in next : TRUE
  IN CASE ~ValidMaterial(c.e) -> Answer(m, "error")
       [] ValidMaterial(c.e) /\ known # {} ->
            Answer(m, IF known = {c.e} /\ Routing(m.state) # {} THEN "duplicate" ELSE "error")
       [] ValidMaterial(c.e) /\ known = {} ->
            IF m.state.version # c.expected \/ next = {} THEN Answer(m, "error")
            ELSE IF s.version # m.state.version + 1 THEN Answer(m, "error")
            ELSE Answer([evidence |-> Append(m.evidence, c.e), state |-> s,
                         audit |-> Append(m.audit, Audit(c.e, m.state.version, s.version))],
                        IF Routing(s) = {} THEN "error" ELSE "advanced")

\* In SQLite one transaction; the row written also holds the state in numbers.
DbAdvance(d, c) ==
  LET known == Known(d.evidence, c.e.id)
      next == Project(d.evidence \cup {c.e})
      s == CHOOSE s \in next : TRUE
  IN CASE ~ValidMaterial(c.e) -> Answer(d, "error")
       [] ValidMaterial(c.e) /\ known # {} -> Answer(d, IF known = {c.e} THEN "duplicate" ELSE "error")
       [] ValidMaterial(c.e) /\ known = {} ->
            IF d.state.version # c.expected \/ next = {} THEN Answer(d, "error")
            ELSE IF s.version # d.state.version + 1 \/ ~RowWritten(d, s, c.expected) THEN Answer(d, "error")
            ELSE Answer([evidence |-> d.evidence \cup {c.e}, state |-> s,
                         audit |-> d.audit \cup {Audit(c.e, d.state.version, s.version)}], "advanced")

\* listEvidenceAfter: what follows the named evidence (0: all).
ListAfter(list, id) ==
  LET cursor == IF id = 0 THEN 0 ELSE CHOOSE n \in DOMAIN list : list[n].id = id IN SubSeq(list, cursor + 1, Len(list))

MemListAfter(m, id) == ListAfter(SortSeq(m.evidence, LAMBDA x, y : After(y, x.at, x.id)), id)
DbListAfter(d, id) == ListAfter(InOrder(d.evidence), id)

-----------------------------------------------------------------------------
Init ==
  /\ mem = [evidence |-> <<>>, state |-> EmptyState, audit |-> <<>>]
  /\ db = [evidence |-> {}, state |-> EmptyState, audit |-> {}]
  /\ read = {EmptyState}
  /\ last = [mem |-> "none", db |-> "none", next |-> FALSE]

\* The next in order: read from the current state, executed after all that is stored, and
\* what it says happened can follow.
NextInOrder(c) ==
  /\ c.expected = db.state.version /\ Follows(db.state, c.e) /\ c.e.qty # Zero
  /\ RemainingQuantity(db.state.qty, c.e) = {c.e.remaining}
  /\ Lifecycle(db.state, c.e)

Call(c) ==
  LET m == MemAdvance(mem, c)
      d == DbAdvance(db, c)
  IN /\ mem' = m.store /\ db' = d.store
     /\ last' = [mem |-> m.answer, db |-> d.answer, next |-> NextInOrder(c) /\ \A e \in db.evidence : e.id # c.e.id]
     /\ read' = read \cup {d.store.state}

\* A terminal order is projected from a state read now or before.
ProjectOrder ==
  \E s \in read, t \in Trades, at \in Times, id \in Ids : \E remaining \in RemainingQuantity(s.qty, t) :
    LET c == [e |-> [id |-> id, at |-> at, action |-> t.action, status |-> t.status, qty |-> t.qty,
                     gross |-> t.gross, fee |-> t.fee, remaining |-> remaining], expected |-> s.version]
    IN db.state.version < MaxEvidence /\ Call(c)

\* The answer was lost, or the sweep finds the order again.
Repeat == \E e \in db.evidence, s \in read : Call([e |-> e, expected |-> s.version])

Next == ProjectOrder \/ Repeat

Spec == Init /\ [][Next]_vars

-----------------------------------------------------------------------------
(***************************************************************************)
(* Properties                                                              *)
(***************************************************************************)

\* A version for every evidence, and an audit event for every version, from the first on.
TypeOK ==
  /\ db.state.version = Cardinality(db.evidence)
  /\ {<<a.from, a.to>> : a \in db.audit} = {<<n - 1, n>> : n \in 1 .. db.state.version}
  /\ db.state.adds \in Nat

Total(list, Value(_)) ==
  LET sum[n \in 0 .. Len(list)] == IF n = 0 THEN Zero ELSE Plus(sum[n - 1], Value(list[n])) IN sum[Len(list)]
Net(e) == IF Buys(e) THEN Minus(Zero, Plus(e.gross, e.fee)) ELSE Minus(e.gross, e.fee)
EndOfEpisode(list) ==
  LET ends == {n \in DOMAIN list : list[n].remaining = Zero} IN IF ends = {} THEN 0 ELSE CHOOSE n \in ends : \A k \in ends : k <= n
StartOfEpisode(list, end) ==
  LET ends == {n \in 1 .. end - 1 : list[n].remaining = Zero} IN IF ends = {} THEN 0 ELSE CHOOSE n \in ends : \A k \in ends : k <= n

\* No won is lost however an episode was bought and sold in parts: what is realized less what the
\* inventory still costs is the money received less the money paid; the result of the last
\* complete episode is the whole of it.
EpisodeBalance ==
  LET list == InOrder(db.evidence)
      end == EndOfEpisode(list)
  IN /\ Minus(db.state.pnl, db.state.cost) = Total(SubSeq(list, end + 1, Len(list)), Net)
     /\ {x.pnl : x \in db.state.exit} =
          (IF end = 0 THEN {} ELSE {Total(SubSeq(list, StartOfEpisode(list, end) + 1, end), Net)})

\* Both answer every call alike.
SameAnswer == last.mem = last.db

\* Both hold the same evidence, state and audit events and list the evidence alike.
SameRows ==
  /\ ToSet(mem.evidence) = db.evidence /\ mem.state = db.state /\ ToSet(mem.audit) = db.audit
  /\ \A id \in {0} \cup {e.id : e \in db.evidence} : MemListAfter(mem, id) = DbListAfter(db, id)

\* The stored state is the state strategies compute, from the beginning or from any point of
\* the evidence on, and it is valid there.
ReplayInParts ==
  LET list == InOrder(db.evidence)
  IN \A n \in 0 .. Len(list) :
       UNION {RoutingProject(s, ToSet(SubSeq(list, n + 1, Len(list)))) :
              s \in RoutingProject(EmptyState, ToSet(SubSeq(list, 1, n)))} = {db.state}

\* Evidence is only ever added at its end, once, with the version the caller has read: an order
\* projected late or from a stale state changes nothing.
OnlyAtTheEnd ==
  db' # db => \E e \in db'.evidence \ db.evidence :
                /\ db'.evidence = db.evidence \cup {e} /\ \A old \in db.evidence : After(e, old.at, old.id)
                /\ \E a \in db'.audit \ db.audit : a.id = e.id /\ a.from = db.state.version

==============================================================================
