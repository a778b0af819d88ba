------------------------------- MODULE MCPilot --------------------------------
(***************************************************************************)
(* The stores and the candidate pilot: the order repositories, the pilot's *)
(* repositories and its evidence ledger, the pilot's life across restarts, and*)
(* the inspector that reads the database beside it.  A behaviour is of the one*)
(* component "part" names, with the bounds of that instance.               *)
(***************************************************************************)
EXTENDS Integers, Sequences

CONSTANTS Parts  \* Parts: the components to explore

VARIABLES
  part,  \* the component this behaviour is of
  calls, clock,  \* OrderStores
  read,  \* CandidateLedger
  pend, count,  \* PilotStores
  now, up, dep, st, ev, audit, op, ord, ex, base, snap, rec, sub, prj, left, insp, report,  \* PilotReadiness
  mem, db, seen, last  \* of several

FirstOrder == [id |-> "o1", identifier |-> "i1", key |-> "k1"]
\* The second order may take the first one's identifier or key.
SecondOrders == {[id |-> "o2", identifier |-> i, key |-> k] : i \in {"i1", "i2"}, k \in {"k1", "k2"}}
                  \ {[id |-> "o2", identifier |-> "i1", key |-> "k1"]}

\* A trade, reported again with another id, and with another price.
SomeFills == {[id |-> "f1", order |-> "o1", trade |-> "t1", price |-> 1],
              [id |-> "f9", order |-> "o1", trade |-> "t1", price |-> 1],
              [id |-> "f1", order |-> "o1", trade |-> "t1", price |-> 2]}

Fault(id, reason, intent) == [id |-> id, reason |-> reason, intent |-> intent]
\* One of the recovery whose id is used with two reasons, one of an order's intent.
AllFaults == {Fault("recovery", "a", FALSE), Fault("recovery", "b", FALSE), Fault("intent", "c", TRUE)}

Trade(action, status, qty, gross, fee) ==
  [action |-> action, status |-> status, qty |-> qty, gross |-> gross, fee |-> fee]
Digits(c, s) == [c |-> c, s |-> s]   \* c / 10^s
\* Parts and the whole, dust below and above what is held, a cancellation without a
\* fill, a fill without value.
LedgerTrades ==
  {Trade("ENTER", "FILLED", Digits(4, 0), Digits(401, 1), Digits(2, 1)),
   Trade("ADD", "CANCELED", Digits(1, 0), Digits(12, 0), Digits(1, 1)),
   Trade("REDUCE", "FILLED", Digits(1, 0), Digits(135, 1), Digits(1, 1)),
   Trade("EXIT", "FILLED", Digits(399, 2), Digits(70, 0), Digits(3, 1)),
   Trade("EXIT", "FILLED", Digits(401, 2), Digits(20, 0), Digits(3, 1)),
   Trade("EXIT", "CANCELED", Digits(0, 0), Digits(0, 0), Digits(0, 0)),
   Trade("REDUCE", "FILLED", Digits(1, 0), Digits(0, 0), Digits(1, 1))}

Stores == INSTANCE OrderStores WITH Identities <- {FirstOrder}, Fills <- SomeFills,
  MaxCalls <- 3, Limit <- 1
TwoOrders == INSTANCE OrderStores WITH Identities <- {FirstOrder} \cup SecondOrders,
  Fills <- {}, MaxCalls <- 3, Limit <- 1
Ledger == INSTANCE CandidateLedger WITH Trades <- LedgerTrades, Times <- {1, 2, 3}, Ids <- 1..3,
  MaxEvidence <- 3, Tolerance <- [c |-> 1, s |-> 2]
Lifecycle == INSTANCE PilotStores WITH Accounts <- {"main"}, Deployments <- {"d1"},
  Orders <- {"o1"}, BindingIds <- {"k1"}, Faults <- AllFaults, MaxTime <- 3, Overlap <- FALSE,
  Calls <- {"initialize", "activate", "rollback", "fault", "evidence", "pause", "resume", "kill"},
  MaxCalls <- 5
Binding == INSTANCE PilotStores WITH Accounts <- {"main"}, Deployments <- {"d1"},
  Orders <- {"o1", "o2"}, BindingIds <- {"k1", "k2"}, Faults <- {Fault("recovery", "a", FALSE)},
  MaxTime <- 3, Overlap <- FALSE,
  Calls <- {"initialize", "activate", "bind", "fault", "degrade", "clear"}, MaxCalls <- 5
Creation == INSTANCE PilotStores WITH Accounts <- {"main", "other"},
  Deployments <- {"d1", "d2"}, Orders <- {"o1"}, BindingIds <- {"k1"},
  Faults <- {Fault("recovery", "a", FALSE)}, MaxTime <- 3, Overlap <- FALSE,
  Calls <- {"create", "initialize", "activate"}, MaxCalls <- 4
First == INSTANCE PilotReadiness WITH Orders <- {1}, MaxTime <- 4, Freshness <- 4,
  Budget <- [commands |-> 1, crashes |-> 1, snapshots |-> 1, recoveries |-> 2], Inspections <- 0
Held == INSTANCE PilotReadiness WITH Orders <- {1, 2}, MaxTime <- 5, Freshness <- 4,
  Budget <- [commands |-> 1, crashes |-> 0, snapshots |-> 0, recoveries |-> 2], Inspections <- 0
Draining == INSTANCE PilotReadiness WITH Orders <- {1, 2}, MaxTime <- 7, Freshness <- 4,
  Budget <- [commands |-> 0, crashes |-> 0, snapshots |-> 1, recoveries |-> 2], Inspections <- 0
Entered == INSTANCE PilotReadiness WITH Orders <- {1, 2}, MaxTime <- 8, Freshness <- 4,
  Budget <- [commands |-> 0, crashes |-> 0, snapshots |-> 0, recoveries |-> 1], Inspections <- 1
Inspected == INSTANCE PilotReadiness WITH Orders <- {1}, MaxTime <- 4, Freshness <- 4,
  Budget <- [commands |-> 1, crashes |-> 0, snapshots |-> 1, recoveries |-> 1], Inspections <- 1

ASSUME Stores!StoresAssumption /\ TwoOrders!StoresAssumption /\ Ledger!LedgerAssumption /\
       Lifecycle!StoresAssumption /\ Binding!StoresAssumption /\
       Creation!StoresAssumption /\ First!PilotConstants /\ First!InspectionsAssumption /\
       Held!PilotConstants /\ Held!InspectionsAssumption /\ Draining!PilotConstants /\
       Draining!InspectionsAssumption /\ Entered!PilotConstants /\
       Entered!InspectionsAssumption /\ Inspected!PilotConstants /\
       Inspected!InspectionsAssumption

storesVars == <<calls, clock>>
ledgerVars == <<read>>
pilotStoresVars == <<pend, count>>
pilotVars == <<now, up, dep, st, ev, audit, op, ord, ex, base, snap, rec, sub, prj, left, insp,
               report>>
vars == <<part, storesVars, ledgerVars, pilotStoresVars, pilotVars, mem, db, seen, last>>

Off == 0
storesOff == calls = Off /\ clock = Off
ledgerOff == read = Off
pilotStoresOff == pend = Off /\ count = Off
pilotOff == now = Off /\ up = Off /\ dep = Off /\ st = Off /\ ev = Off /\ audit = Off /\
            op = Off /\ ord = Off /\ ex = Off /\ base = Off /\ snap = Off /\ rec = Off /\
            sub = Off /\ prj = Off /\ left = Off /\ insp = Off /\ report = Off

Init == /\ part \in Parts
        /\ \/ part = "stores" /\ Stores!Init /\ ledgerOff /\ pilotStoresOff /\ pilotOff
           \/ part = "two orders" /\ TwoOrders!Init /\ ledgerOff /\ pilotStoresOff /\ pilotOff
           \/ part = "ledger" /\ Ledger!Init /\ storesOff /\ pilotStoresOff /\ pilotOff /\
              seen = Off
           \/ part = "lifecycle" /\ Lifecycle!Init /\ storesOff /\ ledgerOff /\ pilotOff
           \/ part = "binding" /\ Binding!Init /\ storesOff /\ ledgerOff /\ pilotOff
           \/ part = "creation" /\ Creation!Init /\ storesOff /\ ledgerOff /\ pilotOff
           \/ part = "first" /\ First!IInit(First!Init) /\ storesOff /\ ledgerOff /\
              pilotStoresOff /\ mem = Off /\ db = Off /\ seen = Off /\ last = Off
           \/ part = "held" /\ Held!IInit(Held!HeldInit) /\ storesOff /\ ledgerOff /\
              pilotStoresOff /\ mem = Off /\ db = Off /\ seen = Off /\ last = Off
           \/ part = "draining" /\ Draining!IInit(Draining!DrainingInit) /\ storesOff /\
              ledgerOff /\ pilotStoresOff /\ mem = Off /\ db = Off /\ seen = Off /\ last = Off
           \/ part = "entered" /\ Entered!IInit(Entered!EnteredInit) /\ storesOff /\
              ledgerOff /\ pilotStoresOff /\ mem = Off /\ db = Off /\ seen = Off /\ last = Off
           \/ part = "inspected" /\ Inspected!IInit(Inspected!Init) /\ storesOff /\ ledgerOff /\
              pilotStoresOff /\ mem = Off /\ db = Off /\ seen = Off /\ last = Off

StoresStep == part = "stores" /\ Stores!Next /\ UNCHANGED <<part, ledgerVars, pilotStoresVars,
            pilotVars>>
TwoOrdersStep == part = "two orders" /\ TwoOrders!Next /\ UNCHANGED <<part, ledgerVars,
            pilotStoresVars, pilotVars>>
LedgerStep == part = "ledger" /\ Ledger!Next /\ UNCHANGED <<part, storesVars, pilotStoresVars,
            pilotVars, seen>>
LifecycleStep == part = "lifecycle" /\ Lifecycle!Next /\ UNCHANGED <<part, storesVars,
            ledgerVars, pilotVars>>
BindingStep == part = "binding" /\ Binding!Next /\ UNCHANGED <<part, storesVars, ledgerVars,
            pilotVars>>
CreationStep == part = "creation" /\ Creation!Next /\ UNCHANGED <<part, storesVars, ledgerVars,
            pilotVars>>
FirstStep == part = "first" /\ First!INext /\ UNCHANGED <<part, storesVars, ledgerVars,
            pilotStoresVars, mem, db, seen, last>>
HeldStep == part = "held" /\ Held!INext /\ UNCHANGED <<part, storesVars, ledgerVars,
            pilotStoresVars, mem, db, seen, last>>
DrainingStep == part = "draining" /\ Draining!INext /\ UNCHANGED <<part, storesVars, ledgerVars,
            pilotStoresVars, mem, db, seen, last>>
EnteredStep == part = "entered" /\ Entered!INext /\ UNCHANGED <<part, storesVars, ledgerVars,
            pilotStoresVars, mem, db, seen, last>>
InspectedStep == part = "inspected" /\ Inspected!INext /\ UNCHANGED <<part, storesVars,
            ledgerVars, pilotStoresVars, mem, db, seen, last>>

Next == StoresStep \/ TwoOrdersStep \/ LedgerStep \/ LifecycleStep \/
        BindingStep \/ CreationStep \/ FirstStep \/ HeldStep \/ DrainingStep \/ EnteredStep \/
        InspectedStep

Spec == Init /\ [][Next]_vars

-----------------------------------------------------------------------------
\* The in-memory repositories, which the tests run on, and the SQLite ones, which the
\* program runs on, answer every sequence of calls alike and keep the same rows: orders,
\* events and fills, the pilot's deployments, evidence, bindings and audit, and the
\* evidence ledger; a child row exists once, and the audit explains every phase.
StoresAgree ==
  /\ part = "stores" => /\ Stores!TypeOK /\ Stores!SameAnswer /\ Stores!SameRows /\ Stores!ChildrenOnce
  /\ part = "two orders" => TwoOrders!SameAnswer /\ TwoOrders!SameReads
  /\ part = "ledger" => Ledger!TypeOK /\ Ledger!SameAnswer /\ Ledger!SameRows
  /\ part = "lifecycle" => Lifecycle!SameAnswer /\ Lifecycle!SameRows /\ Lifecycle!AuditExplains
  /\ part = "binding" => Binding!TypeOK /\ Binding!SameAnswer
  /\ part = "creation" => Creation!TypeOK /\ Creation!SameAnswer

\* The pilot: its stored state is the replay of its evidence, in one go or in parts, and
\* an episode's result is what its orders paid and received; the initializer, recovery
\* and the run's own verification judge one history alike; authority recovery handed out
\* was there; and a disabled pilot holds nothing, live or projected.
PilotSound ==
  /\ part = "ledger" => Ledger!EpisodeBalance /\ Ledger!ReplayInParts
  /\ part = "first" => First!TypeOK /\ First!VerifiersAgree
  /\ part = "held" => Held!ReadyAuthorityExisted /\ Held!KeptIsRecoverable
  /\ part = "draining" => Draining!StateIsReplay /\ Draining!VerifiersAgree /\ Draining!DisabledIsFlat

\* The inspector, which reads row after row while the runtime writes: what it approves
\* the next start-up keeps, evidence it read still has its source, and its "nothing is
\* open" holds of the exchange.
InspectionSound ==
  /\ part = "entered" => Entered!ApprovedIsKept /\ Entered!EvidenceKeepsItsSource
  /\ part = "inspected" => Inspected!ITypeOK /\ Inspected!QuietMeansNothingLive

\* What no step may do: send an order under a deployment row that changed since it was
\* verified unless the operator commanded later; accept copies that never stood in the
\* database together; write anything on a repeated call; project evidence elsewhere than
\* at the end; stop a pilot without stopping the account; revive a disabled or faulted
\* pilot; bind an order to a deployment that may not trade.
PilotSteps ==
  [][/\ part = "held" => Held!ChangedAuthorityNeedsResume
     /\ part = "entered" => Entered!AcceptedCopyExisted
     /\ part = "stores" => Stores!RepeatIsIdempotent
     /\ part = "ledger" => Ledger!OnlyAtTheEnd
     /\ part = "lifecycle" => Lifecycle!StopsStopped /\ Lifecycle!NeverRevived
     /\ part = "binding" => Binding!BoundWhileTrading]_vars
===============================================================================
