-------------------------- MODULE ShadowCommitment --------------------------
(* The public commitment of the prospective shadow experiment: the commits on
   the repository's main branch, the workflow that validates a publication, an
   abandonment and the closure from the committed bytes and GitHub's own run
   time, and the offline evaluation that accepts a FINAL result only from that
   evidence.  Commits are named by their position on main, which is never
   rewritten; a checksum is the value it is computed from. *)
EXTENDS Integers, Sequences, FiniteSets, FiniteSetsExt, SequencesExt

CONSTANTS
  Clocks,      \* what the registering machine's clock may say, whatever the time is
  Hour,        \* ticks of an hour, to which the window start is rounded up
  Prep,        \* ticks between registration and the earliest window start (72 hours)
  MinLead,     \* ticks of public lead a publication needs (48 hours)
  Duration,    \* ticks of the window
  MaxTime,     \* bound: last tick of GitHub's clock
  MaxCommits,  \* bound: commits on main
  None

ConstantsAssumption ==
  /\ Clocks \subseteq Nat
  /\ {Hour, Prep, MinLead, Duration, MaxTime, MaxCommits} \subseteq Nat \ {0}
  /\ MinLead <= Prep

VARIABLES
  now,       \* GitHub's clock
  main,      \* the commits of main: the paths' contents, and whether other paths changed
  pushedAt,  \* when each commit became public
  runs,      \* metadata of the successful workflow runs
  verified,  \* closure runs the operator confirmed against the public history
  reports    \* FINAL reports published

vars == <<now, main, pushedAt, runs, verified, reports>>

----------------------------------------------------------------------------
(* registration and registry *)

CeilToHour(t) == ((t + Hour - 1) \div Hour) * Hour

\* createProspectiveShadowRegistration: the window follows from the clock alone.
Registration(clock, impl) == [at |-> clock, impl |-> impl]
From(g) == CeilToHour(g.at + Prep)
To(g) == From(g) + Duration

RegistryOf(g) == [reg |-> g, abandoned |-> None]
Abandonment(clock, pub) == [at |-> clock, pub |-> pub]

Paths == {"registration", "registry", "workflow", "other"}
RelevantPaths == {"registration", "registry"}

\* Paths a commit changes against its only parent.
ChangedPaths(m, i) ==
  LET c == m[i]  b == m[i - 1] IN
    {"registration" : x \in {y \in {1} : c.reg # b.reg}}
    \cup {"registry" : x \in {y \in {1} : c.registry # b.registry}}
    \cup {"workflow" : x \in {y \in {1} : c.wf # b.wf}}
    \cup {"other" : x \in {y \in {1} : c.other}}

----------------------------------------------------------------------------
(* validation of the committed bytes, the same in the workflow and the evaluator *)

\* Commits from the publication to the tip that touch either canonical path.
RelevantPathHistory(m, pub, tip) ==
  SetToSortSeq({i \in pub..tip : i > 1 /\ ChangedPaths(m, i) \cap RelevantPaths # {}}, <)

PublicationStructure(m, g, pub) ==
  /\ g.impl # pub /\ pub - 1 = g.impl
  /\ m[g.impl].reg = None /\ m[g.impl].registry = None
  /\ ChangedPaths(m, pub) = RelevantPaths
  /\ m[pub].reg = g /\ m[pub].registry = RegistryOf(g)
  /\ m[pub].wf = m[g.impl].wf

AbandonmentStructure(m, g, pub, head) ==
  /\ pub <= head /\ pub > 1
  /\ ChangedPaths(m, head) = {"registry"}
  /\ m[pub].reg = g /\ m[head].reg = g
  /\ m[pub].registry # None /\ m[pub].registry.abandoned = None
  /\ m[head].registry # None /\ m[head].registry.abandoned # None
  /\ m[head].registry.reg = m[pub].registry.reg
  /\ m[head].registry.abandoned.at < To(g)
  /\ m[g.impl].wf = m[head].wf

\* Only the publication, and after it at most the one allowed abandonment.
RelevantHistoryValid(m, g, pub, tip, abandoned) ==
  LET h == RelevantPathHistory(m, pub, tip) IN
  /\ Len(h) = IF abandoned THEN 2 ELSE 1
  /\ h[1] = pub /\ pub - 1 = g.impl
  /\ ChangedPaths(m, pub) = RelevantPaths
  /\ m[pub].reg = g /\ m[pub].registry = RegistryOf(g)
  /\ m[pub].wf = m[g.impl].wf
  /\ LET last == m[h[Len(h)]] IN
       /\ last.reg = m[tip].reg /\ last.registry = m[tip].registry /\ last.wf = m[tip].wf
  /\ abandoned =>
       /\ ChangedPaths(m, h[2]) = {"registry"}
       /\ m[h[2]].reg = g /\ m[h[2]].registry.reg = g
       /\ m[h[2]].registry.abandoned.pub = pub
       /\ m[h[2]].registry.abandoned.at < To(g)
       /\ m[h[2]].wf = m[g.impl].wf

ClosureStructure(m, g, pub, tip) ==
  /\ pub <= tip /\ pub > 1
  /\ m[pub].reg = g /\ m[tip].reg = g
  /\ m[g.impl].wf = m[tip].wf
  /\ m[tip].registry # None /\ m[tip].registry.reg = g
  /\ RelevantHistoryValid(m, g, pub, tip, m[tip].registry.abandoned # None)

WrongEnoughLead(at, g) == TRUE

EnoughLead(at, g) == From(g) - at >= MinLead

----------------------------------------------------------------------------
(* the workflow *)

\* Mode from the exact changed paths of the pushed head.
PushMode(m, head) ==
  CASE ChangedPaths(m, head) = RelevantPaths -> "REGISTERED_PUBLICATION"
    [] ChangedPaths(m, head) = {"registry"} -> "ABANDONED"
    [] OTHER -> None

Metadata(mode, head, at, g, pub) ==
  [mode |-> mode, head |-> head, at |-> at, reg |-> g, pub |-> pub]

PublicationRun(m, g, head, at) ==
  PublicationStructure(m, g, head) /\ EnoughLead(at, g)

\* The last registry line names the publication and must bind it.
AbandonmentRun(m, g, head, at) ==
  /\ m[head].registry # None /\ m[head].registry.abandoned # None
  /\ m[head].registry.abandoned.pub # g.impl
  /\ AbandonmentStructure(m, g, m[head].registry.abandoned.pub, head)
  /\ at < To(g)

\* What a push run emits: nothing unless the checkout's registration, the
\* structure and the run's own time are valid.
PushRun(m, head, at) ==
  LET g == m[head].reg  mode == PushMode(m, head) IN
  CASE mode = "REGISTERED_PUBLICATION" /\ g # None /\ PublicationRun(m, g, head, at) ->
         {Metadata(mode, head, at, g, head)}
    [] mode = "ABANDONED" /\ g # None /\ AbandonmentRun(m, g, head, at) ->
         {Metadata(mode, head, at, g, m[head].registry.abandoned.pub)}
    [] OTHER -> {}

\* git log --diff-filter=A | tail -n 1: the oldest commit that added the registration.
FirstAddition(m) ==
  LET added == {i \in 2..Len(m) : m[i].reg # None /\ m[i - 1].reg = None} IN
    IF added = {} THEN None ELSE Min(added)

\* The abandonment metadata a closure may carry, checked against the closure.
AbandonmentMatches(a, m, g, pub, tip) ==
  /\ a.mode = "ABANDONED" /\ a.reg = g /\ a.pub = pub
  /\ a.head = Last(RelevantPathHistory(m, pub, tip))
  /\ m[a.head].registry = m[tip].registry
  /\ a.at < To(g)

----------------------------------------------------------------------------
(* steps *)

Init ==
  /\ now = 0
  /\ main = <<[reg |-> None, registry |-> None, wf |-> 0, other |-> TRUE]>>
  /\ pushedAt = <<0>>
  /\ runs = {} /\ verified = {} /\ reports = {}

Tick ==
  /\ now < MaxTime
  /\ now' = now + 1
  /\ UNCHANGED <<main, pushedAt, runs, verified, reports>>

\* A commit becomes public, and the workflow runs on it unless it is disabled,
\* fails or is never started.
Push(c) ==
  /\ Len(main) < MaxCommits
  /\ main' = Append(main, c)
  /\ pushedAt' = Append(pushedAt, now)
  /\ LET head == Len(main')
         ran == IF ChangedPaths(main', head) \cap RelevantPaths = {} THEN {} ELSE PushRun(main', head, now) IN
       runs' \in {runs, runs \cup ran}
  /\ UNCHANGED <<now, verified, reports>>

Tip == main[Len(main)]

\* The staged registration, against the tip or an older implementation commit,
\* alone or with other changes.
PushRegistration ==
  \E clock \in Clocks, impl \in {1, Len(main)}, other \in BOOLEAN :
    LET g == Registration(clock, impl) IN
      Push([reg |-> g, registry |-> RegistryOf(g), wf |-> Tip.wf, other |-> other])

\* The staged abandonment event, with the operator's clock and publication commit.
PushAbandonment ==
  /\ Tip.registry # None
  /\ \E clock \in Clocks \cup {MaxTime}, pub \in 2..Len(main) :
       Push([Tip EXCEPT !.registry = [@ EXCEPT !.abandoned = Abandonment(clock, pub)], !.other = FALSE])

\* Commits nobody's command makes: the artefacts removed, the abandonment
\* reverted, the workflow edited or restored, and unrelated work.
PushOther ==
  \/ Tip.reg # None /\ Push([Tip EXCEPT !.reg = None, !.registry = None, !.other = TRUE])
  \/ /\ Tip.registry # None /\ Tip.registry.abandoned # None
     /\ Push([Tip EXCEPT !.registry = [@ EXCEPT !.abandoned = None], !.other = FALSE])
  \/ Push([Tip EXCEPT !.wf = 1 - @, !.other = FALSE])
  \/ Push([Tip EXCEPT !.other = TRUE])

\* The closure run is dispatched by hand on the tip of main; one success per
\* tip is enough, a later one differs in its time only.
DispatchClosure ==
  LET g == Tip.reg  tip == Len(main)  pub == FirstAddition(main) IN
  /\ ~ \E r \in runs : r.mode = "CLOSURE" /\ r.head = tip
  /\ g # None /\ pub # None /\ pub # g.impl
  /\ ClosureStructure(main, g, pub, tip)
  /\ now >= To(g)
  /\ \E a \in IF Tip.registry.abandoned = None THEN {None} ELSE runs :
       /\ a # None => AbandonmentMatches(a, main, g, pub, tip)
       /\ runs' = runs \cup {[mode |-> "CLOSURE", head |-> tip, at |-> now, reg |-> g, pub |-> pub,
                              registry |-> Tip.registry, abandonment |-> a,
                              history |-> RelevantPathHistory(main, pub, tip)]}
  /\ UNCHANGED <<now, main, pushedAt, verified, reports>>

\* The operator compares the run with the public history: no later commit
\* touches either path at that time.
VerifyClosure ==
  \E c \in {r \in runs : r.mode = "CLOSURE"} :
    /\ RelevantPathHistory(main, c.pub, Len(main)) = c.history
    /\ verified' = verified \cup {c}
    /\ UNCHANGED <<now, main, pushedAt, runs, reports>>

\* The evaluator runs from the exact implementation checkout.
PublicationInCheckout(checkout, g, pub) ==
  checkout = g.impl /\ PublicationStructure(main, g, pub)

ClosureInCheckout(checkout, g, pub, tip) ==
  checkout = g.impl /\ ClosureStructure(main, g, pub, tip)

\* validateProspectiveShadowCommitment, on the bytes of the publication commit.
InitialCommitment(p, checkout) ==
  /\ p.mode = "REGISTERED_PUBLICATION"
  /\ p.head = p.pub /\ p.reg = main[p.pub].reg
  /\ EnoughLead(p.at, p.reg)
  /\ PublicationInCheckout(checkout, p.reg, p.pub)

\* validateProspectiveShadowClosureCommitment.
ClosureCommitment(c, p, checkout) ==
  /\ c.pub = p.pub /\ c.reg = p.reg
  /\ c.at >= To(p.reg)
  /\ ClosureInCheckout(checkout, p.reg, c.pub, c.head)
  /\ main[c.head].registry = c.registry
  /\ RelevantPathHistory(main, c.pub, c.head) = c.history
  /\ (c.registry.abandoned = None) = (c.abandonment = None)
  /\ c.abandonment # None => AbandonmentMatches(c.abandonment, main, p.reg, c.pub, c.head)

\* Only an active closure at or after the window yields a FINAL result.
FinalPhase(c, p, asOf) ==
  asOf >= To(p.reg) /\ c.registry.abandoned = None

\* A final evaluation; asOf is the caller's and only has to be past the window.
Evaluate ==
  \E p \in runs, c \in verified, asOf \in {0, MaxTime}, checkout \in 1..Len(main) :
    /\ InitialCommitment(p, checkout)
    /\ ClosureCommitment(c, p, checkout)
    /\ FinalPhase(c, p, asOf)
    /\ ~ \E f \in reports : f.pub = p.pub /\ f.tip = c.head   \* the report directory is published once
    /\ reports' = reports \cup {[reg |-> p.reg, pub |-> p.pub, tip |-> c.head, at |-> now]}
    /\ UNCHANGED <<now, main, pushedAt, runs, verified>>

Next == \/ Tick \/ PushRegistration \/ PushAbandonment \/ PushOther
        \/ DispatchClosure \/ VerifyClosure \/ Evaluate

Spec == Init /\ [][Next]_vars

----------------------------------------------------------------------------

Registrations == [at : Clocks, impl : 1..MaxCommits]

TypeOK ==
  /\ now \in 0..MaxTime
  /\ Len(main) \in 1..MaxCommits /\ Len(pushedAt) = Len(main)
  /\ \A i \in 1..Len(main) :
       /\ main[i].reg \in Registrations \cup {None}
       /\ main[i].registry = None \/ main[i].registry.reg \in Registrations
  /\ \A r \in runs : r.at <= now /\ r.head <= Len(main) /\ r.pub \in 2..r.head
  /\ verified \subseteq runs

\* A FINAL report is prospective: its registration was public 48 hours before
\* its window opened, whatever the registering clock said, has stayed the same
\* on every public commit since, up to a closure after the window's end (the commitment and closure validators with the workflow).
FinalIsProspective ==
  \A f \in reports :
    /\ pushedAt[f.pub] + MinLead <= From(f.reg)
    /\ f.at >= To(f.reg)
    /\ \A i \in f.pub..f.tip : main[i].reg = f.reg

\* One experiment, one result: no re-registration, however the artefacts are
\* removed and published again, yields a FINAL report of its own
\* (the workflow's choice of the publication, validateRelevantPathHistory).
OneRegistrationFinal ==
  \A f, h \in reports : f.reg = h.reg /\ f.pub = h.pub

\* A publicly recorded abandonment excludes every FINAL report, even when the
\* registry is later put back (validateProspectiveShadowClosureStructure).
AbandonedNeverFinal ==
  \A f \in reports : ~ \E a \in runs : a.mode = "ABANDONED" /\ a.pub = f.pub

=============================================================================
