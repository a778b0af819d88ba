------------------------- MODULE OperatorStateProofs -------------------------
(***************************************************************************)
(* The kill switch, the degraded flag and automatic pauses survive every   *)
(* interleaving of commands that write back a state they read earlier, of  *)
(* faults that are paused for in between, and of crashes.                  *)
(***************************************************************************)
EXTENDS OperatorState, TLAPS

\* What every command must find in the state it read, and must leave behind.
Guarded(s) ==
  /\ s.kill => s.status = "KILL_SWITCHED"
  /\ s.degraded => s.status # "RUNNING"

\* A command between its read and its write may have read a status that is no
\* longer current, but never a kill switch that is not; a startup policy, which no
\* fault handler runs beside, has read the current state.
ReadStillHolds ==
  cmd # NoCommand =>
    /\ cmd.name \in OperatorCommands \cup StartupCommands
    /\ Guarded(cmd.read) /\ cmd.read.kill = state.kill
    /\ cmd.name \in StartupCommands => phase = "startup" /\ cmd.read = state

\* No fault handler of an earlier process is left when a process starts.
StartsWithoutFaults == phase = "startup" => \A f \in Fault : fault[f].step # "occurred"

OperatorInv == TypeOK /\ Guarded(state) /\ ReadStillHolds /\ StartsWithoutFaults

-----------------------------------------------------------------------------

\* Times lie on the clock.
LEMMA ClockType ==
  ASSUME OperatorConstants
  PROVE  /\ 0 .. MaxTime \subseteq 0 .. Never /\ Never \in 0 .. Never
         /\ 0 \in 0 .. MaxTime /\ 0 \in 0 .. MaxCommands /\ 0 \in 0 .. MaxCrashes
         /\ Initial \in State /\ NoCommand \in Command
BY DEF OperatorConstants, Never, Initial, State, Statuses, NoCommand, Command

\* What a command writes is well typed and guarded if what it read was; no command
\* turns the kill switch off, and only /resume and clearing lead to RUNNING.
LEMMA ApplyGuarded ==
  ASSUME NEW name \in OperatorCommands \cup StartupCommands, NEW s \in State, Guarded(s),
         NEW t \in 0 .. MaxTime
  PROVE  /\ [Apply(name, s) EXCEPT !.at = t] \in State
         /\ Guarded([Apply(name, s) EXCEPT !.at = t])
         /\ s.kill => [Apply(name, s) EXCEPT !.at = t].kill
         /\ [Apply(name, s) EXCEPT !.at = t].status = "RUNNING" =>
              name = "/resume" \/ (name = "CLEAR_DEGRADED" /\ s.status # "PAUSED")
<1>1. CASE name \in {"/pause", "STARTUP_PAUSE"}
  BY <1>1 DEF Apply, State, Statuses, Guarded
<1>2. CASE name = "/resume"
  <2>1. Apply(name, s) = [s EXCEPT !.status = ResumedStatus(s), !.by = "nobody"]
    BY <1>2 DEF Apply, Resumed
  <2>2. /\ ResumedStatus(s) \in Statuses
        /\ s.kill => ResumedStatus(s) = "KILL_SWITCHED"
        /\ s.degraded => ResumedStatus(s) # "RUNNING"
    BY DEF ResumedStatus, Statuses, State, Guarded
  <2>3. QED
    BY <1>2, <2>1, <2>2 DEF State, Guarded
<1>3. CASE name = "/killswitch"
  BY <1>3 DEF Apply, State, Statuses, Guarded
<1>4. CASE name = "MARK_DEGRADED"
  BY <1>4 DEF Apply, DegradedStatus, State, Statuses, Guarded
<1>5. CASE name = "CLEAR_DEGRADED"
  BY <1>5 DEF Apply, ClearedStatus, State, Statuses, Guarded
<1>6. QED
  BY <1>1, <1>2, <1>3, <1>4, <1>5 DEF OperatorCommands, StartupCommands

\* An automatic pause leaves a guarded, stopped state and the kill switch alone.
LEMMA PausedGuarded ==
  ASSUME NEW s \in State, Guarded(s), NEW t \in 0 .. MaxTime
  PROVE  /\ [PausedByFault(s) EXCEPT !.at = t] \in State
         /\ Guarded([PausedByFault(s) EXCEPT !.at = t])
         /\ [PausedByFault(s) EXCEPT !.at = t].kill = s.kill
         /\ [PausedByFault(s) EXCEPT !.at = t].status # "RUNNING"
BY DEF PausedByFault, State, Statuses, Guarded

\* Before the first start nothing is paused.
LEMMA OperatorInit ==
  ASSUME OperatorConstants
  PROVE  Init => OperatorInv
BY ClockType DEF Init, OperatorInv, TypeOK, Initial, State, Statuses, Guarded, ReadStillHolds,
   StartsWithoutFaults, Handler, NoCommand, Command

\* The write of a command, whether or not its transition is logged after it.
Written(s) == cmd # NoCommand /\ s = [Apply(cmd.name, cmd.read) EXCEPT !.at = now]

\* How the state can change: by a pending command's write or by an automatic pause.
StateStep ==
  \/ UNCHANGED state
  \/ Written(state')
  \/ /\ phase = "running" /\ UNCHANGED <<cmd, phase>>
     /\ \E t \in 0 .. MaxTime : state' = [PausedByFault(state) EXCEPT !.at = t]

\* An accepted pause has a time on the clock.
LEMMA OccurredAtType ==
  ASSUME OperatorConstants, TypeOK, NEW f \in Fault, ~PauseLogged(f)
  PROVE  OccurredAt(f) \in 0 .. MaxTime
BY DEF OccurredAt, TypeOK, State, Handler

\* The state is written by a pending command or by a pause, and by nothing else.
LEMMA StateSteps ==
  ASSUME OperatorConstants, OperatorInv, Next
  PROVE  StateStep
<1>t. TypeOK /\ StartsWithoutFaults
  BY DEF OperatorInv
<1>1. CASE WriteCommand \/ CrashBetweenWrites
  BY <1>1 DEF WriteCommand, CrashBetweenWrites, StateStep, Written
<1>2. ASSUME NEW f \in Fault, PauseForFault(f) PROVE StateStep
  <2>1. phase = "running" /\ UNCHANGED <<cmd, phase>>
    BY <1>t, <1>2 DEF PauseForFault, StartsWithoutFaults, TypeOK
  <2>2. CASE Accepts(f) /\ ~PauseLogged(f)
    BY <1>t, <1>2, <2>1, <2>2, OccurredAtType DEF PauseForFault, StateStep
  <2>3. CASE ~(Accepts(f) /\ ~PauseLogged(f))
    BY <1>2, <2>3 DEF PauseForFault, StateStep
  <2>4. QED
    BY <2>2, <2>3
<1>3. ASSUME NEW f \in Fault, PersistProjectionFault(f) PROVE StateStep
  <2>1. phase = "running" /\ UNCHANGED <<cmd, phase>>
    BY <1>t, <1>3 DEF PersistProjectionFault, StartsWithoutFaults, TypeOK
  <2>2. state.at \in 0 .. MaxTime /\ fault[f].at \in 0 .. MaxTime
    BY <1>t DEF TypeOK, State, Handler
  <2>3. QED
    BY <1>3, <2>1, <2>2 DEF PersistProjectionFault, StateStep
<1>4. QED
  BY <1>1, <1>2, <1>3 DEF Next, StateStep, ReadForCommand, ReadForStartup,
     StartupRecoverySkipped, FaultOccurs, Crash, Tick

\* What a step writes is guarded, keeps the kill switch and stays well typed.
LEMMA StateStepGuarded ==
  ASSUME OperatorInv, StateStep
  PROVE  /\ state' \in State /\ Guarded(state)'
         /\ state.kill => state'.kill
<1>t. /\ TypeOK /\ Guarded(state) /\ ReadStillHolds /\ state \in State
      /\ now \in 0 .. MaxTime
  BY DEF OperatorInv, TypeOK
<1>1. CASE UNCHANGED state
  BY <1>t, <1>1 DEF Guarded
<1>2. CASE Written(state')
  <2>1. /\ cmd.name \in OperatorCommands \cup StartupCommands /\ Guarded(cmd.read)
        /\ cmd.read.kill = state.kill /\ cmd.read \in State
        /\ state' = [Apply(cmd.name, cmd.read) EXCEPT !.at = now]
    BY <1>t, <1>2 DEF Written, ReadStillHolds, TypeOK, Command
  <2>2. QED
    BY <1>t, <2>1, ApplyGuarded
<1>3. CASE \E t \in 0 .. MaxTime : state' = [PausedByFault(state) EXCEPT !.at = t]
  BY <1>t, <1>3, PausedGuarded
<1>4. QED
  BY <1>1, <1>2, <1>3 DEF StateStep

\* Every step leaves the whole state well typed.
LEMMA OperatorTypeStep ==
  ASSUME OperatorConstants, OperatorInv, Next
  PROVE  TypeOK'
<1>t. TypeOK /\ state' \in State /\ Statuses = {"RUNNING", "PAUSED", "DEGRADED", "KILL_SWITCHED"}
  BY StateSteps, StateStepGuarded DEF OperatorInv, Statuses
<1>s. state'.status \in Statuses
  BY <1>t DEF State
<1> USE DEF TypeOK
<1>1. CASE \E c \in OperatorCommands : ReadForCommand(c)
  BY <1>1, <1>t DEF ReadForCommand, Command, OperatorConstants
<1>2. CASE \E c \in StartupCommands : ReadForStartup(c)
  BY <1>2, <1>t DEF ReadForStartup, Command
<1>3. CASE WriteCommand
  BY <1>3, <1>t, <1>s, ClockType DEF WriteCommand
<1>4. CASE StartupRecoverySkipped \/ Tick
  BY <1>4, <1>t DEF StartupRecoverySkipped, Tick, OperatorConstants
<1>5. ASSUME NEW f \in Fault, FaultOccurs(f) PROVE TypeOK'
  BY <1>5, <1>t DEF FaultOccurs, Handler
<1>6. ASSUME NEW f \in Fault, PauseForFault(f) PROVE TypeOK'
  <2>1. fault' \in [Fault -> Handler]
    BY <1>6, <1>t DEF PauseForFault, Handler
  <2>2. pauses' \in [Fault -> 0 .. Never]
    BY <1>6, <1>t, ClockType, OccurredAtType DEF PauseForFault
  <2>3. logged' \in Statuses
    BY <1>6, <1>t, <1>s DEF PauseForFault
  <2>4. QED
    BY <1>6, <1>t, <2>1, <2>2, <2>3 DEF PauseForFault
<1>7. ASSUME NEW f \in Fault, PersistProjectionFault(f) PROVE TypeOK'
  <2>1. fault' \in [Fault -> Handler]
    BY <1>7, <1>t DEF PersistProjectionFault, Handler
  <2>2. state.at \in 0 .. MaxTime /\ fault[f].at \in 0 .. MaxTime
    BY <1>t DEF State, Handler
  <2>3. pauses' \in [Fault -> 0 .. Never]
    BY <1>7, <1>t, <2>2, ClockType DEF PersistProjectionFault
  <2>4. logged' \in Statuses
    BY <1>7, <1>t, <1>s DEF PersistProjectionFault
  <2>5. QED
    BY <1>7, <1>t, <2>1, <2>3, <2>4 DEF PersistProjectionFault
<1>8. CASE Crash \/ CrashBetweenWrites
  <2>1. Restart /\ UNCHANGED <<logged, pauses, now, commands>>
    BY <1>8 DEF Crash, CrashBetweenWrites
  <2>2. fault' \in [Fault -> Handler]
    BY <1>t, <2>1 DEF Restart, Handler
  <2>3. QED
    BY <1>t, <2>1, <2>2, ClockType DEF Restart, OperatorConstants
<1>9. QED
  BY <1>1, <1>2, <1>3, <1>4, <1>5, <1>6, <1>7, <1>8 DEF Next

\* The invariant holds after every step if it held before.
LEMMA OperatorStep ==
  ASSUME OperatorConstants
  PROVE  OperatorInv /\ [Next]_vars => OperatorInv'
<1> SUFFICES ASSUME OperatorInv, [Next]_vars PROVE OperatorInv'
  OBVIOUS
<1>t. TypeOK /\ Guarded(state) /\ ReadStillHolds /\ StartsWithoutFaults
  BY DEF OperatorInv
<1>1. CASE UNCHANGED vars
  BY <1>1, <1>t DEF vars, OperatorInv, TypeOK, Guarded, ReadStillHolds, StartsWithoutFaults
<1>2. CASE Next
  <2>1. TypeOK' /\ Guarded(state)'
    BY <1>2, StateSteps, StateStepGuarded, OperatorTypeStep
  <2>2. StartsWithoutFaults'
    <3>1. CASE Crash \/ CrashBetweenWrites
      BY <3>1, <1>t DEF Crash, CrashBetweenWrites, Restart, StartsWithoutFaults, TypeOK, Handler
    <3>2. ASSUME NEW f \in Fault, FaultOccurs(f) PROVE StartsWithoutFaults'
      BY <3>2 DEF FaultOccurs, StartsWithoutFaults
    <3>3. ASSUME NEW f \in Fault, PauseForFault(f) \/ PersistProjectionFault(f)
          PROVE  StartsWithoutFaults'
      BY <3>3, <1>t DEF PauseForFault, PersistProjectionFault, StartsWithoutFaults, TypeOK, Handler
    <3>4. CASE WriteCommand \/ StartupRecoverySkipped
      BY <3>4, <1>t DEF WriteCommand, StartupRecoverySkipped, StartsWithoutFaults
    <3>5. QED
      BY <1>2, <1>t, <3>1, <3>2, <3>3, <3>4
         DEF Next, StartsWithoutFaults, ReadForCommand, ReadForStartup, Tick
  <2>3. ReadStillHolds'
    <3>1. ASSUME NEW c \in OperatorCommands, ReadForCommand(c) PROVE ReadStillHolds'
      BY <3>1, <1>t DEF ReadForCommand, ReadStillHolds, Guarded, OperatorCommands, StartupCommands
    <3>2. ASSUME NEW c \in StartupCommands, ReadForStartup(c) PROVE ReadStillHolds'
      BY <3>2, <1>t DEF ReadForStartup, ReadStillHolds, Guarded
    <3>3. CASE WriteCommand \/ Crash \/ CrashBetweenWrites
      BY <3>3 DEF WriteCommand, Crash, CrashBetweenWrites, Restart, ReadStillHolds
    <3>4. CASE StartupRecoverySkipped \/ Tick
      BY <3>4, <1>t DEF StartupRecoverySkipped, Tick, ReadStillHolds, Guarded
    <3>5. ASSUME NEW f \in Fault, FaultOccurs(f) PROVE ReadStillHolds'
      BY <3>5, <1>t DEF FaultOccurs, ReadStillHolds, Guarded
    <3>6. ASSUME NEW f \in Fault, PauseForFault(f) \/ PersistProjectionFault(f)
          PROVE  ReadStillHolds'
      <4>1. phase = "running" /\ UNCHANGED <<cmd, phase>>
        BY <1>t, <3>6 DEF PauseForFault, PersistProjectionFault, StartsWithoutFaults, TypeOK
      <4>2. state' = state \/ \E t \in 0 .. MaxTime : state' = [PausedByFault(state) EXCEPT !.at = t]
        <5>1. state.at \in 0 .. MaxTime /\ fault[f].at \in 0 .. MaxTime
          BY <1>t DEF TypeOK, State, Handler
        <5>2. QED
          BY <1>t, <3>6, <5>1, OccurredAtType DEF PauseForFault, PersistProjectionFault
      <4>3. state'.kill = state.kill
        BY <1>t, <4>2, PausedGuarded DEF TypeOK
      <4>4. QED
        BY <1>t, <4>1, <4>3 DEF ReadStillHolds, Guarded
    <3>7. QED
      BY <1>2, <3>1, <3>2, <3>3, <3>4, <3>5, <3>6 DEF Next
  <2>4. QED
    BY <2>1, <2>2, <2>3 DEF OperatorInv
<1>3. QED
  BY <1>1, <1>2

-----------------------------------------------------------------------------

\* What the invariant says of every state.
LEMMA OperatorConsequences ==
  ASSUME OperatorInv
  PROVE  TypeOK /\ KillSwitchDominates /\ DegradedNeverRuns
BY DEF OperatorInv, Guarded, KillSwitchDominates, DegradedNeverRuns

\* What it says of every step: who may lift the kill switch or a pause.
LEMMA OperatorStepConsequences ==
  ASSUME OperatorConstants, OperatorInv, [Next]_vars
  PROVE  KillSwitchLatched /\ OnlyResumeLiftsFaultPause
<1>1. KillSwitchLatched
  BY StateSteps, StateStepGuarded DEF KillSwitchLatched, vars
<1>2. CASE UNCHANGED vars
  BY <1>1, <1>2 DEF vars, OnlyResumeLiftsFaultPause
<1>3. ASSUME Next PROVE OnlyResumeLiftsFaultPause
  <2> SUFFICES ASSUME state.status = "PAUSED", state'.status = "RUNNING"
               PROVE  cmd.name = "/resume"
    BY DEF OnlyResumeLiftsFaultPause
  <2>t. /\ TypeOK /\ Guarded(state) /\ ReadStillHolds /\ state \in State
        /\ now \in 0 .. MaxTime
    BY DEF OperatorInv, TypeOK
  <2>1. Written(state')
    BY <1>3, <2>t, StateSteps, PausedGuarded DEF StateStep
  <2>2. /\ cmd.name \in OperatorCommands \cup StartupCommands /\ Guarded(cmd.read)
        /\ cmd.name \in StartupCommands => cmd.read = state
        /\ cmd.read \in State
        /\ state' = [Apply(cmd.name, cmd.read) EXCEPT !.at = now]
    BY <2>t, <2>1 DEF Written, ReadStillHolds, TypeOK, Command
  <2>3. cmd.name = "/resume" \/ (cmd.name = "CLEAR_DEGRADED" /\ cmd.read.status # "PAUSED")
    BY <2>t, <2>2, ApplyGuarded
  <2>4. QED
    BY <2>2, <2>3 DEF StartupCommands
<1>4. QED
  BY <1>1, <1>2, <1>3

\* In every state the row is guarded, and what a pending command has read still
\* binds it.
THEOREM OperatorInvariant ==
  ASSUME OperatorConstants
  PROVE  Spec => []OperatorInv
<1>1. Init => OperatorInv
  BY OperatorInit
<1>2. OperatorInv /\ [Next]_vars => OperatorInv'
  BY OperatorStep
<1>3. QED
  BY <1>1, <1>2, PTL DEF Spec

\* The kill switch outranks every other status, and a degraded portfolio never
\* runs, whatever state a command read before it wrote.
THEOREM StopsOutrank ==
  ASSUME OperatorConstants
  PROVE  Spec => [](TypeOK /\ KillSwitchDominates /\ DegradedNeverRuns)
<1>1. OperatorInv => TypeOK /\ KillSwitchDominates /\ DegradedNeverRuns
  BY OperatorConsequences
<1>2. QED
  BY <1>1, OperatorInvariant, PTL

\* Nothing in the program turns the kill switch off: no stale write of a command or
\* of the startup policy, no automatic pause, no crash between two writes.
THEOREM KillSwitchIsLatched ==
  ASSUME OperatorConstants
  PROVE  Spec => [][KillSwitchLatched]_vars
<1>1. OperatorInv /\ [Next]_vars => [KillSwitchLatched]_vars
  BY OperatorStepConsequences
<1>2. QED
  BY <1>1, OperatorInvariant, PTL DEF Spec

\* Only the operator's /resume takes the state from an automatic pause to RUNNING:
\* a clean startup read the pause itself, and no other command writes RUNNING.
THEOREM FaultPauseNeedsResume ==
  ASSUME OperatorConstants
  PROVE  Spec => [][OnlyResumeLiftsFaultPause]_vars
<1>1. OperatorInv /\ [Next]_vars => [OnlyResumeLiftsFaultPause]_vars
  BY OperatorStepConsequences
<1>2. QED
  BY <1>1, OperatorInvariant, PTL DEF Spec

=============================================================================
