----------------------------- MODULE OperatorState -----------------------------
(***************************************************************************)
(* The persisted execution_state and its transition log: the operator's    *)
(* commands, which read the state, await, and write it back whole; the     *)
(* startup policy on portfolio drift, which does the same; and automatic   *)
(* fault pauses, which are one transaction each and are deduplicated by    *)
(* the fault's id in the log.                                              *)
(*                                                                         *)
(* Telegram updates are handled one after the other, and polling begins    *)
(* when startup has finished (Polling), so one command is between its read *)
(* and its write at a time. Faults arise in order submissions, whose time  *)
(* of occurrence is taken before other awaits, and in the candidate        *)
(* recovery, which moves the time forward to the state's own.              *)
(*                                                                         *)
(* The operators named Wrong... are mistakes this code could contain; no   *)
(* definition uses them. Each makes one of the properties below fail.      *)
(***************************************************************************)
EXTENDS Naturals

CONSTANTS SubmissionFault, RecoveryFault, ProjectionFault,  \* fault ids by origin
          MaxTime,      \* bound: the clock
          MaxCommands,  \* bound: operator commands
          MaxCrashes    \* bound: crashes

OperatorConstants == {MaxTime, MaxCommands, MaxCrashes} \subseteq Nat

Fault == SubmissionFault \cup RecoveryFault \cup ProjectionFault

VARIABLES
  state,    \* the row of execution_state
  logged,   \* status the last row of execution_state_transitions says
  pauses,   \* when each fault's AUTOMATIC_PAUSE was logged, Never if it was not
  now,      \* the clock
  phase,    \* startup or running
  cmd,      \* the command or policy between its read and its write
  fault,    \* each fault: what its handler is about to do, and its time of occurrence
  commands, crashes

vars == <<state, logged, pauses, now, phase, cmd, fault, commands, crashes>>

Never == MaxTime + 1
Statuses == {"RUNNING", "PAUSED", "DEGRADED", "KILL_SWITCHED"}
State == [status : Statuses, kill : BOOLEAN, degraded : BOOLEAN,
          by : {"nobody", "operator", "fault"}, at : 0 .. MaxTime]
Initial == [status |-> "RUNNING", kill |-> FALSE, degraded |-> FALSE, by |-> "nobody",
            at |-> 0]
OperatorCommands == {"/pause", "/resume", "/killswitch"}
StartupCommands == {"MARK_DEGRADED", "CLEAR_DEGRADED", "STARTUP_PAUSE"}
NoCommand == [name |-> "none", read |-> Initial]
Command == [name : OperatorCommands \cup StartupCommands \cup {"none"}, read : State]
Handler == [at : 0 .. MaxTime, step : {"none", "occurred", "paused", "refused"}]

TypeOK ==
  /\ state \in State
  /\ logged \in Statuses
  /\ pauses \in [Fault -> 0 .. Never]
  /\ now \in 0 .. MaxTime
  /\ phase \in {"startup", "running"}
  /\ cmd \in Command
  /\ fault \in [Fault -> Handler]
  /\ commands \in 0 .. MaxCommands /\ crashes \in 0 .. MaxCrashes

Init ==
  /\ state = Initial
  /\ logged = "RUNNING"
  /\ pauses = [f \in Fault |-> Never]
  /\ now = 0
  /\ phase = "startup"
  /\ cmd = NoCommand
  /\ fault = [f \in Fault |-> [at |-> 0, step |-> "none"]]
  /\ commands = 0 /\ crashes = 0

-----------------------------------------------------------------------------
(***************************************************************************)
(* What each command makes of the state it has read                        *)
(***************************************************************************)

\* Resuming looks at the kill switch only.
WrongResumedStatus(s) == IF s.kill THEN "KILL_SWITCHED" ELSE "RUNNING"

\* resolveResumedSystemStatus
ResumedStatus(s) == IF s.kill THEN "KILL_SWITCHED"
                    ELSE IF s.degraded THEN "DEGRADED"
                    ELSE "RUNNING"

\* resolveSystemStatusForDegradation
DegradedStatus(s) == IF s.kill \/ s.status = "KILL_SWITCHED" THEN "KILL_SWITCHED"
                     ELSE IF s.status = "PAUSED" THEN "PAUSED"
                     ELSE "DEGRADED"

\* clearDegraded
ClearedStatus(s) == IF s.status = "DEGRADED" THEN "RUNNING" ELSE s.status

\* resume
Resumed(s) == [s EXCEPT !.status = ResumedStatus(s), !.by = "nobody"]

\* pause, resume, activateKillSwitch, markDegraded, clearDegraded
Apply(name, s) ==
  CASE name \in {"/pause", "STARTUP_PAUSE"}
         -> [s EXCEPT !.status = IF s.kill THEN "KILL_SWITCHED" ELSE "PAUSED",
                      !.by = "operator"]
    [] name = "/resume" -> Resumed(s)
    [] name = "/killswitch" -> [s EXCEPT !.status = "KILL_SWITCHED", !.kill = TRUE,
                                         !.by = "operator"]
    [] name = "MARK_DEGRADED" -> [s EXCEPT !.status = DegradedStatus(s), !.degraded = TRUE]
    [] name = "CLEAR_DEGRADED" -> [s EXCEPT !.status = ClearedStatus(s), !.degraded = FALSE]

-----------------------------------------------------------------------------
(***************************************************************************)
(* Commands: read, await, write                                            *)
(***************************************************************************)

\* index.ts starts polling after the startup policy was applied.
Polling == phase = "running"

\* applyControlCommand, up to the await of getState.
ReadForCommand(c) ==
  /\ Polling /\ cmd = NoCommand /\ commands < MaxCommands
  /\ commands' = commands + 1
  /\ cmd' = [name |-> c, read |-> state]
  /\ UNCHANGED <<state, logged, pauses, now, phase, fault, crashes>>

\* runStartupRecovery and applyStartupRecoveryPolicy, or a startup authority check
\* that fails: drift degrades, a clean comparison with a baseline clears, a
\* failed or skipped recovery does nothing.
ReadForStartup(c) ==
  /\ phase = "startup" /\ cmd = NoCommand
  /\ cmd' = [name |-> c, read |-> state]
  /\ UNCHANGED <<state, logged, pauses, now, phase, fault, commands, crashes>>

\* updateState: the row as it was read, changed, is written over the current one;
\* then the transition is logged. A failed startup authority ends the process.
WriteCommand ==
  /\ cmd # NoCommand
  /\ state' = [Apply(cmd.name, cmd.read) EXCEPT !.at = now]
  /\ logged' = state'.status
  /\ cmd' = NoCommand
  /\ phase' = IF cmd.name \in StartupCommands \ {"STARTUP_PAUSE"} THEN "running" ELSE phase
  /\ UNCHANGED <<pauses, now, fault, commands, crashes>>

StartupRecoverySkipped ==
  /\ phase = "startup" /\ cmd = NoCommand
  /\ phase' = "running"
  /\ UNCHANGED <<state, logged, pauses, now, cmd, fault, commands, crashes>>

-----------------------------------------------------------------------------
(***************************************************************************)
(* Automatic pauses                                                        *)
(***************************************************************************)

FaultOccurs(f) ==
  /\ phase = "running" /\ fault[f].step # "occurred"
  /\ fault' = [fault EXCEPT ![f] = [at |-> now, step |-> "occurred"]]
  /\ UNCHANGED <<state, logged, pauses, now, phase, cmd, commands, crashes>>

\* The kill switch outranks a pause.
PausedByFault(s) == IF s.kill \/ s.status = "KILL_SWITCHED"
                    THEN [s EXCEPT !.status = "KILL_SWITCHED"]
                    ELSE [s EXCEPT !.status = "PAUSED", !.by = "fault"]

Stopped(s) == s.status \in {"PAUSED", "KILL_SWITCHED"}
PauseLogged(f) == pauses[f] # Never

\* When the fault is said to have occurred: the candidate recovery reads the
\* logged pause, or the state, and never dates a fault before it.
OccurredAt(f) ==
  IF f \in SubmissionFault \cup ProjectionFault THEN fault[f].at
  ELSE IF PauseLogged(f) THEN pauses[f]
  ELSE IF state.at > fault[f].at THEN state.at ELSE fault[f].at

\* pauseForFault as one transaction: the same pause again is accepted while it
\* still holds; a fault dated before the current state is refused.
Accepts(f) ==
  IF PauseLogged(f)
  THEN /\ pauses[f] = OccurredAt(f) /\ Stopped(state)
  ELSE OccurredAt(f) >= state.at

PauseForFault(f) ==
  /\ f \notin ProjectionFault /\ fault[f].step = "occurred"
  /\ fault' = [fault EXCEPT ![f].step = IF Accepts(f) THEN "paused" ELSE "refused"]
  /\ IF Accepts(f) /\ ~PauseLogged(f)
     THEN /\ state' = [PausedByFault(state) EXCEPT !.at = OccurredAt(f)]
          /\ logged' = state'.status
          /\ pauses' = [pauses EXCEPT ![f] = OccurredAt(f)]
     ELSE UNCHANGED <<state, logged, pauses>>
  /\ UNCHANGED <<now, phase, cmd, commands, crashes>>

\* persistCandidateProjectionFault: the pause is repeated when its log row exists;
\* its transitionAt was derived from the state read before.
PersistProjectionFault(f) ==
  /\ f \in ProjectionFault /\ fault[f].step = "occurred"
  /\ fault' = [fault EXCEPT ![f].step = "paused"]
  /\ LET at == IF PauseLogged(f) \/ state.at > fault[f].at THEN state.at ELSE fault[f].at IN
     /\ state' = [PausedByFault(state) EXCEPT !.at = at]
     /\ pauses' = IF PauseLogged(f) THEN pauses ELSE [pauses EXCEPT ![f] = at]
  /\ logged' = IF PauseLogged(f) THEN logged ELSE state'.status
  /\ UNCHANGED <<now, phase, cmd, commands, crashes>>

-----------------------------------------------------------------------------

\* A process that dies takes its unfinished commands and handlers with it.
Restart ==
  /\ phase' = "startup" /\ cmd' = NoCommand
  /\ fault' = [f \in Fault |-> IF fault[f].step = "occurred"
                               THEN [fault[f] EXCEPT !.step = "none"] ELSE fault[f]]
  /\ crashes < MaxCrashes /\ crashes' = crashes + 1

Crash == Restart /\ UNCHANGED <<state, logged, pauses, now, commands>>

\* updateState is two statements without a transaction.
CrashBetweenWrites ==
  /\ cmd # NoCommand
  /\ Restart
  /\ state' = [Apply(cmd.name, cmd.read) EXCEPT !.at = now]
  /\ UNCHANGED <<logged, pauses, now, commands>>

Tick == /\ now < MaxTime /\ now' = now + 1
        /\ UNCHANGED <<state, logged, pauses, phase, cmd, fault, commands, crashes>>

Next ==
  \/ \E c \in OperatorCommands : ReadForCommand(c)
  \/ \E c \in StartupCommands : ReadForStartup(c)
  \/ WriteCommand \/ StartupRecoverySkipped
  \/ \E f \in Fault : FaultOccurs(f) \/ PauseForFault(f) \/ PersistProjectionFault(f)
  \/ Crash \/ CrashBetweenWrites \/ Tick

Spec == Init /\ [][Next]_vars

-----------------------------------------------------------------------------
(***************************************************************************)
(* Properties                                                              *)
(***************************************************************************)

\* The kill switch outranks everything, and nothing in the program turns it off:
\* no stale write of a command or of the startup policy, no automatic pause.
KillSwitchDominates == state.kill => state.status = "KILL_SWITCHED"
KillSwitchLatched == state.kill => state'.kill

\* A degraded portfolio never runs: resume, degradation and clearing agree on it
\* whatever was read before whatever was written.
DegradedNeverRuns == state.degraded => state.status # "RUNNING"

\* An automatic pause ends only by an operator's /resume; a clean startup, another
\* command's stale write or a restart do not lift it.
OnlyResumeLiftsFaultPause ==
  state.status = "PAUSED" /\ state.by = "fault" /\ state'.status = "RUNNING"
    => cmd.name = "/resume"

=============================================================================
