---------------------------- MODULE ExecutionFence ----------------------------
(***************************************************************************)
(* What runtime ownership promises to the code that talks to the exchange: *)
(* generations are granted one after the other and never reused, and an    *)
(* outbound call starts only under the generation granted last, while its  *)
(* owner has not given it up. A call under way may outlive its generation. *)
(***************************************************************************)
EXTENDS Naturals

CONSTANTS Proc,     \* incarnations of the program
          NoProc    \* nobody

VARIABLES latest,   \* the generation granted last, 0 before the first
          owner,    \* its owner, or NoProc once it was given up
          calls     \* generations with a call some process still waits for

vars == <<latest, owner, calls>>

Init == latest = 0 /\ owner = NoProc /\ calls = {}

Grant(p) == latest' = latest + 1 /\ owner' = p /\ UNCHANGED calls

GiveUp == owner # NoProc /\ owner' = NoProc /\ UNCHANGED <<latest, calls>>

Send == owner # NoProc /\ calls' = calls \cup {latest} /\ UNCHANGED <<latest, owner>>

\* The call is answered, or the process that waits for it is gone.
Forget(g) == g \in calls /\ calls' = calls \ {g} /\ UNCHANGED <<latest, owner>>

Next == \/ \E p \in Proc : Grant(p)
        \/ GiveUp
        \/ Send
        \/ \E g \in calls : Forget(g)

Spec == Init /\ [][Next]_vars

===============================================================================
