------------------------- MODULE MCOrderSubmission -------------------------
(* Model-checking instances of OrderSubmission. *)
EXTENDS OrderSubmission, TLC

\* Every call has a decision of its own, or several may share one.
OwnDecisions == {f \in [Task -> Key] : \A s, t \in Task : f[s] = f[t] => s = t}
AnyDecisions == [Task -> Key]

\* Tasks and keys are interchangeable; a lone reconciler has nothing to permute.
OrderSymmetry == Permutations(Task) \cup Permutations(Key)
=============================================================================
