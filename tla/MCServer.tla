------------------------------ MODULE MCServer ------------------------------
(* Instances of Server for TLC. *)
EXTENDS Server, TLC

\* The handlers of one kind are interchangeable, and so are the messages; used
\* by the runs that check no liveness.
Handlers == Permutations(Messages) \cup Permutations(Reporters)
            \cup Permutations(Operators) \cup Permutations(Pollers)
            \cup Permutations(Sweepers)
=============================================================================
