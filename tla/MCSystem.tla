------------------------------ MODULE MCSystem ------------------------------
(* Instances of System for TLC. *)
EXTENDS System, TLC

\* The processes of one kind are interchangeable; a gateway keeps its poll.
Processes == Permutations(Messages) \cup Permutations(Gateways)
             \cup Permutations(Operators) \cup Permutations(Sweepers)
=============================================================================
