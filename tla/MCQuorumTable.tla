---------------------------- MODULE MCQuorumTable ----------------------------
(* Instance of QuorumTable for the model checker. *)
EXTENDS QuorumTable

(* What IncrementTs makes for two clients. *)
MCStamp == {n * 1000 + c : n \in 1 .. MaxEvents, c \in Client}

Symmetry == Permutations(Server)

=============================================================================
