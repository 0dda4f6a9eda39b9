--------------------------- MODULE MCQuorumAccess ---------------------------
(* Instance of QuorumAccess for the model checker: the number of servers   *)
(* gives the quorum size the way ceil2 computes it.                        *)
EXTENDS QuorumAccess

UntilFailure ==
  /\ ~ failed
  /\ Len(mainQueue) <= 2
  /\ \A s \in Server : Len(queue[s]) <= 1
  /\ Cardinality({s \in Server : worker[s].at # "idle"}) <= 2
=============================================================================
