---------------------------- MODULE MCHashTable -----------------------------
(* Instance of HashTable: four keys in two chains, so that each chain has  *)
(* a key to put before and after another.                                  *)
EXTENDS HashTable

MCHash == [k \in 1 .. 4 |-> k % 2]

(* The second stamp, divided by 1000, is as large as the first: it refuses *)
(* updates with either.                                                    *)
MCFewStamps == {1001, 1001000}

=============================================================================
