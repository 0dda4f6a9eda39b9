------------------------- MODULE MCPersistentTable --------------------------
(* Instance of PersistentTable for the model checker. *)
EXTENDS PersistentTable

MCStamp == {1001, 2001}
=============================================================================
