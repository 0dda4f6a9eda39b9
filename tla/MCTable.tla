------------------------------ MODULE MCTable -------------------------------
(* Instance of Table for the model checker. *)
EXTENDS Table

(* The stamps a disciplined client makes (counter * 1000 + client id) for  *)
(* two clients, and one large enough to reach the guard of table_update.   *)
MCStamp == {1001, 2002, 3001, 2002000}

(* Two of them only, where the runs need depth rather than stamps. *)
MCFewStamps == {1001, 1001000}

=============================================================================
