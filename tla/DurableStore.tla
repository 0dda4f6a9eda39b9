---------------------------- MODULE DurableStore ----------------------------
(***************************************************************************)
(* What the files of a server are for, without the files: a store that     *)
(* answers a request once its effect will survive, and that comes back     *)
(* from a crash with everything it had answered for, with or without the   *)
(* effect of the one request it had not answered yet.                      *)
(***************************************************************************)
CONSTANTS
  Keys,     \* the keys
  Values    \* what a key can hold

VARIABLES
  answered,  \* the contents clients have been told of
  current,   \* the contents in memory
  up         \* is the server running?

vars == <<answered, current, up>>

Contents == UNION {[S -> Values] : S \in SUBSET Keys}

Init ==
  /\ answered = [k \in {} |-> k]
  /\ current = answered
  /\ up = TRUE

(* A request changes one key.  The one before it was answered.             *)
Change ==
  /\ up /\ current = answered
  /\ current' \in Contents
  /\ \E k \in Keys :
       \A j \in Keys \ {k} :
         /\ j \in DOMAIN current' <=> j \in DOMAIN current
         /\ j \in DOMAIN current => current'[j] = current[j]
  /\ UNCHANGED <<answered, up>>

Answer ==
  /\ up
  /\ answered' = current
  /\ UNCHANGED <<current, up>>

Die ==
  /\ up
  /\ up' = FALSE
  /\ UNCHANGED <<answered, current>>

Recover ==
  /\ ~ up
  /\ up' = TRUE
  /\ current' \in {answered, current}
  /\ answered' = current'

(* The server shuts itself down and takes its contents with it.            *)
Wipe ==
  /\ up
  /\ up' = FALSE
  /\ answered' = [k \in {} |-> k]
  /\ current' = answered'

Next == Change \/ Answer \/ Die \/ Recover \/ Wipe

Spec == Init /\ [][Next]_vars

=============================================================================
