------------------------------- MODULE Table --------------------------------
(***************************************************************************)
(* One server's table as a state machine: the requests that table_server   *)
(* hands one at a time to the table, and what each answers.                *)
(***************************************************************************)
EXTENDS TableOps

CONSTANTS
  MaxDels,      \* how many OC_DEL requests may arrive (the quorum client sends
                \* none)
  MaxChanges    \* bound on nChanges, for the model checker

ASSUME RequestAssumption == MaxDels \in Nat /\ MaxChanges \in Nat

VARIABLES
  table,   \* struct table_t
  reply,   \* the last request served and what it returned
  dels     \* OC_DEL requests served so far (history)

vars == <<table, reply, dels>>

(* What a client may send.  put carries a payload: the command line        *)
(* refuses a put without one and counts the final '\0'.                    *)
PutValue == {v \in Value : v.data # NoData}

Replies == [op : {"none", "put", "update", "del"}, ret : {0, -1}]

(* Mutant of Answer: ret + 1, the number size grows by, is returned.       *)
AnswerGrowth(op, ok) == [op |-> op, ret |-> IF ok THEN 1 ELSE 0]

Answer(op, ok) == [op |-> op, ret |-> IF ok THEN 0 ELSE -1]

-----------------------------------------------------------------------------
Init ==
  /\ table = EmptyTable
  /\ reply = [op |-> "none", ret |-> 0]
  /\ dels = 0

More == table.nChanges < MaxChanges

Put(k, v) ==
  /\ More
  /\ table' = TablePut(table, k, v)
  /\ reply' = Answer("put", PutAccepts(table, k))
  /\ UNCHANGED dels

Update(k, v) ==
  /\ More
  /\ table' = TableUpdate(table, k, v)
  /\ reply' = Answer("update", UpdateAccepts(table, k, v))
  /\ UNCHANGED dels

Del(k) ==
  /\ More /\ dels < MaxDels
  /\ dels' = dels + 1
  /\ table' = TableDel(table, k)
  /\ reply' = Answer("del", DelAccepts(table, k))

Next ==
  \E k \in Key :
    \/ \E v \in PutValue : Put(k, v)
    \/ \E v \in Value : Update(k, v)
    \/ Del(k)

Spec == Init /\ [][Next]_vars

-----------------------------------------------------------------------------
(* Type invariant of the table and of the answers. *)
TypeOK ==
  /\ table \in Tables
  /\ reply \in Replies
  /\ dels \in Nat

(***************************************************************************)
(* size never exceeds the number of entries that table_get_entries copies  *)
(* (the live ones) by more than the OC_DEL requests served, and so never   *)
(* exceeds it while the quorum client, which sends none, is the only one.  *)
(* That array has size + 1 slots and its terminating NULL is written at    *)
(* [size]: were size larger, the slots between would be read uninitialised *)
(* by whoever walks the array (pmanager_store_table), and the walk of      *)
(* table_get_keys would leave the chains.                                  *)
(***************************************************************************)
SizeNeverOvercounts == table.size <= Cardinality(Live(table)) + dels

(***************************************************************************)
(* What the repository says and the code does not do.                      *)
(***************************************************************************)

(* table_update: a value older than the stored one is not written          *)
(* ("verifica se timestamp de value e inferior ... nesse caso nao          *)
(* actualiza", table.c:144).                                               *)
UpdateKeepsNewest ==
  [][reply'.op = "update" =>
       \A k \in Present(table) : table'.entry[k].ts >= table.entry[k].ts]_vars

=============================================================================
