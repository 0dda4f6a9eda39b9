------------------------------ MODULE TableOps ------------------------------
(***************************************************************************)
(* The in-memory key-value table of one server (src/table/table.c) seen    *)
(* as a value: which entry each key has, plus the two counters the code    *)
(* keeps beside the chains, size and nChanges.  The chains themselves are  *)
(* the subject of HashTable.tla, which refines this view.                  *)
(*                                                                         *)
(* A stored value has a timestamp and a payload.  A payload of length 0    *)
(* (data == NULL, datasize == 0) is how the system says "deleted": such an *)
(* entry stays in the table as a tombstone.                                *)
(***************************************************************************)
EXTENDS Integers, FiniteSets

CONSTANTS
  Key,        \* the keys
  Data,       \* payloads with at least one byte
  NoData,     \* the payload of length 0
  NoEntry,    \* "the key has no node in its chain"
  Stamp       \* the timestamps requests may carry

Value == [ts : Stamp, data : Data \cup {NoData}]

Slot == Value \cup {NoEntry}

ASSUME TableAssumption ==
  /\ IsFiniteSet(Key)
  /\ NoData \notin Data
  /\ NoEntry \notin Value
  /\ Stamp \subseteq Nat \ {0}

Tables == [entry : [Key -> Slot], size : Int, nChanges : Nat]

-----------------------------------------------------------------------------
Present(t) == {k \in Key : t.entry[k] # NoEntry}
Tombstones(t) == {k \in Present(t) : t.entry[k].data = NoData}
Live(t) == {k \in Present(t) : t.entry[k].data # NoData}

(* table_create *)
EmptyTable == [entry |-> [k \in Key |-> NoEntry], size |-> 0, nChanges |-> 0]

(***************************************************************************)
(* table_put with list_add: a key that has a live value is refused (-1);   *)
(* an absent key or a tombstone takes the new entry, whatever its          *)
(* timestamp.  size grows by ret + 1; nChanges grows in both cases.        *)
(***************************************************************************)
PutAccepts(t, k) == k \notin Live(t)

TablePut(t, k, v) ==
  IF PutAccepts(t, k)
  THEN [entry |-> [t.entry EXCEPT ![k] = v],
        size |-> t.size + 1, nChanges |-> t.nChanges + 1]
  ELSE [t EXCEPT !.nChanges = @ + 1]

(***************************************************************************)
(* table_update: the key must have an entry, tombstone or not.  The        *)
(* timestamp guard divides the stored timestamp by 1000 (dropping the      *)
(* client id) but not the one of the request.  Every update whose payload  *)
(* is empty takes one off size, also on a key that is a tombstone already. *)
(***************************************************************************)
UpdateAccepts(t, k, v) ==
  /\ k \in Present(t)
  /\ ~ (t.entry[k].ts \div 1000 >= v.ts)

(* Mutant of TableUpdate: a tombstone still counts in size.                *)
TableUpdateKeepsSize(t, k, v) ==
  IF UpdateAccepts(t, k, v)
  THEN [t EXCEPT !.entry[k] = v, !.nChanges = @ + 1]
  ELSE t

TableUpdate(t, k, v) ==
  IF UpdateAccepts(t, k, v)
  THEN [entry |-> [t.entry EXCEPT ![k] = v],
        size |-> IF v.data = NoData THEN t.size - 1 ELSE t.size,
        nChanges |-> t.nChanges + 1]
  ELSE t

(***************************************************************************)
(* table_del: the node is unlinked, size is left alone (the line that      *)
(* changed it is commented out) and nChanges grows even when the key was   *)
(* not there.                                                              *)
(***************************************************************************)
DelAccepts(t, k) == k \in Present(t)

TableDel(t, k) ==
  [entry |-> [t.entry EXCEPT ![k] = NoEntry],
   size |-> t.size, nChanges |-> t.nChanges + 1]

(* table_get: an absent key reads as data_create(0), whose timestamp is 1. *)
TableGet(t, k) ==
  IF k \in Present(t) THEN t.entry[k] ELSE [ts |-> 1, data |-> NoData]

(* table_get_ts: absent keys and tombstones both answer 0. *)
TableGetTs(t, k) ==
  IF TableGet(t, k).data = NoData THEN 0 ELSE TableGet(t, k).ts

=============================================================================
