----------------------------- MODULE HashTable ------------------------------
(***************************************************************************)
(* The table as the code stores it: an array of chains, one per hash       *)
(* value, each a linked list kept in key order (src/table/list.c), with    *)
(* the counters size and nChanges beside the array.  A node is a key and   *)
(* its value; list->size is the length of the chain on every path of       *)
(* list.c, so it is not a variable of its own.                             *)
(*                                                                         *)
(* HashTable implements Table: RefinesTable.                               *)
(***************************************************************************)
EXTENDS TableOps, Sequences, SequencesExt

CONSTANTS
  Capacity,     \* number of chains
  Hash,         \* hash(key, capacity), a function from Key to Bucket
  MaxDels,      \* how many OC_DEL requests may arrive
  MaxChanges    \* bound on nChanges

ASSUME HashAssumption ==
  /\ Key \subseteq Nat     \* keys are numbered in the order of strcmp
  /\ Capacity \in Nat \ {0}
  /\ Hash \in [Key -> 0 .. Capacity - 1]
  /\ MaxDels \in Nat /\ MaxChanges \in Nat

VARIABLES
  chain,     \* table->table[b], nodes from first to last
  size, nChanges,
  reply,     \* the last request served and what it returned
  dels       \* OC_DEL requests served so far (history)

vars == <<chain, size, nChanges, reply, dels>>

Bucket == 0 .. Capacity - 1

Node == [key : Key, value : Value]

-----------------------------------------------------------------------------
(* list.c *)

IndexOf(c, k) == SelectInSeq(c, LAMBDA n : n.key = k)

(* Mutant of Place: behind the first larger key instead of before it.      *)
PlaceBehind(c, k) ==
  LET larger == SelectInSeq(c, LAMBDA n : n.key > k)
  IN  IF larger = 0 THEN Len(c) + 1 ELSE larger + 1

(* The position a new node with key k takes: before the first larger key.  *)
Place(c, k) ==
  LET larger == SelectInSeq(c, LAMBDA n : n.key > k)
  IN  IF larger = 0 THEN Len(c) + 1 ELSE larger

(* Mutant of ListSet: the node itself is overwritten.                      *)
ListSetNode(c, k, v) == [c EXCEPT ![IndexOf(c, k)] = v]

(* The value of the node that holds k, overwritten in place. *)
ListSet(c, k, v) == [c EXCEPT ![IndexOf(c, k)].value = v]

(* Mutant of ListAddAccepts: a tombstone counts as an entry.               *)
ListAddAcceptsAbsent(c, k) == IndexOf(c, k) = 0

(* list_add refuses a key whose node holds data ... *)
ListAddAccepts(c, k) ==
  IndexOf(c, k) = 0 \/ c[IndexOf(c, k)].value.data = NoData

(* ... replaces the entry of a tombstone, and links a new node otherwise.  *)
ListAdd(c, k, v) ==
  IF ~ ListAddAccepts(c, k) THEN c
  ELSE IF IndexOf(c, k) # 0
       THEN ListSet(c, k, v)
       ELSE InsertAt(c, Place(c, k), [key |-> k, value |-> v])

ListRemove(c, k) == IF IndexOf(c, k) = 0 THEN c ELSE RemoveAt(c, IndexOf(c, k))

ListGet(c, k) == IF IndexOf(c, k) = 0 THEN NoEntry ELSE c[IndexOf(c, k)].value

-----------------------------------------------------------------------------
(* table.c *)

PutValue == {v \in Value : v.data # NoData}

Answer(op, ok) == [op |-> op, ret |-> IF ok THEN 0 ELSE -1]

More == nChanges < MaxChanges

Init ==
  /\ chain = [b \in Bucket |-> <<>>]
  /\ size = 0
  /\ nChanges = 0
  /\ reply = [op |-> "none", ret |-> 0]
  /\ dels = 0

(* table_put: size + (ret + 1), nChanges + 1 in both cases *)
Put(k, v) ==
  LET ok == ListAddAccepts(chain[Hash[k]], k)
  IN  /\ More
      /\ chain' = [chain EXCEPT ![Hash[k]] = ListAdd(@, k, v)]
      /\ size' = size + (IF ok THEN 1 ELSE 0)
      /\ nChanges' = nChanges + 1
      /\ reply' = Answer("put", ok)
      /\ UNCHANGED dels

UpdateRefused(k, v) ==
  LET stored == ListGet(chain[Hash[k]], k)
  IN  stored = NoEntry \/ stored.ts \div 1000 >= v.ts

(* table_update overwrites the value of the node in place *)
Update(k, v) ==
  /\ More
  /\ IF UpdateRefused(k, v)
     THEN UNCHANGED <<chain, size, nChanges>>
     ELSE /\ chain' = [chain EXCEPT ![Hash[k]] = ListSet(@, k, v)]
          /\ size' = size - (IF v.data = NoData THEN 1 ELSE 0)
          /\ nChanges' = nChanges + 1
  /\ reply' = Answer("update", ~ UpdateRefused(k, v))
  /\ UNCHANGED dels

Del(k) ==
  /\ More /\ dels < MaxDels
  /\ dels' = dels + 1
  /\ chain' = [chain EXCEPT ![Hash[k]] = ListRemove(@, k)]
  /\ nChanges' = nChanges + 1
  /\ reply' = Answer("del", IndexOf(chain[Hash[k]], k) # 0)
  /\ UNCHANGED size

Next ==
  \E k \in Key :
    \/ \E v \in PutValue : Put(k, v)
    \/ \E v \in Value : Update(k, v)
    \/ Del(k)

Spec == Init /\ [][Next]_vars

-----------------------------------------------------------------------------
(* The chains one after the other, in bucket order. *)
AllNodes == FlattenSeq([i \in 1 .. Capacity |-> chain[i - 1]])

(* table_get_keys copies whole chains until it has size keys, and a        *)
(* tombstone's key counts like any other.  If a chain ends exactly there   *)
(* it stays inside its array of size + 1 slots.                            *)
KeysFit ==
  \E b \in 0 .. Capacity :
    size = Len(FlattenSeq([i \in 1 .. b |-> chain[i - 1]]))

(* The keys it returns: the array ends at [size].                          *)
GetKeys ==
  [i \in 1 .. (IF size < Len(AllNodes) THEN size ELSE Len(AllNodes))
     |-> AllNodes[i].key]

-----------------------------------------------------------------------------
(* Type invariant of the chains and counters. *)
TypeOK ==
  /\ chain \in [Bucket -> Seq(Node)]
  /\ size \in Int
  /\ nChanges \in Nat

(***************************************************************************)
(* Every node is in the chain its key hashes to, and a chain is strictly   *)
(* increasing: a key has at most one node, so list_get, list_remove and    *)
(* the replacement of a tombstone in list_add speak of the same entry.     *)
(***************************************************************************)
ChainsSorted ==
  \A b \in Bucket :
    /\ \A i \in 1 .. Len(chain[b]) : Hash[chain[b][i].key] = b
    /\ \A i, j \in 1 .. Len(chain[b]) :
         i < j => chain[b][i].key < chain[b][j].key

(* The abstract table the chains stand for. *)
Abstract ==
  [entry |-> [k \in Key |-> ListGet(chain[Hash[k]], k)],
   size |-> size, nChanges |-> nChanges]

T == INSTANCE Table WITH table <- Abstract

(* Sorted insertion, search and removal in the chains behave as a function *)
(* from keys to entries: every behaviour of the chains is one of Table.    *)
RefinesTable == T!Spec

(***************************************************************************)
(* What the repository says and the code does not do.                      *)
(***************************************************************************)

(* A client asking for the keys must not be given removed ones             *)
(* ("Esta funcao nao deve retornar as chaves removidas, i.e., a NULL",     *)
(* quorum_table.h:54-55); qtable_get_keys hands on what a server's         *)
(* table_get_keys returned.  Only the states in which that array is not    *)
(* overrun are asked about.                                                *)
KeysAreLive ==
  KeysFit =>
    \A i \in DOMAIN GetKeys :
      ListGet(chain[Hash[GetKeys[i]]], GetKeys[i]).data # NoData

=============================================================================
