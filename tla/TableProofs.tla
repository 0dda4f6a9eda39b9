---------------------------- MODULE TableProofs -----------------------------
(***************************************************************************)
(* Table for every set of keys, payloads and stamps: the types, and the    *)
(* bound on size that keeps the snapshot of the table defined.             *)
(***************************************************************************)
EXTENDS Table, TableOpsProofs

(* Types hold in every reachable state, with or without OC_DEL. *)
THEOREM TypeCorrect == Spec => []TypeOK
<1>1. Init => TypeOK
  BY DEF Init, TypeOK, EmptyTable, Tables, Slot, Replies
<1>2. TypeOK /\ [Next]_vars => TypeOK'
  <2> SUFFICES ASSUME TypeOK, [Next]_vars
               PROVE  TypeOK'
    OBVIOUS
  <2>1. ASSUME NEW k \in Key, NEW v \in PutValue, Put(k, v)
        PROVE  TypeOK'
    BY <2>1, PutType DEF Put, PutValue, TypeOK, Answer, Replies
  <2>2. ASSUME NEW k \in Key, NEW v \in Value, Update(k, v)
        PROVE  TypeOK'
    BY <2>2, UpdateType DEF Update, TypeOK, Answer, Replies
  <2>3. ASSUME NEW k \in Key, Del(k)
        PROVE  TypeOK'
    BY <2>3, DelType DEF Del, TypeOK, Answer, Replies
  <2>4. CASE UNCHANGED vars
    BY <2>4 DEF vars, TypeOK
  <2> QED
    BY <2>1, <2>2, <2>3, <2>4 DEF Next
<1> QED
  BY <1>1, <1>2, PTL DEF Spec

-----------------------------------------------------------------------------
(***************************************************************************)
(* Whatever the requests and their order, size exceeds the number of live  *)
(* entries by at most the number of OC_DEL requests served.  The bound is  *)
(* inductive: put adds one to both; an update with a payload can only add  *)
(* a live key; one without takes one off size and at most one off the live *)
(* keys; OC_DEL takes at most one off the live keys and is counted.        *)
(***************************************************************************)
THEOREM SizeBounded == Spec => []SizeNeverOvercounts
<1>1. Init => SizeNeverOvercounts
  <2>1. Live(EmptyTable) = {}
    BY DEF Live, Present, EmptyTable
  <2> QED
    BY <2>1, FS_EmptySet DEF Init, SizeNeverOvercounts, EmptyTable
<1>2. TypeOK /\ SizeNeverOvercounts /\ [Next]_vars => SizeNeverOvercounts'
  <2> SUFFICES ASSUME TypeOK, SizeNeverOvercounts, [Next]_vars
               PROVE  SizeNeverOvercounts'
    OBVIOUS
  <2> DEFINE live == Cardinality(Live(table))
  <2>0. /\ IsFiniteSet(Live(table)) /\ live \in Nat /\ dels \in Nat
        /\ table.size \in Int /\ table.size <= live + dels
    BY LiveFinite DEF TypeOK, Tables, SizeNeverOvercounts
  <2>1. ASSUME NEW k \in Key, NEW v \in PutValue, Put(k, v)
        PROVE  SizeNeverOvercounts'
    <3>0. dels' = dels
      BY <2>1 DEF Put
    <3>1. CASE PutAccepts(table, k)
      <4>1. Cardinality(Live(table')) = live + 1
        BY <2>1, <3>1, PutLive DEF Put, PutValue, TypeOK
      <4>2. table'.size = table.size + 1
        BY <2>1, <3>1 DEF Put, TablePut
      <4> QED
        BY <2>0, <3>0, <4>1, <4>2 DEF SizeNeverOvercounts
    <3>2. CASE ~ PutAccepts(table, k)
      <4>1. table'.entry = table.entry /\ table'.size = table.size
        BY <2>1, <3>2 DEF Put, TablePut, TypeOK, Tables
      <4>2. Live(table') = Live(table)
        BY <4>1 DEF Live, Present
      <4> QED
        BY <2>0, <3>0, <4>1, <4>2 DEF SizeNeverOvercounts
    <3> QED
      BY <3>1, <3>2
  <2>2. ASSUME NEW k \in Key, NEW v \in Value, Update(k, v)
        PROVE  SizeNeverOvercounts'
    <3>0. dels' = dels
      BY <2>2 DEF Update
    <3>1. CASE UpdateAccepts(table, k, v) /\ v.data = NoData
      <4>1. Live(table') = Live(table) \ {k}
        BY <2>2, <3>1, UpdateLive DEF Update, TypeOK
      <4>2. table'.size = table.size - 1
        BY <2>2, <3>1 DEF Update, TableUpdate
      <4>3. Cardinality(Live(table) \ {k}) \in {live - 1, live}
        BY <2>0, FS_RemoveElement
      <4> QED
        BY <2>0, <3>0, <4>1, <4>2, <4>3 DEF SizeNeverOvercounts
    <3>2. CASE UpdateAccepts(table, k, v) /\ v.data # NoData
      <4>1. Live(table') = Live(table) \cup {k}
        BY <2>2, <3>2, UpdateLive DEF Update, TypeOK
      <4>2. table'.size = table.size
        BY <2>2, <3>2 DEF Update, TableUpdate
      <4>3. Cardinality(Live(table) \cup {k}) \in {live, live + 1}
        BY <2>0, FS_AddElement
      <4> QED
        BY <2>0, <3>0, <4>1, <4>2, <4>3 DEF SizeNeverOvercounts
    <3>3. CASE ~ UpdateAccepts(table, k, v)
      BY <2>2, <3>0, <3>3 DEF Update, TableUpdate, SizeNeverOvercounts
    <3> QED
      BY <3>1, <3>2, <3>3
  <2>3. ASSUME NEW k \in Key, Del(k)
        PROVE  SizeNeverOvercounts'
    <3>1. Live(table') = Live(table) \ {k}
      BY <2>3, DelLive DEF Del, TypeOK
    <3>2. table'.size = table.size /\ dels' = dels + 1
      BY <2>3 DEF Del, TableDel
    <3>3. Cardinality(Live(table) \ {k}) \in {live - 1, live}
      BY <2>0, FS_RemoveElement
    <3> QED
      BY <2>0, <3>1, <3>2, <3>3 DEF SizeNeverOvercounts
  <2>4. CASE UNCHANGED vars
    BY <2>4 DEF vars, SizeNeverOvercounts
  <2> QED
    BY <2>1, <2>2, <2>3, <2>4 DEF Next
<1> QED
  BY <1>1, <1>2, TypeCorrect, PTL DEF Spec

=============================================================================
