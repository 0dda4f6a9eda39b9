--------------------------- MODULE TableOpsProofs ---------------------------
(***************************************************************************)
(* Facts about the operations on a table (TableOps) and about natural      *)
(* numbers that the proofs of the other modules use.                       *)
(***************************************************************************)
EXTENDS TableOps, FiniteSetTheorems, WellFoundedInduction, TLAPS

(* A set of natural numbers has a least element: what a proof by induction *)
(* over a file or a chain needs.                                           *)
LEMMA Least ==
  ASSUME NEW S \in SUBSET Nat, S # {}
  PROVE  \E n \in S : \A m \in S : n <= m
<1>1. IsWellFoundedOn(OpToRel(<, Nat), Nat)
  BY NatLessThanWellFounded
<1>2. PICK n \in S : \A m \in S : ~ (<<m, n>> \in OpToRel(<, Nat))
  BY <1>1, WFMin
<1>3. \A m \in S : ~ (m < n)
  BY <1>2 DEF OpToRel
<1> QED
  BY <1>3

-----------------------------------------------------------------------------
(* The entries of one request put into the table keep the type of entry. *)
LEMMA PutType ==
  ASSUME NEW t \in Tables, NEW k \in Key, NEW v \in Value
  PROVE  TablePut(t, k, v) \in Tables
BY DEF TablePut, Tables, Slot

(* The same for an update, accepted or refused. *)
LEMMA UpdateType ==
  ASSUME NEW t \in Tables, NEW k \in Key, NEW v \in Value
  PROVE  TableUpdate(t, k, v) \in Tables
BY DEF TableUpdate, Tables, Slot

(* The same for a deletion. *)
LEMMA DelType ==
  ASSUME NEW t \in Tables, NEW k \in Key
  PROVE  TableDel(t, k) \in Tables
BY DEF TableDel, Tables, Slot

(* The live keys are finitely many, so that they can be counted. *)
LEMMA LiveFinite ==
  ASSUME NEW t \in Tables
  PROVE  IsFiniteSet(Live(t)) /\ Cardinality(Live(t)) \in Nat
<1>1. Live(t) \subseteq Key
  BY DEF Live, Present
<1> QED
  BY <1>1, TableAssumption, FS_Subset, FS_CardinalityType

(* An accepted put makes exactly its key live. *)
LEMMA PutLive ==
  ASSUME NEW t \in Tables, NEW k \in Key, NEW v \in Value, v.data # NoData, PutAccepts(t, k)
  PROVE  /\ Live(TablePut(t, k, v)) = Live(t) \cup {k}
         /\ Cardinality(Live(TablePut(t, k, v))) = Cardinality(Live(t)) + 1
<1>1. Live(TablePut(t, k, v)) = Live(t) \cup {k}
  BY TableAssumption DEF TablePut, Live, Present, Tables, Slot, Value
<1> QED
  BY <1>1, LiveFinite, FS_AddElement DEF PutAccepts

(* An accepted update makes its key live or makes it a tombstone. *)
LEMMA UpdateLive ==
  ASSUME NEW t \in Tables, NEW k \in Key, NEW v \in Value,
         UpdateAccepts(t, k, v)
  PROVE  Live(TableUpdate(t, k, v)) =
           IF v.data = NoData THEN Live(t) \ {k} ELSE Live(t) \cup {k}
BY TableAssumption
   DEF UpdateAccepts, TableUpdate, Live, Present, Tables, Slot, Value

(* A deletion leaves every live key but its own. *)
LEMMA DelLive ==
  ASSUME NEW t \in Tables, NEW k \in Key
  PROVE  Live(TableDel(t, k)) = Live(t) \ {k}
BY TableAssumption DEF TableDel, Live, Present, Tables, Slot

=============================================================================
