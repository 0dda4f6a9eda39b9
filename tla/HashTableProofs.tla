--------------------------- MODULE HashTableProofs ---------------------------
(***************************************************************************)
(* HashTable for every number of chains, every hash function and every set *)
(* of keys: the chains stay sorted, and they implement Table.              *)
(***************************************************************************)
EXTENDS HashTable, TableOpsProofs, SequenceTheorems

(* What list.c keeps of one chain. *)
Sorted(c) == \A i, j \in 1 .. Len(c) : i < j => c[i].key < c[j].key

Has(c, k) == \E i \in 1 .. Len(c) : c[i].key = k

Chains == {c \in Seq(Node) : Sorted(c)}

-----------------------------------------------------------------------------
(* The search of a chain finds the first node with the property, if any.   *)
LEMMA MinOf ==
  ASSUME NEW n \in Nat, NEW I \in SUBSET (1 .. n), I # {}
  PROVE  Min(I) \in I /\ \A i \in I : Min(I) <= i
<1>1. PICK m \in I : \A i \in I : m <= i
  BY Least
<1> QED
  BY <1>1 DEF Min

(* list_get and list_remove: the node of the key, 0 if there is none.      *)
LEMMA IndexOfKey ==
  ASSUME NEW c \in Seq(Node), NEW k \in Key
  PROVE  \/ IndexOf(c, k) = 0 /\ ~ Has(c, k)
         \/ IndexOf(c, k) \in 1 .. Len(c) /\ c[IndexOf(c, k)].key = k
<1> DEFINE I == {i \in 1 .. Len(c) : c[i].key = k}
<1>1. IndexOf(c, k) = IF I # {} THEN Min(I) ELSE 0
  BY DEF IndexOf, SelectInSeq
<1>5. Len(c) \in Nat /\ I \in SUBSET (1 .. Len(c))
  OBVIOUS
<1> HIDE DEF I
<1>2. I # {} => Min(I) \in I
  BY <1>5, MinOf
<1>3. CASE I = {}
  BY <1>1, <1>3 DEF I, Has
<1>4. CASE I # {}
  BY <1>1, <1>2, <1>4 DEF I
<1> QED
  BY <1>3, <1>4

(* list_add: what comes before the new node is smaller, what follows it    *)
(* larger.                                                                 *)
LEMMA PlaceOfKey ==
  ASSUME NEW c \in Chains, NEW k \in Key
  PROVE  /\ Place(c, k) \in 1 .. Len(c) + 1
         /\ \A i \in 1 .. Len(c) :
              IF i < Place(c, k) THEN c[i].key <= k ELSE c[i].key > k
<1> DEFINE I == {i \in 1 .. Len(c) : c[i].key > k}
           p == IF I # {} THEN Min(I) ELSE 0
<1>1. Place(c, k) = IF p = 0 THEN Len(c) + 1 ELSE p
  BY DEF Place, SelectInSeq
<1>2. I # {} => Min(I) \in I /\ \A i \in I : Min(I) <= i
  <2>1. Len(c) \in Nat /\ I \in SUBSET (1 .. Len(c))
    BY DEF Chains
  <2> HIDE DEF I
  <2> QED
    BY <2>1, MinOf
<1>3. /\ c \in Seq(Node) /\ Len(c) \in Nat /\ k \in Nat
      /\ \A i \in 1 .. Len(c) : c[i].key \in Nat
      /\ \A i, j \in 1 .. Len(c) : i < j => c[i].key < c[j].key
  <2>1. c \in Seq(Node) /\ \A i \in 1 .. Len(c) : c[i] \in Node
    BY DEF Chains
  <2>2. \A i, j \in 1 .. Len(c) : i < j => c[i].key < c[j].key
    BY DEF Chains, Sorted
  <2>3. k \in Nat /\ \A i \in 1 .. Len(c) : c[i].key \in Nat
    BY <2>1, HashAssumption DEF Node
  <2> QED
    BY <2>1, <2>2, <2>3
<1>4. CASE I = {}
  <2>1. Place(c, k) = Len(c) + 1
    BY <1>1, <1>4
  <2>2. \A i \in 1 .. Len(c) : c[i].key <= k
    BY <1>3, <1>4
  <2> HIDE DEF I, p
  <2> QED
    BY <1>3, <2>1, <2>2
<1>5. CASE I # {}
  <2> DEFINE q == Min(I)
  <2>1. q \in 1 .. Len(c) /\ c[q].key > k /\ Place(c, k) = q
    BY <1>1, <1>2, <1>5
  <2>2. \A i \in 1 .. Len(c) : i < q => c[i].key <= k
    BY <1>2, <1>3, <1>5, SMTT(30)
  <2> HIDE DEF I, p, q
  <2>3. \A i \in 1 .. Len(c) : i > q => c[i].key > k
    BY <1>3, <2>1
  <2> QED
    BY <1>3, <2>1, <2>2, <2>3
<1> QED
  BY <1>4, <1>5

(* In a sorted chain every node is the one its key finds. *)
LEMMA GetOf ==
  ASSUME NEW c \in Chains, NEW i \in 1 .. Len(c)
  PROVE  IndexOf(c, c[i].key) = i /\ ListGet(c, c[i].key) = c[i].value
<1>1. c \in Seq(Node) /\ c[i].key \in Key
  <2>1. c \in Seq(Node)
    BY DEF Chains
  <2>2. c[i] \in Node
    BY <2>1
  <2> QED
    BY <2>1, <2>2 DEF Node
<1> DEFINE p == IndexOf(c, c[i].key)
<1>2. p \in 1 .. Len(c) /\ c[p].key = c[i].key
  BY <1>1, IndexOfKey DEF Has
<1> HIDE DEF p
<1>3. p = i
  <2>1. \A h, j \in 1 .. Len(c) : h < j => c[h].key < c[j].key
    BY DEF Chains, Sorted
  <2>2. c[i].key \in Nat
    BY <1>1, HashAssumption
  <2> QED
    BY <1>2, <2>1, <2>2
<1> QED
  BY <1>3 DEF ListGet, p

(* A key without a node reads as absent. *)
LEMMA GetNone ==
  ASSUME NEW c \in Chains, NEW k \in Key, ~ Has(c, k)
  PROVE  IndexOf(c, k) = 0 /\ ListGet(c, k) = NoEntry
BY IndexOfKey DEF Chains, Has, ListGet

(* A chain and its nodes, for the provers. *)
LEMMA ChainFacts ==
  ASSUME NEW c \in Chains
  PROVE  /\ c \in Seq(Node) /\ Len(c) \in Nat
         /\ \A i \in 1 .. Len(c) :
              /\ c[i] \in Node /\ c[i].key \in Key /\ c[i].key \in Nat
              /\ c[i].value \in Value
         /\ \A i, j \in 1 .. Len(c) : i < j => c[i].key < c[j].key
<1>1. c \in Seq(Node) /\ \A i \in 1 .. Len(c) : c[i] \in Node
  BY DEF Chains
<1>2. \A n \in Node : n.key \in Key /\ n.key \in Nat /\ n.value \in Value
  BY HashAssumption DEF Node
<1>3. \A i, j \in 1 .. Len(c) : i < j => c[i].key < c[j].key
  BY DEF Chains, Sorted
<1> QED
  BY <1>1, <1>2, <1>3

(* Two chains with the same nodes but for those of one key answer alike    *)
(* for every other key.                                                    *)
LEMMA GetSame ==
  ASSUME NEW c \in Chains, NEW d \in Chains, NEW k \in Key,
         \A i \in 1 .. Len(c) : c[i].key # k =>
           \E j \in 1 .. Len(d) : d[j] = c[i],
         \A j \in 1 .. Len(d) : d[j].key # k =>
           \E i \in 1 .. Len(c) : c[i] = d[j],
         NEW h \in Key, h # k
  PROVE  ListGet(d, h) = ListGet(c, h)
<1>1. CASE Has(c, h)
  <2>1. PICK i \in 1 .. Len(c) : c[i].key = h
    BY <1>1 DEF Has
  <2>2. PICK j \in 1 .. Len(d) : d[j] = c[i]
    BY <2>1
  <2> QED
    BY <2>1, <2>2, GetOf
<1>2. CASE ~ Has(c, h)
  <2>1. ~ Has(d, h)
    BY <1>2 DEF Has
  <2> QED
    BY <1>2, <2>1, GetNone
<1> QED
  BY <1>1, <1>2

(* list_add, a new node: the chain stays sorted, and only its key is read  *)
(* differently.                                                            *)
LEMMA Inserted ==
  ASSUME NEW c \in Chains, NEW k \in Key, NEW v \in Value, ~ Has(c, k),
         NEW d, d = InsertAt(c, Place(c, k), [key |-> k, value |-> v])
  PROVE  /\ d \in Chains
         /\ \A i \in 1 .. Len(d) : d[i].key = k \/ \E j \in 1 .. Len(c) : c[j] = d[i]
         /\ ListGet(d, k) = v
         /\ \A h \in Key \ {k} : ListGet(d, h) = ListGet(c, h)
<1> DEFINE n == [key |-> k, value |-> v]
           p == Place(c, k)
<1>1. /\ p \in 1 .. Len(c) + 1
      /\ \A i \in 1 .. Len(c) : IF i < p THEN c[i].key <= k ELSE c[i].key > k
  BY PlaceOfKey
<1>2. n \in Node /\ n.key = k /\ n.value = v
  BY DEF Node
<1>3. d = SubSeq(c, 1, p - 1) \o <<n>> \o SubSeq(c, p, Len(c))
  BY DEF InsertAt
<1> HIDE DEF n, p
<1>4. /\ c \in Seq(Node) /\ Len(c) \in Nat /\ k \in Nat /\ k \in Key
      /\ \A i \in 1 .. Len(c) : c[i] \in Node /\ c[i].key \in Nat /\ c[i].key # k
      /\ \A i, j \in 1 .. Len(c) : i < j => c[i].key < c[j].key
  BY ChainFacts, HashAssumption DEF Has
<1>5. /\ d \in Seq(Node) /\ Len(d) = Len(c) + 1
      /\ \A i \in 1 .. Len(c) + 1 :
           d[i] = IF i < p THEN c[i] ELSE IF i = p THEN n ELSE c[i - 1]
  <2> DEFINE a == SubSeq(c, 1, p - 1)
             b == SubSeq(c, p, Len(c))
  <2>1. /\ a \in Seq(Node) /\ Len(a) = p - 1
        /\ \A i \in 1 .. p - 1 : a[i] = c[i]
    BY <1>1, <1>4, SubSeqProperties
  <2>2. /\ b \in Seq(Node) /\ Len(b) = Len(c) - p + 1
        /\ \A i \in 1 .. Len(c) - p + 1 : b[i] = c[p + i - 1]
    BY <1>1, <1>4, SubSeqProperties
  <2>3. <<n>> \in Seq(Node) /\ Len(<<n>>) = 1 /\ <<n>>[1] = n
    BY <1>2
  <2> HIDE DEF a, b
  <2>4. /\ a \o <<n>> \in Seq(Node) /\ Len(a \o <<n>>) = p
        /\ \A i \in 1 .. p : (a \o <<n>>)[i] = IF i < p THEN c[i] ELSE n
    BY <1>1, <1>4, <2>1, <2>3, ConcatProperties
  <2> DEFINE e == a \o <<n>>
  <2> HIDE DEF e
  <2>5. /\ e \in Seq(Node) /\ Len(e) = p
        /\ \A i \in 1 .. p : e[i] = IF i < p THEN c[i] ELSE n
        /\ d = e \o b
    BY <1>3, <2>4 DEF e, a, b
  <2>6. /\ d \in Seq(Node) /\ Len(d) = Len(c) + 1
        /\ \A i \in 1 .. Len(c) + 1 : d[i] = IF i <= p THEN e[i] ELSE b[i - p]
    <3>1. /\ e \o b \in Seq(Node) /\ Len(e \o b) = Len(e) + Len(b)
          /\ \A i \in 1 .. Len(e) + Len(b) :
               (e \o b)[i] = IF i <= Len(e) THEN e[i] ELSE b[i - Len(e)]
      BY <2>2, <2>5, ConcatProperties
    <3>2. Len(e) + Len(b) = Len(c) + 1
      BY <1>1, <1>4, <2>2, <2>5
    <3> QED
      BY <2>5, <3>1, <3>2
  <2> QED
    BY <1>1, <1>4, <2>2, <2>5, <2>6
<1>6. d \in Chains
  <2>1. ASSUME NEW i \in 1 .. Len(d), NEW j \in 1 .. Len(d), i < j
        PROVE  d[i].key < d[j].key
    <3>1. CASE j < p
      BY <1>1, <1>4, <1>5, <2>1, <3>1, SMTT(30)
    <3>2. CASE j = p
      <4>1. c[i].key \in Nat /\ c[i].key <= k /\ c[i].key # k /\ d[i] = c[i] /\ d[j] = n
        BY <1>1, <1>4, <1>5, <2>1, <3>2
      <4> QED
        BY <1>2, <1>4, <4>1
    <3>3. CASE i = p
      <4>1. c[j - 1].key > k /\ d[i] = n /\ d[j] = c[j - 1]
        BY <1>1, <1>4, <1>5, <2>1, <3>3
      <4> QED
        BY <1>2, <1>4, <4>1
    <3>4. CASE i < p /\ j > p
      <4>1. c[i].key < c[j - 1].key \/ i = j - 1
        BY <1>1, <1>4, <1>5, <2>1, <3>4
      <4>2. d[i] = c[i] /\ d[j] = c[j - 1]
        BY <1>1, <1>4, <1>5, <2>1, <3>4
      <4> QED
        BY <1>1, <1>4, <1>5, <3>4, <4>1, <4>2
    <3>5. CASE i > p
      <4>1. i - 1 \in 1 .. Len(c) /\ j - 1 \in 1 .. Len(c) /\ i - 1 < j - 1
        BY <1>1, <1>4, <1>5, <2>1, <3>5
      <4>2. d[i] = c[i - 1] /\ d[j] = c[j - 1]
        BY <1>1, <1>4, <1>5, <2>1, <3>5
      <4> QED
        BY <1>4, <4>1, <4>2
    <3> QED
      BY <1>1, <1>5, <2>1, <3>1, <3>2, <3>3, <3>4, <3>5
  <2> QED
    BY <1>5, <2>1 DEF Chains, Sorted
<1>7. \A i \in 1 .. Len(d) : d[i].key = k \/ \E j \in 1 .. Len(c) : c[j] = d[i]
  BY <1>1, <1>2, <1>4, <1>5
<1>8. \A i \in 1 .. Len(c) : \E j \in 1 .. Len(d) : d[j] = c[i]
  <2> TAKE i \in 1 .. Len(c)
  <2>1. CASE i < p
    BY <1>1, <1>4, <1>5, <2>1
  <2>2. CASE ~ i < p
    <3>1. i + 1 \in 1 .. Len(d) /\ d[i + 1] = c[i]
      BY <1>1, <1>4, <1>5, <2>2, SMTT(30)
    <3> QED
      BY <3>1
  <2> QED
    BY <2>1, <2>2
<1>9. ListGet(d, k) = v
  <2>1. p \in 1 .. Len(d) /\ d[p] = n
    BY <1>1, <1>4, <1>5
  <2> QED
    BY <1>2, <1>6, <2>1, GetOf
<1>10. \A h \in Key \ {k} : ListGet(d, h) = ListGet(c, h)
  BY <1>6, <1>7, <1>8, GetSame
<1> QED
  BY <1>6, <1>7, <1>9, <1>10

(* list_remove: the same, without the node.                                *)
LEMMA Removed ==
  ASSUME NEW c \in Chains, NEW k \in Key, NEW d, d = ListRemove(c, k)
  PROVE  /\ d \in Chains
         /\ \A i \in 1 .. Len(d) : \E j \in 1 .. Len(c) : c[j] = d[i]
         /\ ListGet(d, k) = NoEntry
         /\ \A h \in Key \ {k} : ListGet(d, h) = ListGet(c, h)
<1>1. /\ c \in Seq(Node) /\ Len(c) \in Nat
      /\ \A i \in 1 .. Len(c) : c[i] \in Node /\ c[i].key \in Nat
      /\ \A i, j \in 1 .. Len(c) : i < j => c[i].key < c[j].key
  BY ChainFacts
<1>2. CASE ~ Has(c, k)
  <2>1. d = c
    BY <1>2, GetNone DEF ListRemove
  <2> QED
    BY <1>2, <2>1, GetNone
<1>3. CASE Has(c, k)
  <2> DEFINE p == IndexOf(c, k)
  <2>1. p \in 1 .. Len(c) /\ c[p].key = k
    BY <1>1, <1>3, IndexOfKey
  <2>2. d = SubSeq(c, 1, p - 1) \o SubSeq(c, p + 1, Len(c))
    <3>1. p # 0
      BY <1>1, <2>1
    <3>2. d = RemoveAt(c, p)
      BY <3>1 DEF ListRemove
    <3> QED
      BY <3>2, Zenon DEF RemoveAt
  <2> HIDE DEF p
  <2>3. /\ d \in Seq(Node) /\ Len(d) = Len(c) - 1
        /\ \A i \in 1 .. Len(c) - 1 : d[i] = IF i < p THEN c[i] ELSE c[i + 1]
    <3> DEFINE a == SubSeq(c, 1, p - 1)
               b == SubSeq(c, p + 1, Len(c))
    <3>1. /\ a \in Seq(Node) /\ Len(a) = p - 1
          /\ \A i \in 1 .. p - 1 : a[i] = c[i]
      BY <1>1, <2>1, SubSeqProperties
    <3>2. /\ b \in Seq(Node) /\ Len(b) = Len(c) - p
          /\ \A i \in 1 .. Len(c) - p : b[i] = c[p + i]
      BY <1>1, <2>1, SubSeqProperties
    <3> HIDE DEF a, b
    <3>3. /\ d \in Seq(Node) /\ Len(d) = Len(c) - 1
          /\ \A i \in 1 .. Len(c) - 1 : d[i] = IF i < p THEN a[i] ELSE b[i - (p - 1)]
      <4>1. d = a \o b
        BY <2>2 DEF a, b
      <4>2. /\ a \o b \in Seq(Node) /\ Len(a \o b) = Len(a) + Len(b)
            /\ \A i \in 1 .. Len(a) + Len(b) :
                 (a \o b)[i] = IF i <= Len(a) THEN a[i] ELSE b[i - Len(a)]
        BY <3>1, <3>2, ConcatProperties
      <4>3. Len(a) + Len(b) = Len(c) - 1
        BY <1>1, <2>1, <3>1, <3>2
      <4>4. \A i \in 1 .. Len(c) - 1 : i <= Len(a) <=> i < p
        BY <1>1, <2>1, <3>1
      <4> QED
        BY <3>1, <4>1, <4>2, <4>3, <4>4
    <3> QED
      BY <1>1, <2>1, <3>1, <3>2, <3>3
  <2>4. d \in Chains
    <3>1. ASSUME NEW i \in 1 .. Len(d), NEW j \in 1 .. Len(d), i < j
          PROVE  d[i].key < d[j].key
      <4> DEFINE x == IF i < p THEN i ELSE i + 1
                 y == IF j < p THEN j ELSE j + 1
      <4>1. x \in 1 .. Len(c) /\ y \in 1 .. Len(c) /\ x < y
        BY <1>1, <2>1, <2>3, <3>1
      <4>2. d[i] = c[x] /\ d[j] = c[y]
        BY <1>1, <2>3
      <4> HIDE DEF x, y
      <4> QED
        BY <1>1, <4>1, <4>2
    <3> QED
      BY <2>3, <3>1 DEF Chains, Sorted
  <2>5. \A i \in 1 .. Len(d) : \E j \in 1 .. Len(c) : c[j] = d[i] /\ d[i].key # k
    <3> TAKE i \in 1 .. Len(d)
    <3>1. CASE i < p
      BY <1>1, <2>1, <2>3, <3>1
    <3>2. CASE ~ i < p
      <4>1. i + 1 \in 1 .. Len(c) /\ c[i + 1] = d[i] /\ p < i + 1
        BY <1>1, <2>1, <2>3, <3>2
      <4> QED
        BY <1>1, <2>1, <4>1
    <3> QED
      BY <3>1, <3>2
  <2>6. \A i \in 1 .. Len(c) : c[i].key # k => \E j \in 1 .. Len(d) : d[j] = c[i]
    <3> SUFFICES ASSUME NEW i \in 1 .. Len(c), c[i].key # k
                 PROVE  \E j \in 1 .. Len(d) : d[j] = c[i]
      OBVIOUS
    <3>1. CASE i < p
      BY <1>1, <2>1, <2>3, <3>1
    <3>2. CASE i > p
      <4>1. i - 1 \in 1 .. Len(d) /\ d[i - 1] = c[i]
        BY <1>1, <2>1, <2>3, <3>2
      <4> QED
        BY <4>1
    <3> QED
      BY <2>1, <3>1, <3>2
  <2>7. ListGet(d, k) = NoEntry
    BY <2>4, <2>5, GetNone DEF Has
  <2>8. \A h \in Key \ {k} : ListGet(d, h) = ListGet(c, h)
    BY <2>4, <2>5, <2>6, GetSame
  <2> QED
    BY <2>4, <2>5, <2>7, <2>8, ZenonT(30)
<1> QED
  BY <1>2, <1>3

(* A value overwritten in its node, as table_update and the put on a       *)
(* tombstone do.                                                           *)
LEMMA Overwritten ==
  ASSUME NEW c \in Chains, NEW k \in Key, NEW v \in Value, Has(c, k),
         NEW d, d = ListSet(c, k, v)
  PROVE  /\ d \in Chains
         /\ \A i \in 1 .. Len(d) : d[i].key = k \/ \E j \in 1 .. Len(c) : c[j] = d[i]
         /\ ListGet(d, k) = v
         /\ \A h \in Key \ {k} : ListGet(d, h) = ListGet(c, h)
<1> DEFINE p == IndexOf(c, k)
<1>1. /\ c \in Seq(Node) /\ Len(c) \in Nat
      /\ \A i \in 1 .. Len(c) : c[i] \in Node /\ c[i].key \in Nat
      /\ \A i, j \in 1 .. Len(c) : i < j => c[i].key < c[j].key
  BY ChainFacts
<1>2. p \in 1 .. Len(c) /\ c[p].key = k
  BY <1>1, IndexOfKey
<1>3. d = [c EXCEPT ![p].value = v]
  BY DEF ListSet
<1> HIDE DEF p
<1> DEFINE n == [c[p] EXCEPT !.value = v]
<1>4. n \in Node /\ n.key = k /\ n.value = v
  BY <1>1, <1>2 DEF Node
<1>5. d = [c EXCEPT ![p] = n]
  BY <1>1, <1>2, <1>3
<1> HIDE DEF n
<1>6. /\ d \in Seq(Node) /\ Len(d) = Len(c)
      /\ \A i \in 1 .. Len(c) : d[i] = IF i = p THEN n ELSE c[i]
  BY <1>1, <1>2, <1>4, <1>5, ExceptSeq
<1>7. d \in Chains
  <2>1. \A i, j \in 1 .. Len(d) : i < j => d[i].key < d[j].key
    BY <1>1, <1>2, <1>4, <1>6
  <2> QED
    BY <1>6, <2>1 DEF Chains, Sorted
<1>8. /\ \A i \in 1 .. Len(d) : d[i].key = k \/ \E j \in 1 .. Len(c) : c[j] = d[i]
      /\ \A i \in 1 .. Len(c) : c[i].key # k => \E j \in 1 .. Len(d) : d[j] = c[i]
  BY <1>2, <1>4, <1>6
<1>9. ListGet(d, k) = v
  <2>1. p \in 1 .. Len(d) /\ d[p] = n
    BY <1>2, <1>6
  <2> QED
    BY <1>4, <1>7, <2>1, GetOf
<1>10. \A h \in Key \ {k} : ListGet(d, h) = ListGet(c, h)
  BY <1>7, <1>8, GetSame
<1> QED
  BY <1>7, <1>8, <1>9, <1>10

(* What a chain answers: NoEntry, or a value. *)
LEMMA GetType ==
  ASSUME NEW c \in Chains, NEW k \in Key
  PROVE  /\ Has(c, k) => ListGet(c, k) \in Value /\ ListGet(c, k) # NoEntry
         /\ ~ Has(c, k) => ListGet(c, k) = NoEntry
         /\ ListGet(c, k) \in Slot
         /\ IndexOf(c, k) = 0 <=> ~ Has(c, k)
<1>1. CASE Has(c, k)
  <2>1. IndexOf(c, k) \in 1 .. Len(c)
    BY <1>1, ChainFacts, IndexOfKey
  <2>2. IndexOf(c, k) # 0 /\ c[IndexOf(c, k)].value \in Value
    BY <2>1, ChainFacts
  <2> QED
    BY <1>1, <2>2, TableAssumption DEF ListGet, Slot
<1>2. CASE ~ Has(c, k)
  BY <1>2, GetNone DEF Slot
<1> QED
  BY <1>1, <1>2

(* list_add as a whole.                                                    *)
LEMMA Added ==
  ASSUME NEW c \in Chains, NEW k \in Key, NEW v \in Value, ListAddAccepts(c, k),
         NEW d, d = ListAdd(c, k, v)
  PROVE  /\ d \in Chains
         /\ \A i \in 1 .. Len(d) : d[i].key = k \/ \E j \in 1 .. Len(c) : c[j] = d[i]
         /\ ListGet(d, k) = v
         /\ \A h \in Key \ {k} : ListGet(d, h) = ListGet(c, h)
<1>1. CASE Has(c, k)
  <2>1. d = ListSet(c, k, v)
    BY <1>1, GetType DEF ListAdd
  <2> QED
    BY <1>1, <2>1, Overwritten
<1>2. CASE ~ Has(c, k)
  <2>1. d = InsertAt(c, Place(c, k), [key |-> k, value |-> v])
    BY <1>2, GetType DEF ListAdd
  <2> QED
    BY <1>2, <2>1, Inserted
<1> QED
  BY <1>1, <1>2

(* list_add tells a live value from a tombstone and from no node.          *)
LEMMA AddAccepts ==
  ASSUME NEW c \in Chains, NEW k \in Key
  PROVE  ListAddAccepts(c, k) <=>
           ListGet(c, k) = NoEntry \/ ListGet(c, k).data = NoData
BY GetType DEF ListAddAccepts, ListGet

-----------------------------------------------------------------------------
Entries == [k \in Key |-> ListGet(chain[Hash[k]], k)]

ChainInv == TypeOK /\ ChainsSorted

(* The chains of the table, each with the keys that hash to it.            *)
LEMMA ChainOf ==
  ASSUME ChainInv
  PROVE  /\ \A b \in Bucket : chain[b] \in Chains
         /\ \A k \in Key : Hash[k] \in Bucket /\ chain[Hash[k]] \in Chains
         /\ \A b \in Bucket : \A i \in 1 .. Len(chain[b]) : Hash[chain[b][i].key] = b
<1>1. \A b \in Bucket : chain[b] \in Chains
  BY DEF ChainInv, TypeOK, ChainsSorted, Chains, Sorted
<1>2. \A k \in Key : Hash[k] \in Bucket
  BY HashAssumption DEF Bucket
<1> QED
  BY <1>1, <1>2 DEF ChainInv, ChainsSorted

(* d is the chain c with another node for k, or without one.               *)
KeyChanged(c, d, k) ==
  /\ \A i \in 1 .. Len(d) : d[i].key = k \/ \E j \in 1 .. Len(c) : c[j] = d[i]
  /\ \A h \in Key \ {k} : ListGet(d, h) = ListGet(c, h)

(* A change of one chain that only concerns one key changes what that key  *)
(* reads, and leaves the chains in order.                                  *)
LEMMA ChainChanged ==
  ASSUME ChainInv, NEW k \in Key, NEW c, NEW d,
         c = chain[Hash[k]], d \in Chains, KeyChanged(c, d, k),
         chain' = [chain EXCEPT ![Hash[k]] = d]
  PROVE  /\ chain' \in [Bucket -> Seq(Node)]
         /\ ChainsSorted'
         /\ Entries' = [Entries EXCEPT ![k] = ListGet(d, k)]
<1>0. /\ \A i \in 1 .. Len(d) :
           d[i].key = k \/ \E j \in 1 .. Len(chain[Hash[k]]) : chain[Hash[k]][j] = d[i]
      /\ \A h \in Key \ {k} : ListGet(d, h) = ListGet(chain[Hash[k]], h)
  BY DEF KeyChanged
<1>1. /\ chain \in [Bucket -> Seq(Node)] /\ Hash[k] \in Bucket /\ d \in Seq(Node)
      /\ \A b \in Bucket : chain'[b] = IF b = Hash[k] THEN d ELSE chain[b]
  BY ChainOf DEF ChainInv, TypeOK, Chains
<1>2. chain' \in [Bucket -> Seq(Node)]
  BY <1>1
<1>3. ChainsSorted'
  <2>1. \A i \in 1 .. Len(d) : Hash[d[i].key] = Hash[k]
    BY <1>0, <1>1, ChainOf
  <2>2. \A i, j \in 1 .. Len(d) : i < j => d[i].key < d[j].key
    BY DEF Chains, Sorted
  <2>3. ASSUME NEW b \in Bucket
        PROVE  /\ \A i \in 1 .. Len(chain'[b]) : Hash[chain'[b][i].key] = b
               /\ \A i, j \in 1 .. Len(chain'[b]) :
                    i < j => chain'[b][i].key < chain'[b][j].key
    <3>1. CASE b = Hash[k]
      <4>1. chain'[b] = d
        BY <1>1, <3>1
      <4> QED
        BY <2>1, <2>2, <3>1, <4>1
    <3>2. CASE b # Hash[k]
      <4>1. chain'[b] = chain[b]
        BY <1>1, <3>2
      <4> QED
        BY <4>1 DEF ChainInv, ChainsSorted
    <3> QED
      BY <3>1, <3>2
  <2> QED
    BY <2>3 DEF ChainsSorted
<1>4. \A h \in Key : ListGet(chain'[Hash[h]], h) =
                       IF h = k THEN ListGet(d, k) ELSE ListGet(chain[Hash[h]], h)
  <2> TAKE h \in Key
  <2>1. Hash[h] \in Bucket
    BY ChainOf
  <2>2. CASE Hash[h] = Hash[k]
    BY <1>0, <1>1, <2>1, <2>2
  <2>3. CASE Hash[h] # Hash[k]
    BY <1>1, <2>1, <2>3
  <2> QED
    BY <2>2, <2>3
<1>5. Entries' = [Entries EXCEPT ![k] = ListGet(d, k)]
  BY <1>4 DEF Entries
<1> QED
  BY <1>2, <1>3, <1>5

-----------------------------------------------------------------------------
(* Each operation of table.c: what it does to the chains, and that it is   *)
(* the operation of the abstract table.                                    *)

LEMMA PutStep ==
  ASSUME ChainInv, NEW k \in Key, NEW v \in PutValue, Put(k, v)
  PROVE  ChainInv' /\ T!Put(k, v)
<1> DEFINE c == chain[Hash[k]]
           ok == ListAddAccepts(c, k)
<1>1. /\ More
      /\ chain' = [chain EXCEPT ![Hash[k]] = ListAdd(c, k, v)]
      /\ size' = size + (IF ok THEN 1 ELSE 0)
      /\ nChanges' = nChanges + 1
      /\ reply' = Answer("put", ok)
      /\ dels' = dels
  BY DEF Put
<1>2. c \in Chains /\ v \in Value /\ chain \in [Bucket -> Seq(Node)]
      /\ size \in Int /\ nChanges \in Nat
  BY ChainOf DEF PutValue, ChainInv, TypeOK
<1>3. ok <=> k \notin Live(Abstract)
  <2>1. Abstract.entry[k] = ListGet(c, k)
    BY DEF Abstract
  <2>2. k \in Live(Abstract) <=>
          Abstract.entry[k] # NoEntry /\ Abstract.entry[k].data # NoData
    BY DEF Live, Present
  <2> QED
    BY <1>2, <2>1, <2>2, AddAccepts
<1>4. /\ chain' \in [Bucket -> Seq(Node)] /\ ChainsSorted'
      /\ ok => Entries' = [Entries EXCEPT ![k] = v]
      /\ ~ ok => Entries' = Entries
  <2>1. CASE ok
    <3>1. PICK d : d = ListAdd(c, k, v)
      OBVIOUS
    <3>2. /\ d \in Chains
          /\ \A i \in 1 .. Len(d) : d[i].key = k \/ \E j \in 1 .. Len(c) : c[j] = d[i]
          /\ ListGet(d, k) = v
          /\ \A h \in Key \ {k} : ListGet(d, h) = ListGet(c, h)
      <4> HIDE DEF c
      <4>1. ListAddAccepts(c, k)
        BY <2>1
      <4> QED
        BY <1>2, <3>1, <4>1, Added
    <3>3. chain' = [chain EXCEPT ![Hash[k]] = d]
      BY <1>1, <3>1
    <3>4. /\ chain' \in [Bucket -> Seq(Node)] /\ ChainsSorted'
          /\ Entries' = [Entries EXCEPT ![k] = v]
      <4>1. c = chain[Hash[k]] /\ KeyChanged(c, d, k)
        BY <3>2 DEF KeyChanged
      <4> HIDE DEF c, ok
      <4> QED
        BY <3>2, <3>3, <4>1, ChainChanged
    <3> QED
      BY <2>1, <3>4
  <2>2. CASE ~ ok
    <3>1. ListAdd(c, k, v) = c
      BY <2>2 DEF ListAdd
    <3>2. chain' = chain
      BY <1>1, <1>2, <3>1
    <3> QED
      BY <1>2, <2>2, <3>2 DEF ChainInv, ChainsSorted, Entries
  <2> QED
    BY <2>1, <2>2
<1> HIDE DEF ok
<1>5. ChainInv'
  BY <1>1, <1>2, <1>4 DEF ChainInv, TypeOK
<1>6. T!Put(k, v)
  <2>1. Abstract = [entry |-> Entries, size |-> size, nChanges |-> nChanges]
        /\ Abstract' = [entry |-> Entries', size |-> size', nChanges |-> nChanges']
    BY DEF Abstract, Entries
  <2>2. T!PutAccepts(Abstract, k) <=> ok
    BY <1>3 DEF T!PutAccepts, T!Live, T!Present, Live, Present
  <2>3. Abstract' = T!TablePut(Abstract, k, v)
    <3>1. CASE ok
      BY <1>1, <1>4, <2>1, <2>2, <3>1 DEF T!TablePut
    <3>2. CASE ~ ok
      <4>1. size' = size
        BY <1>1, <1>2, <3>2
      <4> QED
        BY <1>1, <1>4, <2>1, <2>2, <3>2, <4>1 DEF T!TablePut
    <3> QED
      BY <3>1, <3>2
  <2>4. T!More /\ reply' = T!Answer("put", T!PutAccepts(Abstract, k))
    BY <1>1, <2>1, <2>2 DEF More, T!More, Answer, T!Answer
  <2> QED
    BY <1>1, <2>3, <2>4 DEF T!Put
<1> QED
  BY <1>5, <1>6

LEMMA UpdateStep ==
  ASSUME ChainInv, NEW k \in Key, NEW v \in Value, Update(k, v)
  PROVE  ChainInv' /\ T!Update(k, v)
<1> DEFINE c == chain[Hash[k]]
           no == UpdateRefused(k, v)
<1>1. /\ More
      /\ no => chain' = chain /\ size' = size /\ nChanges' = nChanges
      /\ ~ no => /\ chain' = [chain EXCEPT ![Hash[k]] = ListSet(c, k, v)]
                 /\ size' = size - (IF v.data = NoData THEN 1 ELSE 0)
                 /\ nChanges' = nChanges + 1
      /\ reply' = Answer("update", ~ no)
      /\ dels' = dels
  BY DEF Update
<1>2. c \in Chains /\ chain \in [Bucket -> Seq(Node)]
      /\ size \in Int /\ nChanges \in Nat
  BY ChainOf DEF ChainInv, TypeOK
<1>3. no <=> ListGet(c, k) = NoEntry \/ ListGet(c, k).ts \div 1000 >= v.ts
  BY DEF UpdateRefused
<1>4. /\ chain' \in [Bucket -> Seq(Node)] /\ ChainsSorted'
      /\ ~ no => Entries' = [Entries EXCEPT ![k] = v]
      /\ no => Entries' = Entries
  <2>1. CASE ~ no
    <3>1. PICK d : d = ListSet(c, k, v)
      OBVIOUS
    <3>2. /\ d \in Chains
          /\ \A i \in 1 .. Len(d) : d[i].key = k \/ \E j \in 1 .. Len(c) : c[j] = d[i]
          /\ ListGet(d, k) = v
          /\ \A h \in Key \ {k} : ListGet(d, h) = ListGet(c, h)
      <4> HIDE DEF c
      <4>1. Has(c, k)
        BY <1>2, <1>3, <2>1, GetType
      <4> QED
        BY <1>2, <3>1, <4>1, Overwritten
    <3>3. chain' = [chain EXCEPT ![Hash[k]] = d]
      BY <1>1, <2>1, <3>1
    <3>4. /\ chain' \in [Bucket -> Seq(Node)] /\ ChainsSorted'
          /\ Entries' = [Entries EXCEPT ![k] = v]
      <4>1. c = chain[Hash[k]] /\ KeyChanged(c, d, k)
        BY <3>2 DEF KeyChanged
      <4> HIDE DEF c, no
      <4> QED
        BY <3>2, <3>3, <4>1, ChainChanged
    <3> QED
      BY <2>1, <3>4
  <2>2. CASE no
    BY <1>1, <1>2, <2>2 DEF ChainInv, ChainsSorted, Entries
  <2> QED
    BY <2>1, <2>2
<1> HIDE DEF no
<1>5. ChainInv'
  BY <1>1, <1>2, <1>4 DEF ChainInv, TypeOK
<1>6. T!Update(k, v)
  <2>1. Abstract = [entry |-> Entries, size |-> size, nChanges |-> nChanges]
        /\ Abstract' = [entry |-> Entries', size |-> size', nChanges |-> nChanges']
    BY DEF Abstract, Entries
  <2>2. T!UpdateAccepts(Abstract, k, v) <=> ~ no
    <3>1. Abstract.entry[k] = ListGet(c, k)
      BY DEF Abstract
    <3> QED
      BY <1>3, <3>1 DEF T!UpdateAccepts, T!Present
  <2>3. Abstract' = T!TableUpdate(Abstract, k, v)
    <3>1. CASE ~ no
      <4>1. size' = IF v.data = NoData THEN size - 1 ELSE size
        BY <1>1, <1>2, <3>1
      <4> QED
        BY <1>1, <1>4, <2>1, <2>2, <3>1, <4>1 DEF T!TableUpdate
    <3>2. CASE no
      BY <1>1, <1>4, <2>1, <2>2, <3>2 DEF T!TableUpdate
    <3> QED
      BY <3>1, <3>2
  <2>4. T!More /\ reply' = T!Answer("update", T!UpdateAccepts(Abstract, k, v))
    BY <1>1, <2>1, <2>2 DEF More, T!More, Answer, T!Answer
  <2> QED
    BY <1>1, <2>3, <2>4 DEF T!Update
<1> QED
  BY <1>5, <1>6

LEMMA DelStep ==
  ASSUME ChainInv, NEW k \in Key, Del(k)
  PROVE  ChainInv' /\ T!Del(k)
<1> DEFINE c == chain[Hash[k]]
<1>1. /\ More /\ dels < MaxDels /\ dels' = dels + 1
      /\ chain' = [chain EXCEPT ![Hash[k]] = ListRemove(c, k)]
      /\ nChanges' = nChanges + 1
      /\ reply' = Answer("del", IndexOf(c, k) # 0)
      /\ size' = size
  BY DEF Del
<1>2. c \in Chains /\ chain \in [Bucket -> Seq(Node)]
      /\ size \in Int /\ nChanges \in Nat
  BY ChainOf DEF ChainInv, TypeOK
<1>3. /\ chain' \in [Bucket -> Seq(Node)] /\ ChainsSorted'
      /\ Entries' = [Entries EXCEPT ![k] = NoEntry]
  <2>1. PICK d : d = ListRemove(c, k)
    OBVIOUS
  <2>2. /\ d \in Chains
        /\ \A i \in 1 .. Len(d) : \E j \in 1 .. Len(c) : c[j] = d[i]
        /\ ListGet(d, k) = NoEntry
        /\ \A h \in Key \ {k} : ListGet(d, h) = ListGet(c, h)
    <3> HIDE DEF c
    <3> QED
      BY <1>2, <2>1, Removed
  <2>3. chain' = [chain EXCEPT ![Hash[k]] = d]
    BY <1>1, <2>1
  <2>4. c = chain[Hash[k]] /\ KeyChanged(c, d, k)
    BY <2>2 DEF KeyChanged
  <2> HIDE DEF c
  <2> QED
    BY <2>2, <2>3, <2>4, ChainChanged
<1>4. ChainInv'
  BY <1>1, <1>2, <1>3 DEF ChainInv, TypeOK
<1>5. T!Del(k)
  <2>1. Abstract = [entry |-> Entries, size |-> size, nChanges |-> nChanges]
        /\ Abstract' = [entry |-> Entries', size |-> size', nChanges |-> nChanges']
    BY DEF Abstract, Entries
  <2>2. T!DelAccepts(Abstract, k) <=> IndexOf(c, k) # 0
    <3>1. Abstract.entry[k] = ListGet(c, k)
      BY DEF Abstract
    <3>2. IndexOf(c, k) # 0 <=> ListGet(c, k) # NoEntry
      BY <1>2, GetType
    <3> QED
      BY <3>1, <3>2 DEF T!DelAccepts, T!Present
  <2>3. Abstract' = T!TableDel(Abstract, k)
    BY <1>1, <1>3, <2>1 DEF T!TableDel
  <2>4. T!More /\ reply' = T!Answer("del", T!DelAccepts(Abstract, k))
    BY <1>1, <2>1, <2>2 DEF More, T!More, Answer, T!Answer
  <2> QED
    BY <1>1, <2>3, <2>4 DEF T!Del
<1> QED
  BY <1>4, <1>5

-----------------------------------------------------------------------------
(* The chains of an empty table are empty, and no key has a node.          *)
LEMMA ChainsAtStart ==
  ASSUME Init
  PROVE  ChainInv /\ T!Init
<1>1. /\ chain = [b \in Bucket |-> <<>>] /\ size = 0 /\ nChanges = 0
      /\ reply = [op |-> "none", ret |-> 0] /\ dels = 0
  BY DEF Init
<1>2. ChainInv
  BY <1>1 DEF ChainInv, TypeOK, ChainsSorted
<1>3. ASSUME NEW k \in Key
      PROVE  ListGet(chain[Hash[k]], k) = NoEntry
  <2>1. chain[Hash[k]] = <<>> /\ chain[Hash[k]] \in Chains
    BY <1>1, <1>2, ChainOf
  <2>2. ~ Has(chain[Hash[k]], k)
    BY <2>1 DEF Has
  <2> QED
    BY <2>1, <2>2, GetNone
<1>4. T!Init
  BY <1>1, <1>3 DEF T!Init, T!EmptyTable, Abstract
<1> QED
  BY <1>2, <1>4

(* Every step of the chains is a step of the abstract table or none.       *)
LEMMA ChainsStep ==
  ASSUME ChainInv, [Next]_vars
  PROVE  ChainInv' /\ [T!Next]_(T!vars)
<1>1. ASSUME NEW k \in Key, NEW v \in PutValue, Put(k, v)
      PROVE  ChainInv' /\ T!Next
  BY <1>1, PutStep DEF T!Next, T!PutValue, PutValue, T!Value, Value
<1>2. ASSUME NEW k \in Key, NEW v \in Value, Update(k, v)
      PROVE  ChainInv' /\ T!Next
  BY <1>2, UpdateStep DEF T!Next, T!Value, Value
<1>3. ASSUME NEW k \in Key, Del(k)
      PROVE  ChainInv' /\ T!Next
  BY <1>3, DelStep DEF T!Next
<1>4. CASE UNCHANGED vars
  <2>1. ChainInv'
    BY <1>4 DEF vars, ChainInv, TypeOK, ChainsSorted
  <2>2. UNCHANGED T!vars
    BY <1>4 DEF vars, T!vars, Abstract
  <2> QED
    BY <2>1, <2>2
<1> QED
  BY <1>1, <1>2, <1>3, <1>4 DEF Next

(* The buckets hold sequences of nodes, and the counters are integers.     *)
THEOREM ChainTypes == Spec => []TypeOK
<1>1. Init => ChainInv
  BY ChainsAtStart
<1>2. ChainInv /\ [Next]_vars => ChainInv'
  BY ChainsStep
<1>3. ChainInv => TypeOK
  BY DEF ChainInv
<1> QED
  BY <1>1, <1>2, <1>3, PTL DEF Spec

(* For any number of keys and chains and any hash: a node is in the chain  *)
(* its key hashes to, and no key has two nodes (list_add, list_remove).    *)
THEOREM ChainsStaySorted == Spec => []ChainsSorted
<1>1. Init => ChainInv
  BY ChainsAtStart
<1>2. ChainInv /\ [Next]_vars => ChainInv'
  BY ChainsStep
<1>3. ChainInv => ChainsSorted
  BY DEF ChainInv
<1> QED
  BY <1>1, <1>2, <1>3, PTL DEF Spec

(* The chains implement the table of Table.tla: list_add, list_get and     *)
(* list_remove on them answer and change what TablePut, TableUpdate and    *)
(* TableDel do on a function from keys to entries.                         *)
THEOREM ChainsImplementTable == Spec => RefinesTable
<1>1. Init => ChainInv /\ T!Init
  BY ChainsAtStart
<1>2. ChainInv /\ [Next]_vars => ChainInv' /\ [T!Next]_(T!vars)
  BY ChainsStep
<1> QED
  BY <1>1, <1>2, PTL DEF Spec, RefinesTable, T!Spec

=============================================================================
