------------------------- MODULE MessageCodecProofs -------------------------
(***************************************************************************)
(* What buffer_to_message makes of what message_to_buffer wrote, for all   *)
(* keys and payloads whatever their lengths.                               *)
(***************************************************************************)
EXTENDS MessageCodec, TLAPS

(* A field is found at its offset if no other field starts there. *)
LEMMA FieldFound ==
  ASSUME NEW b, NEW o, NEW x,
         <<o, x>> \in b.fields,
         \A f \in b.fields : f[1] = o => f[2] = x
  PROVE  FieldAt(b, o) = x
<1> DEFINE f == CHOOSE f \in b.fields : f[1] = o
<1>1. \E g \in b.fields : g[1] = o
  OBVIOUS
<1>2. f \in b.fields /\ f[1] = o
  BY <1>1
<1>3. f[2] = x
  BY <1>2
<1> QED
  BY <1>1, <1>3 DEF FieldAt

(* The fields every message has are found. *)
LEMMA HeaderFound ==
  ASSUME NEW m, NEW size, NEW fields,
         \A f \in fields : f[1] # 0 /\ f[1] # 2
  PROVE  /\ FieldAt(Buffer(m, size, fields), 0) = m.op
         /\ FieldAt(Buffer(m, size, fields), 2) = m.type
<1> DEFINE b == Buffer(m, size, fields)
<1>1. b.fields = {<<0, m.op>>, <<2, m.type>>} \cup fields
  BY DEF Buffer
<1>2. FieldAt(b, 0) = m.op
  <2>1. <<0, m.op>> \in b.fields
    BY <1>1
  <2>2. \A f \in b.fields : f[1] = 0 => f[2] = m.op
    BY <1>1
  <2> QED
    BY <2>1, <2>2, FieldFound
<1>3. FieldAt(b, 2) = m.type
  <2>1. <<2, m.type>> \in b.fields
    BY <1>1
  <2>2. \A f \in b.fields : f[1] = 2 => f[2] = m.type
    BY <1>1
  <2> QED
    BY <2>1, <2>2, FieldFound
<1> QED
  BY <1>2, <1>3

(* A data_t is read back from where it was written, if nothing else starts *)
(* at one of its three offsets.                                            *)
LEMMA ValueFound ==
  ASSUME NEW b, NEW o \in Nat, NEW v \in [ts : Nat, data : Data \cup {NoData}],
         ValueFields(v, o) \subseteq b.fields,
         \A f \in b.fields \ ValueFields(v, o) : f[1] \notin {o, o + 4, o + 12}
  PROVE  ValueAt(b, o) = v
<1>1. ValueFields(v, o)
        = {<<o, Datasize[v.data]>>, <<o + 4, v.ts>>, <<o + 12, v.data>>}
  BY DEF ValueFields
<1>2. FieldAt(b, o) = Datasize[v.data]
  <2>1. \A f \in b.fields : f[1] = o => f[2] = Datasize[v.data]
    BY <1>1
  <2> QED
    BY <1>1, <2>1, FieldFound
<1>3. FieldAt(b, o + 4) = v.ts
  <2>1. \A f \in b.fields : f[1] = o + 4 => f[2] = v.ts
    BY <1>1
  <2> QED
    BY <1>1, <2>1, FieldFound
<1>4. FieldAt(b, o + 12) = v.data
  <2>1. \A f \in b.fields : f[1] = o + 12 => f[2] = v.data
    BY <1>1
  <2> QED
    BY <1>1, <2>1, FieldFound
<1>5. (IF FieldAt(b, o) = 0 THEN NoData ELSE FieldAt(b, o + 12)) = v.data
  BY <1>2, <1>4, CodecAssumption
<1> QED
  BY <1>3, <1>5 DEF ValueAt

(* Every message message_to_buffer accepts comes out of buffer_to_message  *)
(* as it went in, also an entry, whose offsets depend on the length of its *)
(* key, and a value without bytes.                                         *)
THEOREM RoundTrip ==
  ASSUME NEW Op, NEW m \in Messages(Op), Encode(m) # NoBuffer
  PROVE  Decode(Encode(m)) = m
<1> DEFINE Contents == [ts : Nat, data : Data \cup {NoData}]
           b == Encode(m)
<1>1. CASE m \in [op : Op, type : {"CT_KEY"}, key : Key]
  <2> DEFINE fields == {<<4, Strlen[m.key]>>, <<6, m.key>>}
  <2>1. b = Buffer(m, 6 + Strlen[m.key], fields)
    BY <1>1 DEF Encode
  <2>2. FieldAt(b, 0) = m.op /\ FieldAt(b, 2) = "CT_KEY"
    BY <1>1, <2>1, HeaderFound
  <2>3. FieldAt(b, 6) = m.key
    <3>1. b.fields = {<<0, m.op>>, <<2, m.type>>} \cup fields
      BY <2>1 DEF Buffer
    <3> HIDE DEF b
    <3>2. <<6, m.key>> \in b.fields
      BY <3>1
    <3>3. \A f \in b.fields : f[1] = 6 => f[2] = m.key
      BY <3>1
    <3> QED
      BY <3>2, <3>3, FieldFound
  <2>4. m = KeyMessage(m.op, m.key)
    BY <1>1 DEF KeyMessage
  <2> QED
    BY <2>2, <2>3, <2>4 DEF Decode
<1>2. CASE m \in [op : Op, type : {"CT_ENTRY"}, key : Key, value : Contents]
  <2> DEFINE len == Strlen[m.key]
             fields == {<<4, len>>, <<6, m.key>>} \cup ValueFields(m.value, 6 + len)
  <2>1. b = Buffer(m, 18 + len + Datasize[m.value.data], fields)
    BY <1>2 DEF Encode
  <2>2. m.key \in Key /\ m.value \in Contents /\ m.type = "CT_ENTRY"
    BY <1>2
  <2>3. len \in Nat \ {0}
    BY <2>2, CodecAssumption
  <2> HIDE DEF len
  <2>4. b.fields = {<<0, m.op>>, <<2, m.type>>, <<4, len>>, <<6, m.key>>}
                     \cup ValueFields(m.value, 6 + len)
    BY <2>1 DEF Buffer
  <2>5. \A f \in ValueFields(m.value, 6 + len) : f[1] \in Nat /\ f[1] > 6
    BY <2>3 DEF ValueFields
  <2>6. FieldAt(b, 0) = m.op /\ FieldAt(b, 2) = "CT_ENTRY"
    <3>1. \A f \in fields : f[1] # 0 /\ f[1] # 2
      BY <2>5
    <3> QED
      BY <2>1, <2>2, <3>1, HeaderFound
  <2> HIDE DEF b
  <2>7. FieldAt(b, 4) = len
    <3>1. <<4, len>> \in b.fields
      BY <2>4
    <3>2. \A f \in b.fields : f[1] = 4 => f[2] = len
      BY <2>4, <2>5
    <3> QED
      BY <3>1, <3>2, FieldFound
  <2>8. FieldAt(b, 6) = m.key
    <3>1. <<6, m.key>> \in b.fields
      BY <2>4
    <3>2. \A f \in b.fields : f[1] = 6 => f[2] = m.key
      BY <2>4, <2>5
    <3> QED
      BY <3>1, <3>2, FieldFound
  <2>9. ValueAt(b, 6 + len) = m.value
    <3>1. \A f \in b.fields \ ValueFields(m.value, 6 + len) :
            f[1] \notin {6 + len, 6 + len + 4, 6 + len + 12}
      BY <2>3, <2>4
    <3>2. ValueFields(m.value, 6 + len) \subseteq b.fields
      BY <2>4
    <3>3. 6 + len \in Nat
      BY <2>3
    <3> QED
      BY <2>2, <3>1, <3>2, <3>3, ValueFound
  <2>10. m = EntryMessage(m.op, m.key, m.value)
    BY <1>2 DEF EntryMessage
  <2> QED
    BY <2>6, <2>7, <2>8, <2>9, <2>10 DEF Decode, b
<1>3. CASE m \in [op : Op, type : {"CT_RESULT"}, result : Int]
  <2>1. b = Buffer(m, 8, {<<4, m.result>>})
    BY <1>3 DEF Encode
  <2>2. FieldAt(b, 0) = m.op /\ FieldAt(b, 2) = "CT_RESULT"
    BY <1>3, <2>1, HeaderFound
  <2>3. FieldAt(b, 4) = m.result
    <3>1. b.fields = {<<0, m.op>>, <<2, m.type>>, <<4, m.result>>}
      BY <2>1 DEF Buffer
    <3> HIDE DEF b
    <3>2. <<4, m.result>> \in b.fields
      BY <3>1
    <3>3. \A f \in b.fields : f[1] = 4 => f[2] = m.result
      BY <3>1
    <3> QED
      BY <3>2, <3>3, FieldFound
  <2>4. m = ResultMessage(m.op, m.result)
    BY <1>3 DEF ResultMessage
  <2> QED
    BY <2>2, <2>3, <2>4 DEF Decode
<1>4. CASE m \in [op : Op, type : {"CT_VALUE"}, value : Contents]
  <2>1. b = Buffer(m, 16 + Datasize[m.value.data], ValueFields(m.value, 4))
    BY <1>4 DEF Encode
  <2>2. FieldAt(b, 0) = m.op /\ FieldAt(b, 2) = "CT_VALUE"
    <3>1. \A f \in ValueFields(m.value, 4) : f[1] # 0 /\ f[1] # 2
      BY DEF ValueFields
    <3> QED
      BY <1>4, <2>1, <3>1, HeaderFound
  <2>3. ValueAt(b, 4) = m.value
    <3>1. b.fields = {<<0, m.op>>, <<2, m.type>>} \cup ValueFields(m.value, 4)
      BY <2>1 DEF Buffer
    <3> HIDE DEF b
    <3>2. \A f \in b.fields \ ValueFields(m.value, 4) :
            f[1] \notin {4, 4 + 4, 4 + 12}
      BY <3>1
    <3> QED
      BY <1>4, <3>1, <3>2, ValueFound
  <2>4. m = ValueMessage(m.op, m.value)
    BY <1>4 DEF ValueMessage
  <2> QED
    BY <2>2, <2>3, <2>4 DEF Decode
<1>5. CASE m \in [op : Op, type : {"CT_TIMESTAMP"}, timestamp : Int]
  <2>1. b = Buffer(m, 12, {<<4, m.timestamp>>})
    BY <1>5 DEF Encode
  <2>2. FieldAt(b, 0) = m.op /\ FieldAt(b, 2) = "CT_TIMESTAMP"
    BY <1>5, <2>1, HeaderFound
  <2>3. FieldAt(b, 4) = m.timestamp
    <3>1. b.fields = {<<0, m.op>>, <<2, m.type>>, <<4, m.timestamp>>}
      BY <2>1 DEF Buffer
    <3> HIDE DEF b
    <3>2. <<4, m.timestamp>> \in b.fields
      BY <3>1
    <3>3. \A f \in b.fields : f[1] = 4 => f[2] = m.timestamp
      BY <3>1
    <3> QED
      BY <3>2, <3>3, FieldFound
  <2>4. m = TimestampMessage(m.op, m.timestamp)
    BY <1>5 DEF TimestampMessage
  <2> QED
    BY <2>2, <2>3, <2>4 DEF Decode
<1> QED
  BY <1>1, <1>2, <1>3, <1>4, <1>5 DEF Messages

=============================================================================
