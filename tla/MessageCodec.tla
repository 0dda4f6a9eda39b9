---------------------------- MODULE MessageCodec ----------------------------
(***************************************************************************)
(* Messages and their bytes (src/network/message.c).                       *)
(*                                                                         *)
(* A buffer is its size and its fields, each a pair of the offset of its   *)
(* first byte and of what it holds.  A reader computes the offsets from    *)
(* the lengths it has read so far; where no field starts it gets Garbage.  *)
(* The bytes of a field, and their order, are left out, and so are the     *)
(* keys of CT_KEYS.                                                        *)
(***************************************************************************)
EXTENDS TableOps

CONSTANTS
  Strlen,      \* the length of a key, a function
  Datasize,    \* the length of a payload, a function
  Garbage,     \* what is read where nothing was written
  NoBuffer,    \* message_to_buffer returns -1
  NoMessage    \* buffer_to_message returns NULL

ASSUME CodecAssumption ==
  /\ Strlen \in [Key -> Nat \ {0}]
  /\ Datasize \in [Data \cup {NoData} -> Nat]
  /\ \A d \in Data \cup {NoData} : Datasize[d] = 0 <=> d = NoData

-----------------------------------------------------------------------------
KeyMessage(op, k) == [op |-> op, type |-> "CT_KEY", key |-> k]

EntryMessage(op, k, v) == [op |-> op, type |-> "CT_ENTRY", key |-> k, value |-> v]

ResultMessage(op, n) == [op |-> op, type |-> "CT_RESULT", result |-> n]

ValueMessage(op, v) == [op |-> op, type |-> "CT_VALUE", value |-> v]

TimestampMessage(op, n) == [op |-> op, type |-> "CT_TIMESTAMP", timestamp |-> n]

(* struct message_t, with opcodes from Op.  The timestamp of a value is    *)
(* any number here, that of a request or of an answer.                     *)
Messages(Op) ==
  LET Contents == [ts : Nat, data : Data \cup {NoData}]
  IN  [op : Op, type : {"CT_KEY"}, key : Key]
      \cup [op : Op, type : {"CT_ENTRY"}, key : Key, value : Contents]
      \cup [op : Op, type : {"CT_RESULT"}, result : Int]
      \cup [op : Op, type : {"CT_VALUE"}, value : Contents]
      \cup [op : Op, type : {"CT_TIMESTAMP"}, timestamp : Int]

-----------------------------------------------------------------------------
(* putOPandCTCode, and what the cases of message_to_buffer have in common. *)
Buffer(m, size, fields) ==
  [size |-> size, fields |-> {<<0, m.op>>, <<2, m.type>>} \cup fields]

(* A data_t from offset o on: its length, its timestamp, its bytes.        *)
ValueFields(v, o) ==
  {<<o, Datasize[v.data]>>, <<o + 4, v.ts>>, <<o + 12, v.data>>}

(* message_to_buffer.  A timestamp of 0, which is what table_get_ts says   *)
(* of a key that is not there, has no encoding.                            *)
Encode(m) ==
  CASE m.type = "CT_TIMESTAMP" ->
         IF m.timestamp > 0
         THEN Buffer(m, 12, {<<4, m.timestamp>>}) ELSE NoBuffer
    [] m.type = "CT_RESULT" ->
         IF m.result >= -1
         THEN Buffer(m, 8, {<<4, m.result>>}) ELSE NoBuffer
    [] m.type = "CT_VALUE" ->
         Buffer(m, 16 + Datasize[m.value.data], ValueFields(m.value, 4))
    [] m.type = "CT_KEY" ->
         Buffer(m, 6 + Strlen[m.key], {<<4, Strlen[m.key]>>, <<6, m.key>>})
    [] m.type = "CT_ENTRY" ->
         LET len == Strlen[m.key]
         IN  Buffer(m, 18 + len + Datasize[m.value.data],
                    {<<4, len>>, <<6, m.key>>} \cup ValueFields(m.value, 6 + len))

FieldAt(b, o) ==
  IF \E f \in b.fields : f[1] = o
  THEN (CHOOSE f \in b.fields : f[1] = o)[2] ELSE Garbage

(* data_create with the length read, then the bytes.                       *)
ValueAt(b, o) ==
  [ts |-> FieldAt(b, o + 4),
   data |-> IF FieldAt(b, o) = 0 THEN NoData ELSE FieldAt(b, o + 12)]

(* buffer_to_message *)
Decode(b) ==
  LET op == FieldAt(b, 0)
      type == FieldAt(b, 2)
  IN  CASE type = "CT_TIMESTAMP" -> TimestampMessage(op, FieldAt(b, 4))
        [] type = "CT_RESULT" -> ResultMessage(op, FieldAt(b, 4))
        [] type = "CT_VALUE" -> ValueMessage(op, ValueAt(b, 4))
        [] type = "CT_KEY" -> KeyMessage(op, FieldAt(b, 6))
        [] type = "CT_ENTRY" ->
             EntryMessage(op, FieldAt(b, 6), ValueAt(b, 6 + FieldAt(b, 4)))
        [] OTHER -> NoMessage

=============================================================================
