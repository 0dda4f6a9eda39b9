-------------------------- MODULE QuorumTableProofs --------------------------
(***************************************************************************)
(* QuorumTable for any clients and any number of operations, timeouts and  *)
(* deaths: with an odd number of servers, what a put has stored is found   *)
(* as long as nothing is deleted; and while one server answers every call  *)
(* and writes do not overlap, what a get returns is not stale.             *)
(***************************************************************************)
EXTENDS QuorumTable, FiniteSetTheorems, SequenceTheorems, TLAPS

(* With an even number of servers two quorums need not meet.               *)
OddServers == \E n \in Nat : Cardinality(Server) = 2 * n + 1

(* The timestamps are those the clients make.                              *)
ClientStamps == Stamp = {n * 1000 + c : n \in Nat \ {0}, c \in Client}

-----------------------------------------------------------------------------
Absent == [ts |-> 1, data |-> NoData]

ReadMessage == [call : Nat, op : {"OC_GET"}, value : {None}, by : Nat]

WriteMessage == [call : Nat, op : {"OC_PUT", "OC_UPDATE"}, value : Value, by : Nat]

Message == ReadMessage \cup WriteMessage

Answers == [value : Value \cup {Absent} \cup {0, -1}, by : Nat]

(* The types of what the invariant speaks of. *)
Types ==
  /\ table \in [Server -> Tables]
  /\ pc \in [Client -> {"idle", "read", "write", "dead"}]
  /\ op \in [Client -> [kind : {"none", "get", "put", "update", "del"},
                        data : Data \cup {NoData}, number : Nat]]
  /\ id \in [Client -> Nat]
  /\ request \in [Client -> Message \cup {Nobody}]
  /\ tasks \in [Client -> [Server -> Seq(Message)]]
  /\ answers \in [Client -> [Server -> Answers \cup {None}]]
  /\ result \in [Client ->
       [ret : {"none", "value", "null", "ok", "refused"}, by : Nat]]
  /\ author \in [Server -> Nat]
  /\ known \in [Client -> [done : SUBSET Nat, stale : SUBSET Nat, put : BOOLEAN]]
  /\ ops \in Nat
  /\ done \subseteq Nat /\ stale \subseteq Nat
  /\ put \in BOOLEAN /\ deleted \in BOOLEAN

LiveAt(s) == key \in Live(table[s])

Holders == {s \in Server : LiveAt(s)}

(* Nothing is deleted: what a server has of the key is a value, and what a *)
(* put has stored is at a quorum.                                          *)
Held ==
  /\ \A s \in Server : key \in Present(table[s]) => LiveAt(s)
  /\ put => Cardinality(Holders) >= K

(* The requests of c that may be under way. *)
Allowed(c) ==
  {m \in Message :
     /\ m.call <= id[c]
     /\ m.call = id[c] => pc[c] # "idle" /\ (pc[c] # "dead" => m.op = request[c].op)
     /\ ~ deleted => m \in ReadMessage \/ m.value.data # NoData}

(* The servers that hold a value and have not told c that they had none.   *)
Kept(c) ==
  {s \in Server :
     LiveAt(s) /\ (answers[c][s] = None \/ answers[c][s].value.data # NoData)}

ReadInv(c) ==
  /\ op[c].kind # "none"
  /\ request[c] \in ReadMessage /\ request[c].call = id[c]
  /\ \A s \in Answered(c) :
       /\ answers[c][s].value \in Value \cup {Absent}
       /\ ~ deleted => answers[c][s].value = Absent \/ answers[c][s].value.data # NoData
  /\ ~ deleted /\ known[c].put => Cardinality(Kept(c)) >= K

WriteInv(c) ==
  /\ request[c] \in WriteMessage /\ request[c].call = id[c]
  /\ request[c].op = IF op[c].kind = "put" THEN "OC_PUT" ELSE "OC_UPDATE"
  /\ op[c].kind \in {"put", "update", "del"}
  /\ ~ deleted =>
       /\ request[c].value.data # NoData
       /\ OddServers /\ known[c].put => op[c].kind = "update"
  /\ \A s \in Answered(c) :
       IF op[c].kind = "put" THEN ~ deleted => LiveAt(s)
       ELSE answers[c][s].value = 0

(* What an operation is told that finds the key. *)
Finds(kind, ret) ==
  \/ kind = "get" /\ ret = "value"
  \/ kind = "put" /\ ret = "refused"
  \/ kind = "update" /\ ret = "ok"

ResultInv(c) ==
  /\ known[c].put => put
  /\ ~ deleted =>
       /\ op[c].kind # "del"
       /\ op[c].kind \in {"put", "update"} => op[c].data # NoData
       /\ OddServers /\ known[c].put /\ result[c].ret # "none" =>
            Finds(op[c].kind, result[c].ret)

ClientInv(c) ==
  /\ \A s \in Server : tasks[c][s] \in Seq(Allowed(c))
  /\ pc[c] = "read" => ReadInv(c)
  /\ pc[c] = "write" => WriteInv(c)
  /\ ResultInv(c)

PresenceInv ==
  /\ Types
  /\ ~ deleted => Held
  /\ \A c \in Client : ClientInv(c)

-----------------------------------------------------------------------------
(* The size of a quorum, *)
LEMMA QuorumSize == IsFiniteSet(Server) /\ Cardinality(Server) \in Nat /\ K \in Nat
<1>1. Cardinality(Server) \in Nat
  BY QuorumTableAssumption, FS_CardinalityType
<1> QED
  BY <1>1, QuorumTableAssumption DEF K, Ceil2

(* which is a majority of an odd number. *)
LEMMA Quorum ==
  ASSUME OddServers
  PROVE  /\ IsFiniteSet(Server)
         /\ K \in Nat \ {0} /\ 2 * K > Cardinality(Server)
<1>1. PICK n \in Nat : Cardinality(Server) = 2 * n + 1
  BY DEF OddServers
<1>2. Ceil2(2 * n + 1) = n + 1
  BY DEF Ceil2
<1> QED
  BY <1>1, <1>2, QuorumTableAssumption DEF K

(* Two sets of at least K servers have one in common. *)
LEMMA QuorumsMeet ==
  ASSUME OddServers, NEW A \in SUBSET Server, NEW B \in SUBSET Server,
         Cardinality(A) >= K, Cardinality(B) >= K
  PROVE  \E s \in A : s \in B
<1>1. /\ IsFiniteSet(A) /\ IsFiniteSet(B) /\ IsFiniteSet(A \cup B)
      /\ Cardinality(A \cup B) <= Cardinality(Server)
      /\ A \cap B \in SUBSET Server
  BY Quorum, FS_Subset
<1>2. Cardinality(A \cup B) = Cardinality(A) + Cardinality(B) - Cardinality(A \cap B)
  BY <1>1, FS_Union
<1>3. /\ Cardinality(A) \in Nat /\ Cardinality(B) \in Nat
      /\ Cardinality(Server) \in Nat /\ Cardinality(A \cup B) \in Nat
  BY <1>1, Quorum, FS_CardinalityType
<1>4. Cardinality(A \cap B) # 0
  BY <1>1, <1>2, <1>3, Quorum
<1> QED
  BY <1>4, FS_EmptySet

(* More servers are still a quorum. *)
LEMMA QuorumGrows ==
  ASSUME NEW A \in SUBSET Server, NEW B \in SUBSET Server,
         A \subseteq B, Cardinality(A) >= K
  PROVE  Cardinality(B) >= K
<1>1. IsFiniteSet(B)
  BY QuorumSize, FS_Subset
<1>2. Cardinality(A) <= Cardinality(B) /\ IsFiniteSet(A)
  BY <1>1, FS_Subset
<1>3. Cardinality(A) \in Nat /\ Cardinality(B) \in Nat
  BY <1>1, <1>2, FS_CardinalityType
<1> QED
  BY <1>2, <1>3, QuorumSize

(* Every timestamp is larger than the 1 of a value that is not there. *)
LEMMA StampLarge ==
  ASSUME ClientStamps, NEW t \in Stamp
  PROVE  t \in Nat /\ t > 1
<1>1. PICK n \in Nat \ {0}, c \in Client : t = n * 1000 + c
  BY DEF ClientStamps
<1>2. c \in 1 .. 999
  BY QuorumTableAssumption
<1> QED
  BY <1>1, <1>2

(* The timestamp of a write is one of them. *)
LEMMA StampMade ==
  ASSUME ClientStamps, NEW c \in Client, NEW t \in Nat
  PROVE  IncrementTs(t, c) \in Stamp
<1>1. t \div 1000 + 1 \in Nat \ {0}
  OBVIOUS
<1> DEFINE n == t \div 1000 + 1
<1>2. IncrementTs(t, c) = n * 1000 + c
  BY DEF IncrementTs
<1> HIDE DEF n
<1>3. n \in Nat \ {0}
  BY <1>1 DEF n
<1> QED
  BY <1>2, <1>3 DEF ClientStamps

(* A value is not the mark of an absent key. *)
LEMMA ValueIsEntry == \A v \in Value : v # NoEntry
BY TableAssumption

-----------------------------------------------------------------------------
(* What a request leaves in a table: a value that is there stays there,    *)
(* and a put leaves one in any case.                                       *)
LEMMA RequestKeeps ==
  ASSUME NEW t \in Tables, NEW m \in WriteMessage,
         NEW u, u = IF m.op = "OC_PUT" THEN TablePut(t, key, m.value)
                    ELSE TableUpdate(t, key, m.value)
  PROVE  /\ u \in Tables
         /\ m.value.data # NoData =>
              /\ key \in Live(t) => key \in Live(u)
              /\ (key \in Present(t) => key \in Live(t)) =>
                   (key \in Present(u) => key \in Live(u))
              /\ m.op = "OC_PUT" => key \in Live(u)
<1>1. key \in Key /\ m.value \in Value /\ m.value # NoEntry
  BY ValueIsEntry, QuorumTableAssumption DEF WriteMessage
<1>2. u \in Tables
  BY <1>1 DEF Tables, TablePut, TableUpdate, Slot
<1>3. u.entry[key] \in {t.entry[key], m.value}
  BY <1>1 DEF Tables, TablePut, TableUpdate
<1>4. \A w \in Tables :
        /\ key \in Present(w) <=> w.entry[key] # NoEntry
        /\ key \in Live(w) <=> w.entry[key] # NoEntry /\ w.entry[key].data # NoData
  BY <1>1 DEF Present, Live
<1>5. m.op = "OC_PUT" => key \in Live(t) \/ u.entry[key] = m.value
  BY <1>1 DEF Tables, TablePut, PutAccepts
<1>6. m.op = "OC_PUT" /\ key \in Live(t) => u.entry[key] = t.entry[key]
  BY DEF TablePut, PutAccepts
<1> QED
  BY <1>1, <1>2, <1>3, <1>4, <1>5, <1>6

(* What a server says it has. *)
LEMMA GetAnswers ==
  ASSUME NEW t \in Tables
  PROVE  /\ TableGet(t, key) \in Value \cup {Absent}
         /\ key \in Live(t) => TableGet(t, key).data # NoData
         /\ (key \in Present(t) => key \in Live(t)) =>
              TableGet(t, key) = Absent \/ TableGet(t, key).data # NoData
<1>1. key \in Key /\ t.entry[key] \in Slot
  BY QuorumTableAssumption DEF Tables
<1>2. /\ key \in Present(t) <=> t.entry[key] # NoEntry
      /\ key \in Live(t) => key \in Present(t) /\ t.entry[key].data # NoData
  BY <1>1 DEF Present, Live
<1> QED
  BY <1>1, <1>2 DEF TableGet, Slot, Absent

-----------------------------------------------------------------------------
(* Sequences of requests that were allowed stay so when more are. *)
LEMMA SeqGrows ==
  ASSUME NEW A, NEW B, A \subseteq B, NEW s \in Seq(A)
  PROVE  s \in Seq(B)
BY SeqMonotonic

(* A step that is nothing to a client. *)
LEMMA Untouched ==
  ASSUME Types, NEW d \in Client, ClientInv(d),
         pc'[d] = pc[d], op'[d] = op[d], request'[d] = request[d],
         id'[d] = id[d], tasks'[d] = tasks[d], answers'[d] = answers[d],
         result'[d] = result[d], known'[d] = known[d],
         put => put', deleted => deleted',
         ~ deleted' => \A s \in Server : LiveAt(s) => LiveAt(s)'
  PROVE  ClientInv(d)'
<1>1. ASSUME NEW s \in Server
      PROVE  tasks'[d][s] \in Seq(Allowed(d)')
  <2>1. Allowed(d) \subseteq Allowed(d)'
    BY DEF Allowed
  <2> QED
    BY <2>1, SeqGrows DEF ClientInv
<1>2. Answered(d)' = Answered(d)
  BY DEF Answered
<1>3. ASSUME pc'[d] = "read"
      PROVE  ReadInv(d)'
  <2>1. ReadInv(d)
    BY <1>3 DEF ClientInv
  <2>2. ASSUME ~ deleted', known'[d].put
        PROVE  Cardinality(Kept(d)') >= K
    <3>1. Kept(d) \subseteq Kept(d)'
      BY <2>2 DEF Kept
    <3>2. Cardinality(Kept(d)) >= K
      BY <2>1, <2>2 DEF ReadInv
    <3>3. Kept(d) \in SUBSET Server /\ Kept(d)' \in SUBSET Server
      BY DEF Kept
    <3> QED
      BY <3>1, <3>2, <3>3, QuorumGrows
  <2> QED
    BY <1>2, <2>1, <2>2 DEF ReadInv
<1>4. ASSUME pc'[d] = "write"
      PROVE  WriteInv(d)'
  <2>1. WriteInv(d)
    BY <1>4 DEF ClientInv
  <2>2. Answered(d) \subseteq Server
    BY DEF Answered
  <2> QED
    BY <1>2, <2>1, <2>2 DEF WriteInv
<1>5. ResultInv(d)'
  BY DEF ClientInv, ResultInv
<1> QED
  BY <1>1, <1>3, <1>4, <1>5 DEF ClientInv

-----------------------------------------------------------------------------
(* No server has anything, and nothing is asked for. *)
LEMMA PresenceInit == Init => PresenceInv
<1> SUFFICES ASSUME Init PROVE PresenceInv
  OBVIOUS
<1>1. EmptyTable \in Tables /\ Present(EmptyTable) = {}
  BY DEF EmptyTable, Tables, Slot, Present
<1>2. Types
  <2>1. /\ table \in [Server -> Tables]
        /\ pc \in [Client -> {"idle", "read", "write", "dead"}]
    BY <1>1 DEF Init
  <2>8. id \in [Client -> Nat] /\ author \in [Server -> Nat] /\ ops \in Nat
    BY DEF Init
  <2>9. done \subseteq Nat /\ stale \subseteq Nat
    BY DEF Init
  <2>10. put \in BOOLEAN /\ deleted \in BOOLEAN
    BY DEF Init
  <2>2. op \in [Client -> [kind : {"none", "get", "put", "update", "del"},
                         data : Data \cup {NoData}, number : Nat]]
    BY DEF Init
  <2>3. request \in [Client -> Message \cup {Nobody}]
    BY DEF Init
  <2>4. tasks \in [Client -> [Server -> Seq(Message)]]
    BY DEF Init
  <2>5. answers \in [Client -> [Server -> Answers \cup {None}]]
    BY DEF Init
  <2>6. result \in [Client ->
          [ret : {"none", "value", "null", "ok", "refused"}, by : Nat]]
    BY DEF Init, Nothing
  <2>7. known \in [Client -> [done : SUBSET Nat, stale : SUBSET Nat, put : BOOLEAN]]
    BY DEF Init
  <2> QED
    BY <2>1, <2>2, <2>3, <2>4, <2>5, <2>6, <2>7, <2>8, <2>9, <2>10 DEF Types
<1>3. Held
  BY <1>1 DEF Init, Held
<1>4. ASSUME NEW c \in Client
      PROVE  ClientInv(c)
  <2>1. \A s \in Server : tasks[c][s] \in Seq(Allowed(c))
    BY DEF Init
  <2> QED
    BY <2>1 DEF Init, ClientInv, ResultInv, Nothing
<1> QED
  BY <1>2, <1>3, <1>4 DEF PresenceInv

(* The requests a call adds are allowed if the one it sends is. *)
LEMMA SentAllowed ==
  ASSUME Types, NEW c \in Client, NEW A, NEW m \in A,
         NEW left \in [Server -> Seq(A)]
  PROVE  /\ Sent(c, m, left)[c] \in [Server -> Seq(A)]
         /\ \A d \in Client \ {c} : Sent(c, m, left)[d] = tasks[d]
<1>1. \A s \in Server : Append(left[s], m) \in Seq(A)
  OBVIOUS
<1>2. [s \in Server |-> IF s \in quorum'[c] THEN Append(left[s], m) ELSE left[s]]
        \in [Server -> Seq(A)]
  BY <1>1
<1> QED
  BY <1>2 DEF Sent, Types

(* The same for the types of all queues. *)
LEMMA SentType ==
  ASSUME Types, NEW c \in Client, NEW m \in Message,
         NEW left \in [Server -> Seq(Message)]
  PROVE  Sent(c, m, left) \in [Client -> [Server -> Seq(Message)]]
<1>1. Sent(c, m, left)[c] \in [Server -> Seq(Message)]
  BY SentAllowed
<1> QED
  BY <1>1 DEF Sent, Types

(* A call begins without an answer. *)
LEMMA AccessAnswers ==
  ASSUME Types, NEW c \in Client, NEW m, Access(c, m)
  PROVE  /\ answers' = [answers EXCEPT ![c] = [s \in Server |-> None]]
         /\ request' = [request EXCEPT ![c] = m]
         /\ Answered(c)' = {}
         /\ \A s \in Server : answers'[c][s] = None
BY DEF Access, Answered, Types

(* An operation begins: what it will be told is still all to come. *)
LEMMA PresenceBegin ==
  ASSUME PresenceInv, NEW c \in Client,
         NEW kind \in {"get", "put", "update", "del"}, NEW x \in Data \cup {NoData},
         kind \in {"put", "update"} => x # NoData,
         Begin(c, kind, x)
  PROVE  PresenceInv'
<1> DEFINE m == [call |-> id[c], op |-> "OC_GET", value |-> None, by |-> ops + 1]
<1>1. Types /\ ClientInv(c) /\ (~ deleted => Held)
  BY DEF PresenceInv
<1>2. m \in ReadMessage
  BY <1>1 DEF Types, ReadMessage
<1>3. Access(c, m) /\ tasks' = Sent(c, m, tasks[c])
  BY DEF Begin
<1>4. /\ pc[c] = "idle" /\ pc' = [pc EXCEPT ![c] = "read"]
      /\ ops' = ops + 1
      /\ op' = [op EXCEPT ![c] = [kind |-> kind, data |-> x, number |-> ops + 1]]
      /\ result' = [result EXCEPT ![c] = Nothing]
      /\ deleted' = (deleted \/ kind = "del")
      /\ UNCHANGED <<table, id, author, done, stale, put>>
  BY DEF Begin
<1>5. \E D, S \in SUBSET Nat :
        known' = [known EXCEPT ![c] = [done |-> D, stale |-> S, put |-> put]]
  <2>1. /\ (IF kind = "get" THEN {} ELSE done) \in SUBSET Nat
        /\ (IF kind = "get" THEN stale ELSE {}) \in SUBSET Nat
    BY <1>1 DEF Types
  <2> QED
    BY <2>1 DEF Begin
<1>6. m.call = id[c] /\ m.op = "OC_GET"
  OBVIOUS
<1> HIDE DEF m
<1>7. /\ request' = [request EXCEPT ![c] = m]
      /\ answers' = [answers EXCEPT ![c] = [s \in Server |-> None]]
      /\ Answered(c)' = {} /\ \A s \in Server : answers'[c][s] = None
  BY <1>1, <1>3, AccessAnswers
<1>8. Types'
  <2>1. tasks' \in [Client -> [Server -> Seq(Message)]]
    BY <1>1, <1>2, <1>3, SentType DEF Types, Message
  <2>2. pc' \in [Client -> {"idle", "read", "write", "dead"}] /\ ops' \in Nat
    BY <1>1, <1>4 DEF Types
  <2>3. op' \in [Client -> [kind : {"none", "get", "put", "update", "del"},
                          data : Data \cup {NoData}, number : Nat]]
    BY <1>1, <1>4 DEF Types
  <2>4. request' \in [Client -> Message \cup {Nobody}]
    BY <1>1, <1>2, <1>7 DEF Types, Message
  <2>5. answers' \in [Client -> [Server -> Answers \cup {None}]]
    BY <1>1, <1>7 DEF Types
  <2>6. result' \in [Client ->
          [ret : {"none", "value", "null", "ok", "refused"}, by : Nat]]
    BY <1>1, <1>4 DEF Types, Nothing
  <2>7. known' \in [Client -> [done : SUBSET Nat, stale : SUBSET Nat, put : BOOLEAN]]
    BY <1>1, <1>5 DEF Types
  <2> QED
    BY <1>1, <1>4, <2>1, <2>2, <2>3, <2>4, <2>5, <2>6, <2>7 DEF Types
<1>9. ~ deleted' => ~ deleted /\ Held /\ Held'
  BY <1>1, <1>4 DEF Held, Holders, LiveAt
<1>10. ASSUME NEW d \in Client \ {c}
       PROVE  ClientInv(d)'
  <2>1. /\ pc'[d] = pc[d] /\ op'[d] = op[d] /\ request'[d] = request[d]
        /\ id'[d] = id[d] /\ answers'[d] = answers[d] /\ result'[d] = result[d]
        /\ known'[d] = known[d]
    BY <1>1, <1>4, <1>5, <1>7 DEF Types
  <2>2. tasks'[d] = tasks[d]
    <3>1. m \in Message /\ tasks[c] \in [Server -> Seq(Message)]
      BY <1>1, <1>2 DEF Types, Message
    <3> QED
      BY <1>1, <1>3, <3>1, SentAllowed
  <2>3. /\ put => put'
        /\ deleted => deleted'
        /\ \A s \in Server : LiveAt(s) => LiveAt(s)'
    BY <1>4 DEF LiveAt
  <2> QED
    BY <1>1, <2>1, <2>2, <2>3, Untouched DEF PresenceInv
<1>11. ClientInv(c)'
  <2>1. \A s \in Server : tasks'[c][s] \in Seq(Allowed(c)')
    <3>1. pc'[c] = "read" /\ id'[c] = id[c] /\ request'[c] = m
      BY <1>1, <1>4, <1>7 DEF Types
    <3>2. m \in Allowed(c)'
      BY <1>1, <1>2, <1>6, <3>1 DEF Allowed, Message, Types
    <3>3. Allowed(c) \subseteq Allowed(c)'
      BY <1>4, <3>1 DEF Allowed
    <3>4. tasks[c] \in [Server -> Seq(Allowed(c)')]
      BY <1>1, <3>3, SeqGrows DEF ClientInv, Types
    <3> QED
      BY <1>1, <1>3, <3>2, <3>4, SentAllowed
  <2>2. ReadInv(c)'
    <3>1. request'[c] = m /\ id'[c] = id[c]
      BY <1>1, <1>4, <1>7 DEF Types
    <3>2. ASSUME ~ deleted', known'[c].put
          PROVE  Cardinality(Kept(c)') >= K
      <4>1. put
        BY <1>1, <1>5, <3>2 DEF Types
      <4>2. Kept(c)' = Holders
        BY <1>4, <1>7 DEF Kept, Holders, LiveAt
      <4> QED
        BY <1>9, <3>2, <4>1, <4>2 DEF Held
    <3>3. op'[c].kind = kind
      BY <1>1, <1>4 DEF Types
    <3> QED
      BY <1>2, <1>6, <1>7, <3>1, <3>2, <3>3 DEF ReadInv
  <2>3. ResultInv(c)'
    <3>1. /\ op'[c].kind = kind /\ op'[c].data = x
          /\ result'[c].ret = "none" /\ known'[c].put = put
      BY <1>1, <1>4, <1>5 DEF Types, Nothing
    <3> QED
      BY <1>4, <3>1 DEF ResultInv
  <2>4. pc'[c] = "read"
    BY <1>1, <1>4 DEF Types
  <2> QED
    BY <2>1, <2>2, <2>3, <2>4 DEF ClientInv
<1> QED
  BY <1>8, <1>9, <1>10, <1>11 DEF PresenceInv

(* A server executes a request: a value stays where it is, and what it     *)
(* answers is what it has.                                                 *)
LEMMA PresenceServe ==
  ASSUME PresenceInv, NEW c \in Client, NEW s \in Server, Serve(c, s)
  PROVE  PresenceInv'
<1> DEFINE m == Head(tasks[c][s])
<1>1. Types /\ ClientInv(c) /\ (~ deleted => Held)
  BY DEF PresenceInv
<1>2. /\ tasks[c][s] # <<>>
      /\ tasks' = [tasks EXCEPT ![c][s] = Tail(@)]
      /\ table' = [table EXCEPT ![s] = Written(s, m)]
      /\ author' = [author EXCEPT ![s] = IF Takes(s, m) THEN m.by ELSE @]
      /\ \/ /\ m.call = id[c] /\ pc[c] \in {"read", "write"}
            /\ answers' = [answers EXCEPT ![c][s] = AnswerOf(s, m)]
         \/ answers' = answers
      /\ UNCHANGED <<pc, op, id, request, result, known, ops, done, stale, put, deleted>>
  BY DEF Serve, bounds, marks
<1>3. m \in Allowed(c)
  BY <1>1, <1>2 DEF ClientInv
<1>4. Tail(tasks[c][s]) \in Seq(Allowed(c)) /\ Tail(tasks[c][s]) \in Seq(Message)
  BY <1>1, <1>2 DEF ClientInv, Types
<1> HIDE DEF m
<1>5. m \in Message /\ (m \in ReadMessage \/ m \in WriteMessage)
  BY <1>3 DEF Allowed, Message
<1>6. /\ Written(s, m) \in Tables
      /\ ~ deleted =>
           /\ key \in Live(table[s]) => key \in Live(Written(s, m))
           /\ (key \in Present(table[s]) => key \in Live(table[s])) =>
                (key \in Present(Written(s, m)) => key \in Live(Written(s, m)))
           /\ m.op = "OC_PUT" => key \in Live(Written(s, m))
  <2>1. table[s] \in Tables
    BY <1>1 DEF Types
  <2>2. CASE m \in ReadMessage
    BY <2>1, <2>2 DEF Written, ReadMessage
  <2>3. CASE m \in WriteMessage
    <3>1. m.op \in {"OC_PUT", "OC_UPDATE"}
      BY <2>3 DEF WriteMessage
    <3>2. Written(s, m) = IF m.op = "OC_PUT" THEN TablePut(table[s], key, m.value)
                          ELSE TableUpdate(table[s], key, m.value)
      BY <3>1 DEF Written
    <3>3. ~ deleted => m.value.data # NoData
      BY <1>3, <3>1 DEF Allowed, ReadMessage
    <3> QED
      BY <2>1, <2>3, <3>2, <3>3, RequestKeeps
  <2> QED
    BY <1>5, <2>2, <2>3
<1>7. table' \in [Server -> Tables] /\ table'[s] = Written(s, m)
      /\ \A r \in Server \ {s} : table'[r] = table[r]
  BY <1>1, <1>2, <1>6 DEF Types
<1>8. ~ deleted => \A r \in Server : LiveAt(r) => LiveAt(r)'
  BY <1>6, <1>7 DEF LiveAt
<1>9. ~ deleted' => Held'
  <2> SUFFICES ASSUME ~ deleted' PROVE Held'
    OBVIOUS
  <2>1. ~ deleted /\ Held
    BY <1>1, <1>2
  <2>2. \A r \in Server : key \in Present(table'[r]) => LiveAt(r)'
    BY <1>6, <1>7, <2>1 DEF Held, LiveAt
  <2>3. Holders \subseteq Holders' /\ Holders \in SUBSET Server /\ Holders' \in SUBSET Server
    BY <1>8, <2>1 DEF Holders
  <2>4. put => Cardinality(Holders') >= K
    BY <2>1, <2>3, QuorumGrows DEF Held
  <2> QED
    BY <1>2, <2>2, <2>4 DEF Held
<1>10. AnswerOf(s, m) \in Answers
  <2>1. table[s] \in Tables /\ author[s] \in Nat
    BY <1>1 DEF Types
  <2>2. m.by \in Nat /\ m.op \in {"OC_GET", "OC_PUT", "OC_UPDATE"}
    BY <1>5 DEF ReadMessage, WriteMessage
  <2>3. TableGet(table[s], key) \in Value \cup {Absent}
    BY <2>1, GetAnswers
  <2> QED
    BY <2>1, <2>2, <2>3 DEF AnswerOf, Answers
<1>11. Types'
  <2>1. tasks' \in [Client -> [Server -> Seq(Message)]]
    BY <1>1, <1>2, <1>4 DEF Types
  <2>2. author' \in [Server -> Nat]
    BY <1>1, <1>2, <1>5 DEF Types, ReadMessage, WriteMessage
  <2>3. answers' \in [Client -> [Server -> Answers \cup {None}]]
    <3>1. answers \in [Client -> [Server -> Answers \cup {None}]]
      BY <1>1 DEF Types
    <3>2. CASE answers' = [answers EXCEPT ![c][s] = AnswerOf(s, m)]
      BY <1>10, <3>1, <3>2
    <3> QED
      BY <1>2, <3>1, <3>2
  <2> QED
    BY <1>1, <1>2, <1>7, <2>1, <2>2, <2>3 DEF Types
<1>12. ASSUME NEW d \in Client \ {c}
       PROVE  ClientInv(d)'
  <2>1. tasks'[d] = tasks[d] /\ answers'[d] = answers[d]
    BY <1>1, <1>2 DEF Types
  <2>2. ClientInv(d)
    BY DEF PresenceInv
  <2> QED
    BY <1>1, <1>2, <1>8, <2>1, <2>2, Untouched
<1>13. ASSUME NEW r \in Server
       PROVE  \/ answers'[c][r] = answers[c][r]
              \/ /\ r = s /\ m.call = id[c] /\ pc[c] \in {"read", "write"}
                 /\ answers'[c][r] = AnswerOf(s, m)
  BY <1>1, <1>2 DEF Types
<1>14. ClientInv(c)'
  <2>1. ASSUME NEW r \in Server
        PROVE  tasks'[c][r] \in Seq(Allowed(c)')
    <3>1. Allowed(c)' = Allowed(c)
      BY <1>2 DEF Allowed
    <3>2. tasks'[c][r] \in {tasks[c][r], Tail(tasks[c][s])} /\ (r # s => tasks'[c][r] = tasks[c][r])
      BY <1>1, <1>2 DEF Types
    <3> QED
      BY <1>1, <1>4, <3>1, <3>2 DEF ClientInv
  <2>2. ASSUME pc[c] = "read"
        PROVE  ReadInv(c)'
    <3>1. ReadInv(c) /\ request[c].op = "OC_GET"
      BY <1>1, <2>2 DEF ClientInv, ReadInv, ReadMessage
    <3>2. m.call = id[c] => /\ AnswerOf(s, m).value = TableGet(table[s], key)
      BY <1>3, <2>2, <3>1 DEF Allowed, AnswerOf
    <3>3. table[s] \in Tables
      BY <1>1 DEF Types
    <3>4. ASSUME NEW r \in Answered(c)'
          PROVE  /\ answers'[c][r].value \in Value \cup {Absent}
                 /\ ~ deleted => \/ answers'[c][r].value = Absent
                                 \/ answers'[c][r].value.data # NoData
      <4>1. r \in Server /\ answers'[c][r] # None
        BY <3>4 DEF Answered
      <4>2. CASE answers'[c][r] = answers[c][r]
        BY <3>1, <4>1, <4>2 DEF Answered, ReadInv
      <4>3. CASE r = s /\ m.call = id[c] /\ answers'[c][r] = AnswerOf(s, m)
        <5>1. answers'[c][r].value = TableGet(table[s], key)
          BY <3>2, <4>3
        <5>2. ~ deleted => (key \in Present(table[s]) => key \in Live(table[s]))
          BY <1>1 DEF Held, LiveAt
        <5> QED
          BY <3>3, <5>1, <5>2, GetAnswers
      <4> QED
        BY <1>13, <4>1, <4>2, <4>3
    <3>5. ASSUME ~ deleted, known[c].put
          PROVE  Cardinality(Kept(c)') >= K
      <4>1. ASSUME NEW r \in Kept(c)
            PROVE  r \in Kept(c)'
        <5>1. r \in Server /\ LiveAt(r) /\ LiveAt(r)'
          BY <1>8, <3>5 DEF Kept
        <5>2. CASE answers'[c][r] = answers[c][r]
          BY <5>1, <5>2 DEF Kept
        <5>3. CASE r = s /\ m.call = id[c] /\ answers'[c][r] = AnswerOf(s, m)
          <6>1. answers'[c][r].value = TableGet(table[s], key)
            BY <3>2, <5>3
          <6>2. key \in Live(table[s])
            BY <5>1, <5>3 DEF LiveAt
          <6> QED
            BY <3>3, <5>1, <6>1, <6>2, GetAnswers DEF Kept
        <5> QED
          BY <1>13, <5>1, <5>2, <5>3
      <4>2. Kept(c) \in SUBSET Server /\ Kept(c)' \in SUBSET Server
        BY DEF Kept
      <4>3. Cardinality(Kept(c)) >= K
        BY <3>1, <3>5 DEF ReadInv
      <4> QED
        BY <4>1, <4>2, <4>3, QuorumGrows
    <3> QED
      BY <1>2, <3>1, <3>4, <3>5 DEF ReadInv
  <2>3. ASSUME pc[c] = "write"
        PROVE  WriteInv(c)'
    <3>1. WriteInv(c)
      BY <1>1, <2>3 DEF ClientInv
    <3>2. m.call = id[c] => m.op = IF op[c].kind = "put" THEN "OC_PUT" ELSE "OC_UPDATE"
      BY <1>3, <2>3, <3>1 DEF Allowed, WriteInv
    <3>3. ASSUME NEW r \in Answered(c)'
          PROVE  IF op[c].kind = "put" THEN ~ deleted => LiveAt(r)'
                 ELSE answers'[c][r].value = 0
      <4>1. r \in Server /\ answers'[c][r] # None
        BY <3>3 DEF Answered
      <4>2. CASE answers'[c][r] = answers[c][r]
        BY <1>8, <3>1, <4>1, <4>2 DEF Answered, WriteInv
      <4>3. CASE r = s /\ m.call = id[c] /\ answers'[c][r] = AnswerOf(s, m)
        BY <1>6, <1>7, <3>2, <4>3 DEF AnswerOf, LiveAt
      <4> QED
        BY <1>13, <4>1, <4>2, <4>3
    <3> QED
      BY <1>2, <3>1, <3>3 DEF WriteInv
  <2>4. ResultInv(c)'
    BY <1>1, <1>2 DEF ClientInv, ResultInv
  <2> QED
    BY <1>2, <2>1, <2>2, <2>3, <2>4 DEF ClientInv
<1> QED
  BY <1>9, <1>11, <1>12, <1>14 DEF PresenceInv

(* One more server is asked the same. *)
LEMMA PresenceTimeout ==
  ASSUME PresenceInv, NEW c \in Client, Timeout(c)
  PROVE  PresenceInv'
<1>1. Types /\ ClientInv(c) /\ (~ deleted => Held)
  BY DEF PresenceInv
<1>2. PICK s \in Server : tasks' = [tasks EXCEPT ![c][s] = Append(@, request[c])]
  BY DEF Timeout
<1>3. UNCHANGED <<table, pc, op, request, id, answers, result, ops, author, known,
                  done, stale, put, deleted>>
  BY DEF Timeout, marks
<1>4. request[c] \in Allowed(c)
  <2>1. /\ request[c] \in Message /\ request[c].call = id[c]
        /\ ~ deleted => request[c] \in ReadMessage \/ request[c].value.data # NoData
    BY <1>1 DEF Timeout, ClientInv, ReadInv, WriteInv, Message
  <2>2. pc[c] # "idle" /\ id[c] \in Nat
    BY <1>1 DEF Timeout, Types
  <2> QED
    BY <2>1, <2>2 DEF Allowed
<1>5. /\ tasks'[c][s] = Append(tasks[c][s], request[c])
      /\ \A r \in Server \ {s} : tasks'[c][r] = tasks[c][r]
      /\ \A d \in Client \ {c} : tasks'[d] = tasks[d]
  BY <1>1, <1>2 DEF Types
<1>6. Types'
  <2>1. request[c] \in Message
    BY <1>4 DEF Allowed
  <2>2. Append(tasks[c][s], request[c]) \in Seq(Message)
    BY <1>1, <2>1 DEF Types
  <2>3. tasks' \in [Client -> [Server -> Seq(Message)]]
    BY <1>1, <1>2, <2>2 DEF Types
  <2> QED
    BY <1>1, <1>3, <2>3 DEF Types
<1>7. ~ deleted' => Held'
  BY <1>1, <1>3 DEF Held, Holders, LiveAt
<1>8. \A r \in Server : LiveAt(r)' <=> LiveAt(r)
  BY <1>3 DEF LiveAt
<1>9. ASSUME NEW d \in Client \ {c}
      PROVE  ClientInv(d)'
  <2>1. tasks'[d] = tasks[d] /\ ClientInv(d)
    BY <1>5 DEF PresenceInv
  <2>2. /\ pc'[d] = pc[d] /\ op'[d] = op[d] /\ request'[d] = request[d]
        /\ id'[d] = id[d] /\ answers'[d] = answers[d] /\ result'[d] = result[d]
        /\ known'[d] = known[d]
        /\ put => put'
        /\ deleted => deleted'
    BY <1>3
  <2> QED
    BY <1>1, <1>8, <2>1, <2>2, Untouched
<1>10. ClientInv(c)'
  <2>1. Allowed(c)' = Allowed(c)
    BY <1>3 DEF Allowed
  <2>2. ASSUME NEW r \in Server
        PROVE  tasks'[c][r] \in Seq(Allowed(c)')
    <3>1. Append(tasks[c][s], request[c]) \in Seq(Allowed(c))
      BY <1>1, <1>4 DEF ClientInv
    <3> QED
      BY <1>1, <1>5, <2>1, <3>1 DEF ClientInv
  <2>3. /\ ReadInv(c)' <=> ReadInv(c)
        /\ WriteInv(c)' <=> WriteInv(c)
        /\ ResultInv(c)' <=> ResultInv(c)
    <3>1. Answered(c)' = Answered(c) /\ Kept(c)' = Kept(c)
      BY <1>3 DEF Answered, Kept, LiveAt
    <3>2. ReadInv(c)' <=> ReadInv(c)
      BY <1>3, <3>1 DEF ReadInv
    <3>3. WriteInv(c)' <=> WriteInv(c)
      BY <1>3, <3>1 DEF WriteInv, LiveAt
    <3>4. ResultInv(c)' <=> ResultInv(c)
      BY <1>3 DEF ResultInv
    <3> QED
      BY <3>2, <3>3, <3>4
  <2> QED
    BY <1>1, <1>3, <2>2, <2>3 DEF ClientInv
<1> QED
  BY <1>6, <1>7, <1>9, <1>10 DEF PresenceInv

(* A dead client asks for nothing more. *)
LEMMA PresenceDie ==
  ASSUME PresenceInv, NEW c \in Client, Die(c)
  PROVE  PresenceInv'
<1>1. Types /\ ClientInv(c) /\ (~ deleted => Held)
  BY DEF PresenceInv
<1>2. /\ tasks' = [tasks EXCEPT ![c] =
                    [s \in Server |-> SubSeq(@[s], 1, IF @[s] = <<>> THEN 0 ELSE 1)]]
      /\ pc' = [pc EXCEPT ![c] = "dead"]
      /\ UNCHANGED <<table, op, request, id, answers, result, ops, author, known,
                     done, stale, put, deleted>>
  BY DEF Die, marks
<1>3. ASSUME NEW A, NEW s \in Server, tasks[c][s] \in Seq(A)
      PROVE  tasks'[c][s] \in Seq(A)
  <2> DEFINE t == tasks[c][s]
             n == IF t = <<>> THEN 0 ELSE 1
  <2>1. tasks'[c][s] = SubSeq(t, 1, n)
    BY <1>1, <1>2 DEF Types
  <2>2. n \in 0 .. Len(t)
    BY <1>3
  <2> HIDE DEF n
  <2>3. SubSeq(t, 1, n) \in Seq(A)
    BY <1>3, <2>2, SubSeqProperties
  <2> QED
    BY <2>1, <2>3
<1>4. Types'
  <2>1. pc' \in [Client -> {"idle", "read", "write", "dead"}]
    BY <1>1, <1>2 DEF Types
  <2>2. tasks' \in [Client -> [Server -> Seq(Message)]]
    <3>1. ASSUME NEW s \in Server
          PROVE  tasks'[c][s] \in Seq(Message)
      <4>1. tasks[c][s] \in Seq(Message)
        BY <1>1 DEF Types
      <4> QED
        BY <1>3, <4>1
    <3> QED
      BY <1>1, <1>2, <3>1 DEF Types
  <2> QED
    BY <1>1, <1>2, <2>1, <2>2 DEF Types
<1>5. ~ deleted' => Held'
  BY <1>1, <1>2 DEF Held, Holders, LiveAt
<1>6. ASSUME NEW d \in Client \ {c}
      PROVE  ClientInv(d)'
  <2>1. \A r \in Server : LiveAt(r)' <=> LiveAt(r)
    BY <1>2 DEF LiveAt
  <2>2. pc'[d] = pc[d] /\ tasks'[d] = tasks[d]
    BY <1>1, <1>2 DEF Types
  <2> QED
    BY <1>1, <1>2, <2>1, <2>2, Untouched DEF PresenceInv
<1>7. ClientInv(c)'
  <2>1. pc'[c] = "dead"
    BY <1>1, <1>2 DEF Types
  <2>2. Allowed(c) \subseteq Allowed(c)'
    BY <1>2, <2>1 DEF Allowed
  <2>3. \A s \in Server : tasks'[c][s] \in Seq(Allowed(c)')
    BY <1>1, <1>3, <2>2, SeqGrows DEF ClientInv
  <2>4. ResultInv(c)'
    BY <1>1, <1>2 DEF ClientInv, ResultInv
  <2> QED
    BY <2>1, <2>3, <2>4 DEF ClientInv
<1> QED
  BY <1>4, <1>5, <1>6, <1>7 DEF PresenceInv

(* What a call leaves under way is allowed when the next may come.         *)
LEMMA LeftAllowed ==
  ASSUME Types, NEW c \in Client, NEW m \in Message, m.call <= id[c],
         ~ deleted => m \in ReadMessage \/ m.value.data # NoData,
         id' = [id EXCEPT ![c] = @ + 1], UNCHANGED deleted
  PROVE  m \in Allowed(c)'
<1>1. id[c] \in Nat /\ id'[c] = id[c] + 1 /\ m.call \in Nat
  BY DEF Types, Message, ReadMessage, WriteMessage
<1> QED
  BY <1>1 DEF Allowed

(* An operation ends.                                                      *)
LEMMA PresenceFinish ==
  ASSUME PresenceInv, NEW c \in Client,
         NEW ret \in {"value", "null", "ok", "refused"}, NEW by \in Nat,
         Finish(c, ret, by),
         NEW left \in [Server -> Seq(Allowed(c)')],
         tasks' = [tasks EXCEPT ![c] = left],
         id' = [id EXCEPT ![c] = @ + 1],
         UNCHANGED <<table, op, ops, author, known, deleted>>,
         done' \subseteq Nat, stale' \subseteq Nat, put' \in BOOLEAN, put => put',
         ~ deleted => Held',
         OddServers /\ known[c].put /\ ~ deleted => Finds(op[c].kind, ret)
  PROVE  PresenceInv'
<1>1. Types /\ ClientInv(c)
  BY DEF PresenceInv
<1>2. /\ pc' = [pc EXCEPT ![c] = "idle"]
      /\ result' = [result EXCEPT ![c] = [ret |-> ret, by |-> by]]
      /\ request' = [request EXCEPT ![c] = Nobody]
      /\ answers' = [answers EXCEPT ![c] = [s \in Server |-> None]]
  BY DEF Finish
<1>3. Types'
  <2>1. left \in [Server -> Seq(Message)]
    <3>1. Allowed(c)' \subseteq Message
      BY DEF Allowed, Message, ReadMessage, WriteMessage
    <3> QED
      BY <3>1, SeqGrows
  <2>2. tasks' \in [Client -> [Server -> Seq(Message)]]
    BY <1>1, <2>1 DEF Types
  <2>3. pc' \in [Client -> {"idle", "read", "write", "dead"}]
        /\ id' \in [Client -> Nat]
    BY <1>1, <1>2 DEF Types
  <2>4. request' \in [Client -> Message \cup {Nobody}]
    BY <1>1, <1>2 DEF Types
  <2>5. answers' \in [Client -> [Server -> Answers \cup {None}]]
    BY <1>1, <1>2 DEF Types
  <2>6. result' \in [Client ->
          [ret : {"none", "value", "null", "ok", "refused"}, by : Nat]]
    BY <1>1, <1>2 DEF Types
  <2> QED
    BY <1>1, <2>2, <2>3, <2>4, <2>5, <2>6 DEF Types
<1>4. ASSUME NEW d \in Client \ {c}
      PROVE  ClientInv(d)'
  <2>1. /\ pc'[d] = pc[d] /\ op'[d] = op[d] /\ request'[d] = request[d]
        /\ id'[d] = id[d] /\ answers'[d] = answers[d] /\ result'[d] = result[d]
        /\ known'[d] = known[d] /\ tasks'[d] = tasks[d]
    BY <1>1, <1>2 DEF Types
  <2>2. /\ put => put'
        /\ deleted => deleted'
        /\ \A s \in Server : LiveAt(s) => LiveAt(s)'
    BY DEF LiveAt
  <2>3. ClientInv(d)
    BY DEF PresenceInv
  <2> QED
    BY <1>1, <2>1, <2>2, <2>3, Untouched
<1>5. ClientInv(c)'
  <2>1. pc'[c] = "idle" /\ tasks'[c] = left /\ result'[c].ret = ret
    BY <1>1, <1>2 DEF Types
  <2>2. ResultInv(c)'
    <3>1. ResultInv(c)
      BY <1>1 DEF ClientInv
    <3>2. op'[c] = op[c] /\ known'[c] = known[c] /\ deleted' = deleted
      OBVIOUS
    <3> QED
      BY <2>1, <3>1, <3>2 DEF ResultInv
  <2> QED
    BY <2>1, <2>2 DEF ClientInv
<1> QED
  BY <1>3, <1>4, <1>5 DEF PresenceInv

(* The newest of the answers is a value if a put had returned before.      *)
LEMMA NewestIsFound ==
  ASSUME OddServers, ClientStamps, Types, NEW c \in Client, ReadInv(c),
         Cardinality(Answered(c)) = K, NEW s \in Newest(c),
         ~ deleted, known[c].put
  PROVE  answers[c][s].value.data # NoData
<1>1. PICK r \in Answered(c) : r \in Kept(c)
  <2>1. Answered(c) \in SUBSET Server /\ Kept(c) \in SUBSET Server
    BY DEF Answered, Kept
  <2>2. Cardinality(Kept(c)) >= K /\ Cardinality(Answered(c)) >= K
    BY Quorum DEF ReadInv
  <2> QED
    BY <2>1, <2>2, QuorumsMeet
<1>2. answers[c][r].value \in Value
  BY <1>1 DEF Kept, Answered, ReadInv, Absent
<1>3. answers[c][r].value.ts \in Nat /\ answers[c][r].value.ts > 1
  BY <1>2, StampLarge DEF Value
<1>4. s \in Answered(c) /\ answers[c][r].value.ts <= answers[c][s].value.ts
  BY DEF Newest
<1>5. answers[c][s].value # Absent
  BY <1>3, <1>4 DEF Absent
<1> QED
  BY <1>4, <1>5 DEF ReadInv

(* The write-backs of a read carry the value it has found.                 *)
LEMMA LateTasksAllowed ==
  ASSUME Types, NEW c \in Client, ClientInv(c), ReadInv(c),
         NEW s \in Answered(c), NEW left \in LateTasks(c, answers[c][s]),
         id' = [id EXCEPT ![c] = @ + 1], UNCHANGED deleted
  PROVE  left \in [Server -> Seq(Allowed(c)')]
<1> DEFINE new == answers[c][s]
<1>1. Allowed(c) \subseteq Allowed(c)'
  <2>1. \A m \in Allowed(c) :
          /\ m \in Message /\ m.call <= id[c]
          /\ ~ deleted => m \in ReadMessage \/ m.value.data # NoData
    BY DEF Allowed
  <2> QED
    BY <2>1, LeftAllowed
<1>2. tasks[c] \in [Server -> Seq(Allowed(c)')]
  BY <1>1, SeqGrows DEF ClientInv, Types
<1>3. ASSUME NEW w \in WriteBacks(c, new)
      PROVE  w \in Allowed(c)'
  <2>1. new.value.data # NoData
    BY <1>3 DEF WriteBacks
  <2>2. new \in Answers /\ new.value \in Value
    BY <2>1 DEF Answered, ReadInv, Absent, Types
  <2>3. PICK o \in {"OC_PUT", "OC_UPDATE"} :
          w = [call |-> id[c], op |-> o, value |-> new.value, by |-> new.by]
    BY <1>3, <2>1 DEF WriteBacks
  <2>4. w \in WriteMessage /\ w.call = id[c] /\ w.value.data # NoData /\ id[c] \in Nat
    BY <2>1, <2>2, <2>3 DEF Types, Answers, WriteMessage
  <2>5. w \in Message /\ w.call <= id[c]
    BY <2>4 DEF Message
  <2> QED
    BY <2>4, <2>5, LeftAllowed
<1>4. ASSUME NEW r \in Late(c), NEW w \in WriteBacks(c, new)
      PROVE  Append(Front(tasks[c][r]), w) \in Seq(Allowed(c)')
  <2>1. r \in Server /\ tasks[c][r] # <<>>
    BY DEF Late
  <2> DEFINE t == tasks[c][r]
             n == Len(t) - 1
  <2>2. t \in Seq(Allowed(c)') /\ n \in 0 .. Len(t)
    BY <1>2, <2>1
  <2> HIDE DEF t, n
  <2>3. SubSeq(t, 1, n) \in Seq(Allowed(c)')
    BY <2>2, SubSeqProperties
  <2>4. Append(SubSeq(t, 1, n), w) \in Seq(Allowed(c)')
    BY <1>3, <2>3
  <2> QED
    BY <2>4 DEF Front, t, n
<1>5. CASE left = tasks[c]
  BY <1>2, <1>5
<1>6. ASSUME NEW S \in SUBSET Late(c), NEW w \in WriteBacks(c, new),
             left = Changed(c, S, w)
      PROVE  left \in [Server -> Seq(Allowed(c)')]
  BY <1>2, <1>4, <1>6 DEF Changed
<1> QED
  BY <1>5, <1>6 DEF LateTasks

(* A get or the first half of a write has its answers.                     *)
LEMMA PresenceEndRead ==
  ASSUME ClientStamps, PresenceInv, NEW c \in Client, EndRead(c)
  PROVE  PresenceInv'
<1>1. Types /\ ClientInv(c) /\ (~ deleted => Held)
  BY DEF PresenceInv
<1>2. /\ pc[c] = "read" /\ Cardinality(Answered(c)) = K
      /\ id' = [id EXCEPT ![c] = @ + 1]
      /\ UNCHANGED <<table, op, ops, author, known, done, stale, put, deleted>>
  BY DEF EndRead, Returns, bounds, marks
<1>3. ReadInv(c) /\ ResultInv(c)
  BY <1>1, <1>2 DEF ClientInv
<1>4. PICK s \in Newest(c) : \E left \in LateTasks(c, answers[c][s]) :
        LET found == answers[c][s].value.data # NoData
            kind == op[c].kind
            m == WriteRequest(c, answers[c][s].value)
        IN  \/ /\ kind = "get"
               /\ Finish(c, IF found THEN "value" ELSE "null", answers[c][s].by)
               /\ tasks' = [tasks EXCEPT ![c] = left]
            \/ /\ kind # "get" /\ found = (kind = "put")
               /\ Finish(c, "refused", 0)
               /\ tasks' = [tasks EXCEPT ![c] = left]
            \/ /\ kind # "get" /\ found # (kind = "put")
               /\ pc' = [pc EXCEPT ![c] = "write"]
               /\ Access(c, m)
               /\ tasks' = Sent(c, m, left)
               /\ UNCHANGED result
  BY DEF EndRead
<1> DEFINE found == answers[c][s].value.data # NoData
           kind == op[c].kind
           m == WriteRequest(c, answers[c][s].value)
<1>5. PICK left \in LateTasks(c, answers[c][s]) :
         \/ /\ kind = "get"
            /\ Finish(c, IF found THEN "value" ELSE "null", answers[c][s].by)
            /\ tasks' = [tasks EXCEPT ![c] = left]
         \/ /\ kind # "get" /\ found = (kind = "put")
            /\ Finish(c, "refused", 0)
            /\ tasks' = [tasks EXCEPT ![c] = left]
         \/ /\ kind # "get" /\ found # (kind = "put")
            /\ pc' = [pc EXCEPT ![c] = "write"]
            /\ Access(c, m)
            /\ tasks' = Sent(c, m, left)
            /\ UNCHANGED result
  BY <1>4
<1>6. s \in Answered(c)
  BY DEF Newest
<1>7. /\ answers[c][s].by \in Nat /\ answers[c][s].value \in Value \cup {Absent}
      /\ answers[c][s].value.ts \in Nat
  <2>1. answers[c][s] \in Answers
    BY <1>1, <1>6 DEF Types, Answered
  <2>2. answers[c][s].value \in Value \cup {Absent}
    BY <1>3, <1>6 DEF ReadInv
  <2> QED
    BY <2>1, <2>2, StampLarge DEF Answers, Value, Absent
<1>8. left \in [Server -> Seq(Allowed(c)')]
  BY <1>1, <1>2, <1>3, <1>6, LateTasksAllowed
<1>9. OddServers /\ ~ deleted /\ known[c].put => found
  BY <1>1, <1>2, <1>3, NewestIsFound
<1>10. ~ deleted => Held'
  BY <1>1, <1>2 DEF Held, Holders, LiveAt
<1>11. /\ done' \subseteq Nat /\ stale' \subseteq Nat /\ put' \in BOOLEAN
       /\ put => put'
  BY <1>1, <1>2 DEF Types
<1>12. CASE kind = "get" /\ tasks' = [tasks EXCEPT ![c] = left]
            /\ Finish(c, IF found THEN "value" ELSE "null", answers[c][s].by)
  <2> DEFINE ret == IF found THEN "value" ELSE "null"
  <2>1. ret \in {"value", "null", "ok", "refused"}
    OBVIOUS
  <2>2. OddServers /\ known[c].put /\ ~ deleted => Finds(op[c].kind, ret)
    BY <1>9, <1>12 DEF Finds
  <2>3. Finish(c, ret, answers[c][s].by)
    BY <1>12
  <2> HIDE DEF ret
  <2> QED
    BY <1>2, <1>7, <1>8, <1>10, <1>11, <1>12, <2>1, <2>2, <2>3, PresenceFinish
<1>13. CASE kind # "get" /\ found = (kind = "put") /\ Finish(c, "refused", 0)
            /\ tasks' = [tasks EXCEPT ![c] = left]
  <2>1. OddServers /\ known[c].put /\ ~ deleted => Finds(op[c].kind, "refused")
    BY <1>9, <1>13 DEF Finds
  <2> QED
    BY <1>2, <1>8, <1>10, <1>11, <1>13, <2>1, PresenceFinish
<1>14. CASE /\ kind # "get" /\ found # (kind = "put")
            /\ pc' = [pc EXCEPT ![c] = "write"]
            /\ Access(c, m)
            /\ tasks' = Sent(c, m, left)
            /\ UNCHANGED result
  <2>1. kind \in {"put", "update", "del"}
    <3>1. kind # "none"
      BY <1>2, <1>3 DEF ReadInv
    <3> QED
      BY <1>1, <1>14, <3>1 DEF Types
  <2>2. m \in WriteMessage /\ m.call = id[c] + 1
        /\ m.op = (IF kind = "put" THEN "OC_PUT" ELSE "OC_UPDATE")
        /\ m.value.data = op[c].data
    <3> DEFINE t == IF kind = "put" THEN 1 ELSE answers[c][s].value.ts
    <3>1. t \in Nat
      BY <1>7
    <3>2. IncrementTs(t, c) \in Stamp
      BY <3>1, StampMade
    <3>3. m = [call |-> id[c] + 1, by |-> op[c].number,
               op |-> IF kind = "put" THEN "OC_PUT" ELSE "OC_UPDATE",
               value |-> [ts |-> IncrementTs(t, c), data |-> op[c].data]]
      BY DEF WriteRequest
    <3> HIDE DEF t, m
    <3>4. op[c].number \in Nat /\ op[c].data \in Data \cup {NoData} /\ id[c] + 1 \in Nat
      BY <1>1 DEF Types
    <3> QED
      BY <3>2, <3>3, <3>4 DEF WriteMessage, Value
  <2>3. Access(c, m) /\ tasks' = Sent(c, m, left)
    BY <1>14
  <2> HIDE DEF m
  <2>4. /\ request' = [request EXCEPT ![c] = m]
        /\ answers' = [answers EXCEPT ![c] = [r \in Server |-> None]]
        /\ Answered(c)' = {} /\ \A r \in Server : answers'[c][r] = None
    BY <1>1, <2>3, AccessAnswers
  <2>5. /\ pc'[c] = "write" /\ id'[c] = id[c] + 1 /\ request'[c] = m
        /\ op'[c] = op[c] /\ known'[c] = known[c] /\ deleted' = deleted
    BY <1>1, <1>2, <1>14, <2>4 DEF Types
  <2>6. ~ deleted =>
          /\ m.value.data # NoData
          /\ OddServers /\ known[c].put => kind = "update"
    <3>1. ~ deleted => kind # "del" /\ op[c].data # NoData
      BY <1>3, <2>1 DEF ResultInv
    <3> QED
      BY <1>9, <1>14, <2>1, <2>2, <3>1
  <2>7. m \in Allowed(c)'
    <3>1. m \in Message /\ m.call = id'[c] /\ m.call <= id'[c]
      BY <1>1, <2>2, <2>5 DEF Types, Message
    <3> QED
      BY <2>5, <2>6, <3>1 DEF Allowed
  <2>8. Types'
    <3>1. left \in [Server -> Seq(Message)]
      <4>1. Allowed(c)' \subseteq Message
        BY DEF Allowed, Message, ReadMessage, WriteMessage
      <4> QED
        BY <1>8, <4>1, SeqGrows
    <3>2. tasks' \in [Client -> [Server -> Seq(Message)]]
      BY <1>1, <2>2, <2>3, <3>1, SentType DEF Message
    <3>3. pc' \in [Client -> {"idle", "read", "write", "dead"}]
          /\ id' \in [Client -> Nat]
      BY <1>1, <1>2, <1>14 DEF Types
    <3>4. request' \in [Client -> Message \cup {Nobody}]
      BY <1>1, <2>2, <2>4 DEF Types, Message
    <3>5. answers' \in [Client -> [Server -> Answers \cup {None}]]
      BY <1>1, <2>4 DEF Types
    <3> QED
      BY <1>1, <1>2, <1>14, <3>2, <3>3, <3>4, <3>5 DEF Types
  <2>9. ASSUME NEW d \in Client \ {c}
        PROVE  ClientInv(d)'
    <3>1. /\ pc'[d] = pc[d] /\ op'[d] = op[d] /\ request'[d] = request[d]
          /\ id'[d] = id[d] /\ answers'[d] = answers[d] /\ result'[d] = result[d]
          /\ known'[d] = known[d]
      BY <1>1, <1>2, <1>14, <2>4 DEF Types
    <3>2. tasks'[d] = tasks[d]
      BY <1>1, <1>8, <2>3, <2>7, SentAllowed
    <3>3. /\ put => put'
          /\ deleted => deleted'
          /\ \A r \in Server : LiveAt(r) => LiveAt(r)'
      BY <1>2 DEF LiveAt
    <3>4. ClientInv(d)
      BY DEF PresenceInv
    <3> QED
      BY <1>1, <3>1, <3>2, <3>3, <3>4, Untouched
  <2>10. ClientInv(c)'
    <3>1. \A r \in Server : tasks'[c][r] \in Seq(Allowed(c)')
      BY <1>1, <1>8, <2>3, <2>7, SentAllowed
    <3>2. WriteInv(c)'
      BY <2>1, <2>2, <2>4, <2>5, <2>6 DEF WriteInv
    <3>3. ResultInv(c)'
      <4>1. result'[c] = result[c] /\ put' = put
        BY <1>2, <1>14
      <4> QED
        BY <1>3, <2>5, <4>1 DEF ResultInv
    <3> QED
      BY <2>5, <3>1, <3>2, <3>3 DEF ClientInv
  <2>11. ~ deleted' => Held'
    BY <1>10, <2>5
  <2> QED
    BY <2>8, <2>9, <2>10, <2>11 DEF PresenceInv
<1> QED
  BY <1>5, <1>12, <1>13, <1>14

(* The second half of a write has its answers.                             *)
LEMMA PresenceEndWrite ==
  ASSUME PresenceInv, NEW c \in Client, EndWrite(c)
  PROVE  PresenceInv'
<1> DEFINE ok == \E s \in Answered(c) : answers[c][s].value = 0
           ret == IF ok THEN "ok" ELSE "refused"
<1>1. Types /\ ClientInv(c) /\ (~ deleted => Held)
  BY DEF PresenceInv
<1>2. /\ pc[c] = "write" /\ Cardinality(Answered(c)) = K
      /\ id' = [id EXCEPT ![c] = @ + 1]
      /\ Finish(c, ret, op[c].number)
      /\ UNCHANGED <<table, op, tasks, ops, author, known, deleted>>
  BY DEF EndWrite, Returns, bounds
<1>3. IF ok THEN /\ done' = done \cup {op[c].number}
                 /\ stale' = stale \cup known[c].done
                 /\ put' = (put \/ op[c].kind = "put")
      ELSE UNCHANGED <<done, stale, put>>
  BY DEF EndWrite
<1>4. WriteInv(c) /\ ResultInv(c)
  BY <1>1, <1>2 DEF ClientInv
<1>5. op[c].number \in Nat /\ known[c].done \subseteq Nat
  BY <1>1 DEF Types
<1>6. /\ done' \subseteq Nat /\ stale' \subseteq Nat /\ put' \in BOOLEAN
      /\ put => put'
  BY <1>1, <1>3, <1>5 DEF Types
<1>7. tasks' = [tasks EXCEPT ![c] = tasks[c]]
      /\ tasks[c] \in [Server -> Seq(Allowed(c)')]
  <2>1. \A x \in Allowed(c) :
          /\ x \in Message /\ x.call <= id[c]
          /\ ~ deleted => x \in ReadMessage \/ x.value.data # NoData
    BY DEF Allowed
  <2>2. Allowed(c) \subseteq Allowed(c)'
    BY <1>1, <1>2, <2>1, LeftAllowed
  <2>3. tasks[c] \in [Server -> Seq(Allowed(c)')]
    BY <1>1, <2>2, SeqGrows DEF ClientInv, Types
  <2> QED
    BY <1>1, <1>2, <2>3 DEF Types
<1>8. Answered(c) \in SUBSET Server /\ (OddServers => Answered(c) # {})
  BY <1>2, Quorum, FS_EmptySet DEF Answered
<1>9. ~ deleted => Held'
  <2>1. ASSUME ~ deleted, op[c].kind = "put"
        PROVE  Cardinality(Holders) >= K
    <3>1. Answered(c) \subseteq Holders /\ Holders \in SUBSET Server
      BY <1>4, <1>8, <2>1 DEF WriteInv, Holders
    <3>2. Cardinality(Answered(c)) >= K
      BY <1>2, QuorumSize
    <3> QED
      BY <1>8, <3>1, <3>2, QuorumGrows
  <2>2. Holders' = Holders /\ \A s \in Server : LiveAt(s)' <=> LiveAt(s)
    BY <1>2 DEF Holders, LiveAt
  <2>3. put' => put \/ op[c].kind = "put"
    BY <1>3
  <2> QED
    BY <1>1, <1>2, <2>1, <2>2, <2>3 DEF Held
<1>10. OddServers /\ known[c].put /\ ~ deleted => Finds(op[c].kind, ret)
  BY <1>4, <1>8 DEF WriteInv, Finds
<1>11. ret \in {"value", "null", "ok", "refused"}
  OBVIOUS
<1>12. PICK left \in [Server -> Seq(Allowed(c)')] : tasks' = [tasks EXCEPT ![c] = left]
  BY <1>7
<1>13. UNCHANGED <<table, op, ops, author, known, deleted>>
  BY <1>2
<1>14. id' = [id EXCEPT ![c] = @ + 1] /\ Finish(c, ret, op[c].number)
  BY <1>2
<1> HIDE DEF ret
<1> QED
  BY <1>5, <1>6, <1>9, <1>10, <1>11, <1>12, <1>13, <1>14, PresenceFinish

-----------------------------------------------------------------------------
(* Every step keeps the invariant. *)
LEMMA PresenceStep ==
  ASSUME ClientStamps, PresenceInv, [Next]_vars
  PROVE  PresenceInv'
<1>1. ASSUME NEW c \in Client, Begin(c, "get", NoData) \/ Begin(c, "del", NoData)
      PROVE  PresenceInv'
  BY <1>1, PresenceBegin
<1>2. ASSUME NEW c \in Client, NEW d \in Data, Begin(c, "put", d) \/ Begin(c, "update", d)
      PROVE  PresenceInv'
  <2>1. d # NoData
    BY TableAssumption
  <2> QED
    BY <1>2, <2>1, PresenceBegin
<1>3. ASSUME NEW c \in Client, NEW s \in Server, Serve(c, s)
      PROVE  PresenceInv'
  BY <1>3, PresenceServe
<1>4. ASSUME NEW c \in Client, Timeout(c) \/ EndRead(c) \/ EndWrite(c) \/ Die(c)
      PROVE  PresenceInv'
  BY <1>4, PresenceTimeout, PresenceEndRead, PresenceEndWrite, PresenceDie
<1>5. ASSUME UNCHANGED vars
      PROVE  PresenceInv'
  <2>1. /\ UNCHANGED <<table, tasks, pc, op, request, id, answers, result, ops>>
        /\ UNCHANGED <<author, known, done, stale, put, deleted>>
    BY <1>5 DEF vars, clientVars, bounds, marks
  <2>2. Types' /\ (~ deleted' => Held')
    <3>1. Types'
      BY <2>1 DEF PresenceInv, Types
    <3>2. ~ deleted' => Held'
      BY <2>1 DEF PresenceInv, Held, Holders, LiveAt
    <3> QED
      BY <3>1, <3>2
  <2>3. ASSUME NEW d \in Client
        PROVE  ClientInv(d)'
    <3>1. /\ put => put'
          /\ deleted => deleted'
          /\ \A s \in Server : LiveAt(s) => LiveAt(s)'
      BY <2>1 DEF LiveAt
    <3> QED
      BY <2>1, <3>1, Untouched DEF PresenceInv
  <2> QED
    BY <2>2, <2>3 DEF PresenceInv
<1> QED
  BY <1>1, <1>2, <1>3, <1>4, <1>5 DEF Next

(* It holds whatever the clients do. *)
LEMMA PresenceHolds ==
  ASSUME ClientStamps
  PROVE  Spec => []PresenceInv
<1>1. PresenceInv /\ [Next]_vars => PresenceInv'
  BY PresenceStep
<1> QED
  BY <1>1, PresenceInit, PTL DEF Spec

(* What a put has stored is found as long as nothing is deleted: the       *)
(* quorum that answered the put and the one that answers a later operation *)
(* have a server in common (quorum_access, ceil2), the value at a server   *)
(* is only ever replaced by another (list_add, list_update), and its       *)
(* timestamp is larger than that of an absent key (qtable_get).            *)
THEOREM PutsFound ==
  ASSUME OddServers, ClientStamps
  PROVE  Spec => []PutKeysArePresent
<1>1. PresenceInv => PutKeysArePresent
  <2> SUFFICES ASSUME PresenceInv, ~ deleted, NEW c \in Client,
                      known[c].put, result[c].ret # "none"
               PROVE  result[c].ret = CASE op[c].kind = "get" -> "value"
                                        [] op[c].kind = "put" -> "refused"
                                        [] op[c].kind = "update" -> "ok"
    BY DEF PutKeysArePresent
  <2>1. Finds(op[c].kind, result[c].ret)
    BY DEF PresenceInv, ClientInv, ResultInv
  <2> QED
    BY <2>1 DEF Finds
<1> QED
  BY <1>1, PresenceHolds, PTL

-----------------------------------------------------------------------------
(* The quorum of a client, and the answers it has taken. *)
QuorumInv ==
  /\ DOMAIN quorum = Client
  /\ \A c \in Client :
       /\ quorum[c] \in Quorums \cup {{}}
       /\ Cardinality(Answered(c)) <= K

(* Steps that leave both as they are, or empty the array of answers. *)
LEMMA QuorumKept ==
  ASSUME QuorumInv, UNCHANGED quorum,
         \A c \in Client : answers'[c] \in {answers[c], [s \in Server |-> None]}
  PROVE  QuorumInv'
<1>1. ASSUME NEW c \in Client
      PROVE  Cardinality(Answered(c)') <= K
  <2>1. CASE answers'[c] = answers[c]
    BY <2>1 DEF QuorumInv, Answered
  <2>2. CASE answers'[c] = [s \in Server |-> None]
    <3>1. Answered(c)' = {}
      BY <2>2 DEF Answered
    <3> QED
      BY <3>1, FS_EmptySet, QuorumSize
  <2> QED
    BY <1>1, <2>1, <2>2
<1> QED
  BY <1>1 DEF QuorumInv

(* A call begins: another quorum perhaps, and no answer yet. *)
LEMMA QuorumAccessed ==
  ASSUME PresenceInv, QuorumInv, NEW c \in Client, NEW m, Access(c, m)
  PROVE  QuorumInv'
<1>1. PICK Q \in Quorums \cup {{}} : quorum' = [quorum EXCEPT ![c] = Q]
  BY DEF Access, QuorumInv
<1>2. answers' = [answers EXCEPT ![c] = [s \in Server |-> None]]
  BY DEF Access
<1>3. ASSUME NEW d \in Client
      PROVE  Cardinality(Answered(d)') <= K
  <2>1. CASE d = c
    <3>1. Answered(d)' = {}
      BY <1>2, <2>1 DEF Answered, PresenceInv, Types
    <3> QED
      BY <3>1, FS_EmptySet, QuorumSize
  <2>2. CASE d # c
    BY <1>2, <2>2 DEF Answered, QuorumInv
  <2> QED
    BY <2>1, <2>2
<1> QED
  BY <1>1, <1>3 DEF QuorumInv

(* An answer is taken while there are fewer than K. *)
LEMMA QuorumServed ==
  ASSUME PresenceInv, QuorumInv, NEW c \in Client, NEW s \in Server, Serve(c, s)
  PROVE  QuorumInv'
<1>1. /\ UNCHANGED quorum
      /\ \/ answers' = answers
         \/ /\ Cardinality(Answered(c)) < K
            /\ \E a : answers' = [answers EXCEPT ![c][s] = a]
  BY DEF Serve
<1>2. CASE answers' = answers
  BY <1>1, <1>2, QuorumKept
<1>3. CASE /\ Cardinality(Answered(c)) < K
           /\ \E a : answers' = [answers EXCEPT ![c][s] = a]
  <2>1. answers \in [Client -> [Server -> Answers \cup {None}]]
    BY DEF PresenceInv, Types
  <2>2. ASSUME NEW d \in Client
        PROVE  Cardinality(Answered(d)') <= K
    <3>1. CASE d # c
      BY <1>3, <2>1, <3>1 DEF Answered, QuorumInv
    <3>2. CASE d = c
      <4>1. Answered(c) \subseteq Server /\ Answered(c)' \subseteq Answered(c) \cup {s}
        BY <1>3, <2>1 DEF Answered
      <4>2. IsFiniteSet(Answered(c)) /\ IsFiniteSet(Answered(c) \cup {s})
        BY <4>1, QuorumSize, FS_Subset, FS_AddElement
      <4>3. Cardinality(Answered(c) \cup {s}) <= Cardinality(Answered(c)) + 1
        BY <4>2, FS_AddElement, FS_CardinalityType
      <4>4. IsFiniteSet(Answered(c)') /\ Cardinality(Answered(c)') <= Cardinality(Answered(c) \cup {s})
        BY <4>1, <4>2, FS_Subset
      <4>5. /\ Cardinality(Answered(c)) \in Nat /\ Cardinality(Answered(c)') \in Nat
            /\ Cardinality(Answered(c) \cup {s}) \in Nat
        BY <4>2, <4>4, FS_CardinalityType
      <4> QED
        BY <1>3, <3>2, <4>3, <4>4, <4>5, QuorumSize
    <3> QED
      BY <3>1, <3>2
  <2> QED
    BY <1>1, <2>2 DEF QuorumInv
<1> QED
  BY <1>1, <1>2, <1>3

(***************************************************************************)
(* The tables keep their types whatever write-backs and late requests      *)
(* reach them, a client talks to a quorum, and quorum_access returns with  *)
(* no more than K answers, for any number of servers, odd or even.         *)
(***************************************************************************)
THEOREM QuorumTypes ==
  ASSUME ClientStamps
  PROVE  Spec => []TypeOK
<1>1. Init => QuorumInv
  <2> SUFFICES ASSUME Init PROVE QuorumInv
    OBVIOUS
  <2>1. \A c \in Client : Answered(c) = {}
    BY DEF Init, Answered
  <2>2. \A c \in Client : Cardinality(Answered(c)) <= K
    BY <2>1, FS_EmptySet, QuorumSize
  <2>3. \A c \in Client : quorum[c] = {}
    BY DEF Init
  <2>4. DOMAIN quorum = Client
    BY DEF Init
  <2> QED
    BY <2>2, <2>3, <2>4 DEF QuorumInv
<1>2. PresenceInv /\ QuorumInv /\ [Next]_vars => QuorumInv'
  <2> SUFFICES ASSUME PresenceInv, QuorumInv, [Next]_vars
               PROVE  QuorumInv'
    OBVIOUS
  <2>1. ASSUME NEW c \in Client, NEW k, NEW d, Begin(c, k, d)
        PROVE  QuorumInv'
    BY <2>1, QuorumAccessed DEF Begin
  <2>2. ASSUME NEW c \in Client, NEW s \in Server, Serve(c, s)
        PROVE  QuorumInv'
    BY <2>2, QuorumServed
  <2>3. ASSUME NEW c \in Client, Timeout(c) \/ Die(c)
        PROVE  QuorumInv'
    BY <2>3, QuorumKept DEF Timeout, Die
  <2>4. ASSUME NEW c \in Client, NEW ret, NEW by, Finish(c, ret, by)
        PROVE  QuorumInv'
    <3>1. /\ answers' = [answers EXCEPT ![c] = [s \in Server |-> None]]
          /\ UNCHANGED quorum
      BY <2>4 DEF Finish
    <3> QED
      BY <3>1, QuorumKept DEF PresenceInv, Types
  <2>5. ASSUME NEW c \in Client, EndRead(c)
        PROVE  QuorumInv'
    <3>1. (\E ret, by : Finish(c, ret, by)) \/ (\E m : Access(c, m))
      BY <2>5 DEF EndRead
    <3> QED
      BY <2>4, <3>1, QuorumAccessed
  <2>6. ASSUME NEW c \in Client, EndWrite(c)
        PROVE  QuorumInv'
    <3>1. \E ret, by : Finish(c, ret, by)
      BY <2>6 DEF EndWrite
    <3> QED
      BY <2>4, <3>1
  <2>7. CASE UNCHANGED vars
    BY <2>7, QuorumKept DEF vars, clientVars
  <2> QED
    BY <2>1, <2>2, <2>3, <2>5, <2>6, <2>7 DEF Next
<1>3. PresenceInv /\ QuorumInv => TypeOK
  BY DEF PresenceInv, QuorumInv, Types, TypeOK
<1> QED
  BY <1>1, <1>2, <1>3, PresenceHolds, PTL DEF Spec

-----------------------------------------------------------------------------
(***************************************************************************)
(* Reads that are not stale.  What matters is one server x that has        *)
(* answered every call: it holds the newest value of all writes that are   *)
(* done, whatever the others hold, what late write-backs bring them, and   *)
(* although table_update takes older values there.                         *)
(***************************************************************************)
At(s) == TableGet(table[s], key)

(* In the second call of a write, also when the client has died in it.     *)
InWrite(c) == pc[c] # "idle" /\ request[c].op \in {"OC_PUT", "OC_UPDATE"}

(* A value with timestamp t that operation b wrote is at a server, in an   *)
(* answer that is still to be used, or in a request.                       *)
Stored(t, b) == \E s \in Server : At(s).ts = t /\ author[s] = b

Returned(t, b) ==
  \E c \in Client, s \in Server :
    pc[c] = "read" /\ answers[c][s] # None
    /\ answers[c][s].value.ts = t /\ answers[c][s].by = b

OnItsWay(t, b) ==
  \E c \in Client, s \in Server : \E i \in 1 .. Len(tasks[c][s]) :
    tasks[c][s][i].op # "OC_GET"
    /\ tasks[c][s][i].value.ts = t /\ tasks[c][s][i].by = b

Requested(t, b) ==
  \E c \in Client : InWrite(c) /\ request[c].value.ts = t /\ request[c].by = b

Copy(t, b) == Stored(t, b) \/ Returned(t, b) \/ OnItsWay(t, b) \/ Requested(t, b)

(* Operations are numbered, and what is stale is done.                     *)
Numbered ==
  /\ \A t, b \in Nat : Copy(t, b) => b <= ops
  /\ \A b \in done : b <= ops
  /\ stale \subseteq done

(* The server x has the newest of what is done, and of what is not it lacks *)
(* at most the write under way.                                            *)
Leads(x) ==
  /\ \A t, b \in Nat : Copy(t, b) /\ b \in stale => t < At(x).ts
  /\ \A t, b \in Nat : Copy(t, b) =>
       t <= At(x).ts \/ \E c \in Client : InWrite(c) /\ b = op[c].number

(* What a client knows, and what its requests are.                         *)
Knows(c) ==
  /\ known[c].done \subseteq done /\ known[c].stale \subseteq stale
  /\ pc[c] # "idle" => request[c].by = op[c].number
  /\ op[c].kind = "get" /\ result[c].ret # "none" => result[c].by \notin known[c].stale

(* The only writer; nobody has a copy of what it has not sent yet.         *)
Writes(c) ==
  /\ Writing(c) =>
       /\ op[c].number <= ops /\ op[c].number \notin done
       /\ op[c].kind = "put" => ~ deleted
       /\ \A e \in Client : Writing(e) => e = c
       /\ InWrite(c) \/ \A t, b \in Nat : Copy(t, b) => b # op[c].number
  /\ InWrite(c) => op[c].kind # "get"

(* No request of a client's earlier calls is left for x.                   *)
OneTask(c, x) ==
  /\ tasks[c][x] # <<>> => tasks[c][x] = <<request[c]>> /\ pc[c] # "idle"
  /\ pc[c] \in {"read", "write"} /\ answers[c][x] # None => tasks[c][x] = <<>>

(* What is being written has the largest timestamp, and x will take it.    *)
Supersedes(c, x) ==
  InWrite(c) =>
    /\ \A t, b \in Nat : Copy(t, b) =>
         IF b = op[c].number THEN t = request[c].value.ts ELSE t < request[c].value.ts
    /\ author[x] # op[c].number =>
         IF request[c].op = "OC_PUT"
         THEN key \notin Live(table[x]) ELSE key \in Present(table[x])
    /\ pc[c] = "write" /\ answers[c][x] # None => author[x] = op[c].number

(* What x has answered to a read is newer than all that was stale when the *)
(* read began, and a writer's is what x still has.                         *)
Informs(c, x) ==
  pc[c] = "read" /\ answers[c][x] # None =>
    IF op[c].kind = "get"
    THEN \A t, b \in Nat :
           Copy(t, b) /\ b \in known[c].stale => t < answers[c][x].value.ts
    ELSE answers[c][x].value = At(x)

FreshAt(x) ==
  /\ Numbered /\ Leads(x)
  /\ \A c \in Client :
       Knows(c) /\ Writes(c) /\ OneTask(c, x) /\ Supersedes(c, x) /\ Informs(c, x)

(* As long as x has answered every call, no writes have overlapped, and no *)
(* put has come after a del.                                               *)
InScope(x) == x \in common /\ ~ raced /\ ~ reput

FreshInv ==
  /\ common \subseteq Server
  /\ \A x \in Server : InScope(x) => FreshAt(x)

-----------------------------------------------------------------------------
(* What a server has: a value has a timestamp above 1. *)
LEMMA AtServer ==
  ASSUME ClientStamps, Types, NEW s \in Server
  PROVE  /\ At(s) \in Value \cup {Absent} /\ At(s).ts \in Nat /\ author[s] \in Nat
         /\ key \in Present(table[s]) => At(s) = table[s].entry[key]
         /\ key \in Live(table[s]) => At(s).ts > 1
         /\ At(s).ts > 1 => key \in Present(table[s])
<1>1. table[s] \in Tables /\ author[s] \in Nat
  BY DEF Types
<1>2. At(s) \in Value \cup {Absent}
  BY <1>1, GetAnswers DEF At
<1>3. At(s).ts \in Nat
  BY <1>2, StampLarge DEF Value, Absent
<1>4. key \in Present(table[s]) => At(s) = table[s].entry[key]
  BY DEF At, TableGet
<1>5. ASSUME key \in Live(table[s]) PROVE At(s).ts > 1
  <2>1. At(s).data # NoData
    BY <1>1, <1>5, GetAnswers DEF At
  <2>2. At(s) \in Value
    BY <1>2, <2>1 DEF Absent
  <2> QED
    BY <2>2, StampLarge DEF Value
<1>6. key \notin Present(table[s]) => At(s).ts = 1
  BY DEF At, TableGet
<1> QED
  BY <1>1, <1>2, <1>3, <1>4, <1>5, <1>6

(* What a write request does to what a server has. *)
LEMMA RequestWrites ==
  ASSUME Types, NEW s \in Server, NEW m \in WriteMessage,
         NEW u, u = IF m.op = "OC_PUT" THEN TablePut(table[s], key, m.value)
                    ELSE TableUpdate(table[s], key, m.value)
  PROVE  /\ Takes(s, m) => TableGet(u, key) = m.value
         /\ ~ Takes(s, m) => /\ TableGet(u, key) = At(s)
                             /\ key \in Live(u) <=> key \in Live(table[s])
                             /\ key \in Present(u) <=> key \in Present(table[s])
<1>1. key \in Key /\ m.value \in Value /\ m.value # NoEntry /\ m.op \in {"OC_PUT", "OC_UPDATE"}
  BY ValueIsEntry, QuorumTableAssumption DEF WriteMessage
<1>2. table[s] \in Tables
  BY DEF Types
<1>3. \A w \in Tables :
        /\ key \in Present(w) <=> w.entry[key] # NoEntry
        /\ key \in Live(w) <=> w.entry[key] # NoEntry /\ w.entry[key].data # NoData
  BY <1>1 DEF Present, Live
<1>4. u \in Tables
  BY <1>2, RequestKeeps
<1>5. Takes(s, m) => u.entry[key] = m.value
  BY <1>1, <1>2 DEF Takes, TablePut, TableUpdate, Tables
<1>6. ~ Takes(s, m) => u.entry[key] = table[s].entry[key]
  BY <1>1, <1>2 DEF Takes, TablePut, TableUpdate, Tables
<1> QED
  BY <1>1, <1>2, <1>3, <1>4, <1>5, <1>6 DEF TableGet, At

(* An answer to a read has a timestamp and a number, and is a copy. *)
LEMMA ReadAnswer ==
  ASSUME ClientStamps, PresenceInv, NEW c \in Client, pc[c] = "read",
         NEW s \in Answered(c)
  PROVE  /\ answers[c][s].value \in Value \cup {Absent}
         /\ answers[c][s].value.ts \in Nat /\ answers[c][s].by \in Nat
         /\ Copy(answers[c][s].value.ts, answers[c][s].by)
<1>1. s \in Server /\ answers[c][s] # None
  BY DEF Answered
<1>2. answers[c][s].value \in Value \cup {Absent}
  BY DEF PresenceInv, ClientInv, ReadInv
<1>3. answers[c][s].value.ts \in Nat
  BY <1>2, StampLarge DEF Value, Absent
<1>4. answers[c][s].by \in Nat
  BY <1>1 DEF PresenceInv, Types, Answers
<1> QED
  BY <1>1, <1>2, <1>3, <1>4 DEF Copy, Returned

(* Requests that are not reads are writes. *)
LEMMA WriteValue ==
  ASSUME ClientStamps, NEW m \in Message, m.op # "OC_GET"
  PROVE  m \in WriteMessage /\ m.value.ts \in Nat /\ m.by \in Nat
<1>1. m \in WriteMessage
  BY DEF Message, ReadMessage
<1> QED
  BY <1>1, StampLarge DEF WriteMessage, Value

(* Steps after which there is no copy that there was not before. *)
Fewer == \A t, b \in Nat : Copy(t, b)' => Copy(t, b)

(* Copies after a step of c that leaves the servers as they are: those     *)
(* there were and, if its request is new, that one.                        *)
LEMMA CopiesAfter ==
  ASSUME Types', NEW c \in Client, UNCHANGED <<table, author>>,
         \A d \in Client \ {c} : /\ pc'[d] = pc[d] /\ answers'[d] = answers[d]
                                 /\ tasks'[d] = tasks[d] /\ request'[d] = request[d],
         pc'[c] = "read" =>
           \A s \in Server : answers'[c][s] # None =>
             pc[c] = "read" /\ answers'[c][s] = answers[c][s],
         NEW A, \A s \in Server : tasks'[c][s] \in Seq(A),
         \A m \in A : m.op # "OC_GET" =>
           Copy(m.value.ts, m.by) \/ (InWrite(c)' /\ m = request'[c])
  PROVE  \A t, b \in Nat : Copy(t, b)' =>
           \/ Copy(t, b)
           \/ InWrite(c)' /\ request'[c].value.ts = t /\ request'[c].by = b
<1> SUFFICES ASSUME NEW t \in Nat, NEW b \in Nat, Copy(t, b)'
             PROVE  \/ Copy(t, b)
                    \/ InWrite(c)' /\ request'[c].value.ts = t /\ request'[c].by = b
  OBVIOUS
<1>1. Stored(t, b)' => Stored(t, b)
  BY DEF Stored, At
<1>2. Returned(t, b)' => Returned(t, b)
  <2> SUFFICES ASSUME NEW d \in Client, NEW s \in Server,
                      pc'[d] = "read" /\ answers'[d][s] # None
                      /\ answers'[d][s].value.ts = t /\ answers'[d][s].by = b
               PROVE  Returned(t, b)
    BY DEF Returned
  <2>1. pc[d] = "read" /\ answers'[d][s] = answers[d][s]
    OBVIOUS
  <2> QED
    BY <2>1 DEF Returned
<1>3. ASSUME OnItsWay(t, b)'
      PROVE  \/ Copy(t, b)
             \/ InWrite(c)' /\ request'[c].value.ts = t /\ request'[c].by = b
  <2>1. PICK d \in Client, s \in Server : \E i \in 1 .. Len(tasks'[d][s]) :
          tasks'[d][s][i].op # "OC_GET"
          /\ tasks'[d][s][i].value.ts = t /\ tasks'[d][s][i].by = b
    BY <1>3 DEF OnItsWay
  <2>2. PICK i \in 1 .. Len(tasks'[d][s]) :
          tasks'[d][s][i].op # "OC_GET"
          /\ tasks'[d][s][i].value.ts = t /\ tasks'[d][s][i].by = b
    BY <2>1
  <2>3. CASE d # c
    BY <2>2, <2>3 DEF Copy, OnItsWay
  <2>4. CASE d = c
    <3>1. tasks'[c][s][i] \in A
      <4>1. tasks'[c][s] \in Seq(A)
        OBVIOUS
      <4> QED
        BY <2>2, <2>4, <4>1, ElementOfSeq
    <3> QED
      BY <2>2, <2>4, <3>1
  <2> QED
    BY <2>3, <2>4
<1>4. ASSUME Requested(t, b)'
      PROVE  \/ Copy(t, b)
             \/ InWrite(c)' /\ request'[c].value.ts = t /\ request'[c].by = b
  <2>1. PICK d \in Client : InWrite(d)' /\ request'[d].value.ts = t /\ request'[d].by = b
    BY <1>4 DEF Requested
  <2>2. CASE d # c
    BY <2>1, <2>2 DEF Copy, Requested, InWrite
  <2> QED
    BY <2>1, <2>2
<1> QED
  BY <1>1, <1>2, <1>3, <1>4 DEF Copy

(* Requests of which there is a copy (a read has none). *)
Carried == {m \in Message : m.op # "OC_GET" => Copy(m.value.ts, m.by)}

(* All that is under way, *)
LEMMA TasksCarried ==
  ASSUME Types, NEW c \in Client
  PROVE  tasks[c] \in [Server -> Seq(Carried)]
<1> SUFFICES ASSUME NEW s \in Server PROVE tasks[c][s] \in Seq(Carried)
  BY DEF Types
<1>1. tasks[c][s] \in Seq(Message)
  BY DEF Types
<1>2. \A i \in 1 .. Len(tasks[c][s]) : tasks[c][s][i] \in Carried
  <2> SUFFICES ASSUME NEW i \in 1 .. Len(tasks[c][s])
               PROVE  tasks[c][s][i] \in Carried
    OBVIOUS
  <2>1. tasks[c][s][i] \in Message
    BY <1>1, ElementOfSeq
  <2> QED
    BY <2>1 DEF Carried, Copy, OnItsWay
<1> QED
  BY <1>1, <1>2

(* and the request of a call. *)
LEMMA RequestCarried ==
  ASSUME PresenceInv, NEW c \in Client, pc[c] \in {"read", "write"}
  PROVE  request[c] \in Carried
<1>1. ReadInv(c) \/ WriteInv(c)
  BY DEF PresenceInv, ClientInv
<1>2. CASE ReadInv(c)
  BY <1>2 DEF ReadInv, ReadMessage, Carried, Message
<1>3. CASE WriteInv(c)
  <2>1. request[c] \in WriteMessage /\ InWrite(c)
    BY <1>3 DEF WriteInv, WriteMessage, InWrite
  <2> QED
    BY <2>1 DEF Carried, Message, Copy, Requested
<1> QED
  BY <1>1, <1>2, <1>3

(* A read that begins is no copy. *)
LEMMA BeginFewer ==
  ASSUME PresenceInv, PresenceInv', NEW c \in Client, NEW kind, NEW x, Begin(c, kind, x)
  PROVE  Fewer
<1> DEFINE m == [call |-> id[c], op |-> "OC_GET", value |-> None, by |-> ops + 1]
<1>1. Types /\ Types'
  BY DEF PresenceInv
<1>2. m \in Message /\ m.op = "OC_GET"
  BY <1>1 DEF Types, Message, ReadMessage
<1>3. Access(c, m) /\ tasks' = Sent(c, m, tasks[c]) /\ UNCHANGED <<table, author>>
      /\ pc' = [pc EXCEPT ![c] = "read"]
  BY DEF Begin
<1> HIDE DEF m
<1>4. /\ request' = [request EXCEPT ![c] = m]
      /\ answers' = [answers EXCEPT ![c] = [s \in Server |-> None]]
      /\ \A s \in Server : answers'[c][s] = None
  BY <1>1, <1>3, AccessAnswers
<1>5. m \in Carried
  BY <1>2 DEF Carried
<1>6. /\ tasks'[c] \in [Server -> Seq(Carried)]
      /\ \A d \in Client \ {c} : tasks'[d] = tasks[d]
  BY <1>1, <1>3, <1>5, TasksCarried, SentAllowed
<1>7. \A d \in Client \ {c} : /\ pc'[d] = pc[d] /\ answers'[d] = answers[d]
                              /\ tasks'[d] = tasks[d] /\ request'[d] = request[d]
  BY <1>1, <1>3, <1>4, <1>6 DEF Types
<1>8. \A w \in Carried : w.op # "OC_GET" => Copy(w.value.ts, w.by)
  BY DEF Carried
<1>9. ~ InWrite(c)'
  BY <1>1, <1>2, <1>4 DEF InWrite, Types
<1>10. \A s \in Server : tasks'[c][s] \in Seq(Carried)
  BY <1>6
<1> HIDE DEF Carried
<1> QED
  BY <1>1, <1>3, <1>4, <1>7, <1>8, <1>9, <1>10, CopiesAfter DEF Fewer

(* A request that is sent once more has the copy it had. *)
LEMMA TimeoutFewer ==
  ASSUME PresenceInv, PresenceInv', NEW c \in Client, Timeout(c)
  PROVE  Fewer
<1>1. Types /\ Types'
  BY DEF PresenceInv
<1>2. PICK s \in Server : tasks' = [tasks EXCEPT ![c][s] = Append(@, request[c])]
  BY DEF Timeout
<1>3. UNCHANGED <<table, author, pc, answers, request>> /\ pc[c] \in {"read", "write"}
  BY DEF Timeout
<1>4. tasks[c] \in [Server -> Seq(Carried)] /\ request[c] \in Carried
  BY <1>1, <1>3, TasksCarried, RequestCarried
<1>5. \A w \in Carried : w.op # "OC_GET" => Copy(w.value.ts, w.by)
  BY DEF Carried
<1> HIDE DEF Carried
<1>6. \A r \in Server : tasks'[c][r] \in Seq(Carried)
  BY <1>1, <1>2, <1>4 DEF Types
<1>7. \A d \in Client \ {c} : tasks'[d] = tasks[d]
  BY <1>1, <1>2 DEF Types
<1>8. InWrite(c)' => Copy(request'[c].value.ts, request'[c].by)
  BY <1>3 DEF InWrite, Copy, Requested
<1> QED
  BY <1>1, <1>3, <1>5, <1>6, <1>7, <1>8, CopiesAfter DEF Fewer

(* A client that dies keeps some of its requests from being executed. *)
LEMMA DieFewer ==
  ASSUME PresenceInv, PresenceInv', NEW c \in Client, Die(c)
  PROVE  Fewer
<1>1. Types /\ Types'
  BY DEF PresenceInv
<1>2. /\ tasks' = [tasks EXCEPT ![c] =
                    [s \in Server |-> SubSeq(@[s], 1, IF @[s] = <<>> THEN 0 ELSE 1)]]
      /\ pc' = [pc EXCEPT ![c] = "dead"]
      /\ pc[c] \in {"read", "write"}
      /\ UNCHANGED <<table, author, answers, request>>
  BY DEF Die
<1>3. tasks[c] \in [Server -> Seq(Carried)]
  BY <1>1, TasksCarried
<1>4. \A w \in Carried : w.op # "OC_GET" => Copy(w.value.ts, w.by)
  BY DEF Carried
<1> HIDE DEF Carried
<1>5. ASSUME NEW s \in Server
      PROVE  tasks'[c][s] \in Seq(Carried)
  <2> DEFINE t == tasks[c][s]
             n == IF t = <<>> THEN 0 ELSE 1
  <2>1. tasks'[c][s] = SubSeq(t, 1, n)
    BY <1>1, <1>2 DEF Types
  <2>2. t \in Seq(Carried) /\ n \in 0 .. Len(t)
    BY <1>3
  <2> HIDE DEF n, t
  <2> QED
    BY <2>1, <2>2, SubSeqProperties
<1>6. \A d \in Client \ {c} : pc'[d] = pc[d] /\ tasks'[d] = tasks[d]
  BY <1>1, <1>2 DEF Types
<1>7. pc'[c] = "dead"
  BY <1>1, <1>2 DEF Types
<1>8. InWrite(c)' => Copy(request'[c].value.ts, request'[c].by)
  BY <1>2, <1>7 DEF InWrite, Copy, Requested
<1> QED
  BY <1>1, <1>2, <1>4, <1>5, <1>6, <1>7, <1>8, CopiesAfter DEF Fewer

(* An operation that ends leaves nothing but requests. *)
LEMMA FinishFewer ==
  ASSUME PresenceInv, PresenceInv', NEW c \in Client, NEW ret, NEW by, Finish(c, ret, by),
         UNCHANGED <<table, author>>,
         NEW left \in [Server -> Seq(Carried)],
         tasks' = [tasks EXCEPT ![c] = left]
  PROVE  Fewer
<1>1. Types /\ Types'
  BY DEF PresenceInv
<1>2. /\ pc' = [pc EXCEPT ![c] = "idle"]
      /\ request' = [request EXCEPT ![c] = Nobody]
      /\ answers' = [answers EXCEPT ![c] = [s \in Server |-> None]]
  BY DEF Finish
<1>3. \A w \in Carried : w.op # "OC_GET" => Copy(w.value.ts, w.by)
  BY DEF Carried
<1> HIDE DEF Carried
<1>4. \A d \in Client \ {c} : /\ pc'[d] = pc[d] /\ answers'[d] = answers[d]
                              /\ tasks'[d] = tasks[d] /\ request'[d] = request[d]
  BY <1>1, <1>2 DEF Types
<1>5. pc'[c] = "idle" /\ ~ InWrite(c)' /\ \A s \in Server : tasks'[c][s] \in Seq(Carried)
  BY <1>1, <1>2 DEF Types, InWrite
<1> QED
  BY <1>1, <1>3, <1>4, <1>5, CopiesAfter DEF Fewer

(* A write-back carries the value that was read, which there is a copy of. *)
LEMMA LateTasksCarried ==
  ASSUME ClientStamps, PresenceInv, NEW c \in Client, pc[c] = "read",
         NEW s \in Answered(c), NEW left \in LateTasks(c, answers[c][s])
  PROVE  left \in [Server -> Seq(Carried)]
<1> DEFINE new == answers[c][s]
<1>1. Types /\ tasks[c] \in [Server -> Seq(Carried)]
  BY TasksCarried DEF PresenceInv
<1>2. ASSUME NEW w \in WriteBacks(c, new)
      PROVE  w \in Carried
  <2>1. new.value.data # NoData
    BY <1>2 DEF WriteBacks
  <2>2. new.value \in Value /\ new.by \in Nat /\ Copy(new.value.ts, new.by)
    BY <2>1, ReadAnswer DEF Absent
  <2>3. PICK o \in {"OC_PUT", "OC_UPDATE"} :
          w = [call |-> id[c], op |-> o, value |-> new.value, by |-> new.by]
    BY <1>2, <2>1 DEF WriteBacks
  <2> HIDE DEF new
  <2>4. w \in WriteMessage
    BY <1>1, <2>2, <2>3 DEF Types, WriteMessage
  <2> QED
    BY <2>2, <2>3, <2>4 DEF Message, Carried
<1>3. ASSUME NEW r \in Late(c), NEW w \in WriteBacks(c, new)
      PROVE  Append(Front(tasks[c][r]), w) \in Seq(Carried)
  <2>1. r \in Server /\ tasks[c][r] # <<>> /\ w \in Carried
    BY <1>2 DEF Late
  <2> HIDE DEF Carried
  <2> DEFINE t == tasks[c][r]
             n == Len(t) - 1
  <2>2. t \in Seq(Carried) /\ n \in 0 .. Len(t)
    BY <1>1, <2>1
  <2> HIDE DEF t, n
  <2>3. SubSeq(t, 1, n) \in Seq(Carried)
    BY <2>2, SubSeqProperties
  <2>4. Append(SubSeq(t, 1, n), w) \in Seq(Carried)
    BY <2>1, <2>3
  <2> QED
    BY <2>4 DEF Front, t, n
<1>4. CASE left = tasks[c]
  BY <1>1, <1>4
<1>5. ASSUME NEW S \in SUBSET Late(c), NEW w \in WriteBacks(c, new),
             left = Changed(c, S, w)
      PROVE  left \in [Server -> Seq(Carried)]
  BY <1>1, <1>3, <1>5 DEF Changed
<1> QED
  BY <1>4, <1>5 DEF LateTasks

(* A client that is not writing is told nothing by another's write. *)
LEMMA ReaderKept ==
  ASSUME NEW x \in Server, FreshAt(x), NEW d \in Client, ~ Writing(d),
         pc'[d] = pc[d], op'[d] = op[d], request'[d] = request[d],
         result'[d] = result[d], known'[d] = known[d],
         tasks'[d][x] = tasks[d][x], answers'[d][x] = answers[d][x],
         done \subseteq done', stale \subseteq stale',
         \A t, b \in Nat : Copy(t, b)' /\ b \in known[d].stale => Copy(t, b)
  PROVE  Knows(d)' /\ Writes(d)' /\ OneTask(d, x)' /\ Supersedes(d, x)' /\ Informs(d, x)'
<1>1. Knows(d) /\ Writes(d) /\ OneTask(d, x) /\ Informs(d, x)
  BY DEF FreshAt
<1>2. ~ Writing(d)' /\ ~ InWrite(d)'
  BY <1>1 DEF Writes, Writing, InWrite
<1>3. Knows(d)' /\ OneTask(d, x)'
  BY <1>1 DEF Knows, OneTask
<1>4. Writes(d)' /\ Supersedes(d, x)'
  BY <1>2 DEF Writes, Supersedes
<1>5. Informs(d, x)'
  BY <1>1, <1>2 DEF Informs, Writing
<1> QED
  BY <1>3, <1>4, <1>5

(* Nor is the writer by a read. *)
LEMMA WriterKept ==
  ASSUME NEW x \in Server, FreshAt(x), NEW d \in Client, Writing(d), Fewer,
         pc'[d] = pc[d], op'[d] = op[d], request'[d] = request[d],
         result'[d] = result[d], known'[d] = known[d],
         tasks'[d][x] = tasks[d][x], answers'[d][x] = answers[d][x],
         At(x)' = At(x), author'[x] = author[x],
         (key \in Live(table[x]))' <=> key \in Live(table[x]),
         (key \in Present(table[x]))' <=> key \in Present(table[x]),
         UNCHANGED <<done, stale, deleted>>, ops \in Nat, ops' \in Nat, ops <= ops',
         op[d].number \in Nat,
         \A e \in Client : Writing(e)' => Writing(e)
  PROVE  Knows(d)' /\ Writes(d)' /\ OneTask(d, x)' /\ Supersedes(d, x)' /\ Informs(d, x)'
<1>1. Knows(d) /\ Writes(d) /\ OneTask(d, x) /\ Supersedes(d, x) /\ Informs(d, x)
  BY DEF FreshAt
<1>2. InWrite(d)' <=> InWrite(d)
  BY DEF InWrite
<1>3. Knows(d)' /\ OneTask(d, x)'
  BY <1>1 DEF Knows, OneTask
<1>4. Writes(d)'
  <2>1. op[d].number <= ops'
    BY <1>1 DEF Writes
  <2> QED
    BY <1>1, <1>2, <2>1 DEF Writes, Fewer
<1>5. Supersedes(d, x)'
  BY <1>1, <1>2 DEF Supersedes, Fewer
<1>6. Informs(d, x)'
  BY <1>1 DEF Informs, Writing
<1> QED
  BY <1>3, <1>4, <1>5, <1>6

(* No write starts or ends, and nothing comes to x. *)
LEMMA LeadKept ==
  ASSUME NEW x \in Server, FreshAt(x), Fewer, At(x)' = At(x),
         UNCHANGED <<done, stale>>, done \subseteq Nat,
         ops \in Nat, ops' \in Nat, ops <= ops',
         \A e \in Client : InWrite(e) => InWrite(e)' /\ op'[e].number = op[e].number
  PROVE  Numbered' /\ Leads(x)'
<1>1. Numbered /\ Leads(x)
  BY DEF FreshAt
<1>2. Numbered'
  <2>1. \A t, b \in Nat : Copy(t, b)' => b <= ops'
    BY <1>1 DEF Numbered, Fewer
  <2>2. ASSUME NEW b \in done
        PROVE  b <= ops'
    <3>1. b \in Nat /\ b <= ops
      BY <1>1 DEF Numbered
    <3> QED
      BY <3>1
  <2> QED
    BY <1>1, <2>1, <2>2 DEF Numbered
<1>3. Leads(x)'
  <2>1. \A t, b \in Nat : Copy(t, b)' /\ b \in stale' => t < At(x)'.ts
    BY <1>1 DEF Leads, Fewer
  <2>2. \A t, b \in Nat : Copy(t, b)' =>
          t <= At(x)'.ts \/ \E e \in Client : InWrite(e)' /\ b = op'[e].number
    <3> SUFFICES ASSUME NEW t \in Nat, NEW b \in Nat, Copy(t, b)'
                 PROVE  t <= At(x).ts \/ \E e \in Client : InWrite(e)' /\ b = op'[e].number
      OBVIOUS
    <3>1. t <= At(x).ts \/ \E e \in Client : InWrite(e) /\ b = op[e].number
      BY <1>1 DEF Leads, Fewer
    <3> QED
      BY <3>1
  <2> QED
    BY <2>1, <2>2 DEF Leads
<1> QED
  BY <1>2, <1>3

-----------------------------------------------------------------------------
(* The key is nowhere. *)
LEMMA FreshInit == ASSUME Init, NEW x \in Server PROVE FreshAt(x)
<1>1. At(x) = [ts |-> 1, data |-> NoData]
  BY DEF Init, At, TableGet, EmptyTable, Present
<1>2. \A s \in Server : At(s).ts = 1 /\ author[s] = 0
  BY DEF Init, At, TableGet, EmptyTable, Present
<1>3. \A t, b \in Nat : Copy(t, b) => t = 1 /\ b = 0
  BY <1>2 DEF Init, Copy, Stored, Returned, OnItsWay, Requested, InWrite
<1>4. Numbered /\ Leads(x)
  BY <1>1, <1>3 DEF Init, Numbered, Leads
<1>5. ASSUME NEW c \in Client
      PROVE  Knows(c) /\ Writes(c) /\ OneTask(c, x) /\ Supersedes(c, x) /\ Informs(c, x)
  <2>1. pc[c] = "idle" /\ tasks[c][x] = <<>> /\ op[c].kind = "none" /\ result[c].ret = "none"
        /\ known[c].done = {} /\ known[c].stale = {}
    BY DEF Init, Nothing
  <2> QED
    BY <2>1 DEF Knows, Writes, OneTask, Supersedes, Informs, Writing, InWrite
<1> QED
  BY <1>4, <1>5 DEF FreshAt

(* An operation begins: its number is that of no copy, and a write is the  *)
(* only one, or raced.                                                     *)
LEMMA FreshBegin ==
  ASSUME ClientStamps, PresenceInv, PresenceInv', NEW x \in Server, FreshAt(x),
         NEW c \in Client, NEW kind \in {"get", "put", "update", "del"}, NEW y,
         Begin(c, kind, y), ~ raced', ~ reput'
  PROVE  FreshAt(x)'
<1> DEFINE m == [call |-> id[c], op |-> "OC_GET", value |-> None, by |-> ops + 1]
<1>1. Types /\ Types'
  BY DEF PresenceInv
<1>2. /\ pc[c] = "idle" /\ pc' = [pc EXCEPT ![c] = "read"]
      /\ ops' = ops + 1
      /\ op' = [op EXCEPT ![c] = [kind |-> kind, data |-> y, number |-> ops + 1]]
      /\ result' = [result EXCEPT ![c] = Nothing]
      /\ known' = [known EXCEPT ![c] = [done |-> IF kind = "get" THEN {} ELSE done,
                                        stale |-> IF kind = "get" THEN stale ELSE {},
                                        put |-> put]]
      /\ raced' = (raced \/ (kind # "get" /\ \E e \in Client : Writing(e)))
      /\ deleted' = (deleted \/ kind = "del")
      /\ reput' = (reput \/ (kind = "put" /\ deleted))
      /\ UNCHANGED <<table, author, done, stale>>
      /\ Access(c, m) /\ tasks' = Sent(c, m, tasks[c])
  BY DEF Begin
<1>3. m \in Message /\ m.op = "OC_GET" /\ m.by = ops + 1
  BY <1>1 DEF Types, Message, ReadMessage
<1> HIDE DEF m
<1>4. /\ request' = [request EXCEPT ![c] = m]
      /\ answers' = [answers EXCEPT ![c] = [s \in Server |-> None]]
      /\ \A s \in Server : answers'[c][s] = None
  BY <1>1, <1>2, AccessAnswers
<1>5. Fewer
  BY BeginFewer
<1>6. ops \in Nat /\ ops' \in Nat /\ ops <= ops' /\ done \subseteq Nat
  BY <1>1, <1>2 DEF Types
<1>7. At(x)' = At(x) /\ author'[x] = author[x]
  BY <1>2 DEF At
<1>8. /\ pc'[c] = "read" /\ op'[c].kind = kind /\ op'[c].number = ops + 1
      /\ request'[c] = m /\ result'[c] = Nothing
      /\ known'[c].done = (IF kind = "get" THEN {} ELSE done)
      /\ known'[c].stale = (IF kind = "get" THEN stale ELSE {})
      /\ ~ InWrite(c)' /\ ~ InWrite(c) /\ ~ Writing(c)
  BY <1>1, <1>2, <1>3, <1>4 DEF Types, InWrite, Writing
<1>9. ASSUME NEW d \in Client \ {c}
      PROVE  /\ pc'[d] = pc[d] /\ op'[d] = op[d] /\ request'[d] = request[d]
             /\ result'[d] = result[d] /\ known'[d] = known[d]
             /\ tasks'[d] = tasks[d] /\ answers'[d] = answers[d]
             /\ (InWrite(d)' <=> InWrite(d)) /\ (Writing(d)' <=> Writing(d))
  <2>1. tasks'[d] = tasks[d]
    <3>1. tasks[c] \in [Server -> Seq(Message)]
      BY <1>1 DEF Types
    <3> QED
      BY <1>1, <1>2, <1>3, <3>1, SentAllowed
  <2> QED
    BY <1>1, <1>2, <1>4, <2>1 DEF Types, InWrite, Writing
<1>10. Numbered' /\ Leads(x)'
  BY <1>2, <1>5, <1>6, <1>7, <1>8, <1>9, LeadKept
<1>11. ASSUME NEW d \in Client \ {c}
       PROVE  Knows(d)' /\ Writes(d)' /\ OneTask(d, x)' /\ Supersedes(d, x)' /\ Informs(d, x)'
  <2>1. CASE ~ Writing(d)
    BY <1>2, <1>5, <1>9, <2>1, ReaderKept DEF Fewer
  <2>2. CASE Writing(d)
    <3>1. kind = "get"
      BY <1>2, <2>2
    <3>2. \A e \in Client : Writing(e)' => Writing(e)
      BY <1>8, <1>9, <3>1 DEF Writing
    <3>3. op[d].number \in Nat /\ deleted' = deleted
      BY <1>1, <1>2, <3>1 DEF Types
    <3> QED
      BY <1>2, <1>5, <1>6, <1>7, <1>9, <2>2, <3>2, <3>3, WriterKept
  <2> QED
    BY <2>1, <2>2
<1>12. Knows(c)' /\ Writes(c)' /\ OneTask(c, x)' /\ Supersedes(c, x)' /\ Informs(c, x)'
  <2>1. Numbered /\ OneTask(c, x)
    BY DEF FreshAt
  <2>2. Knows(c)'
    BY <1>2, <1>3, <1>8 DEF Knows, Nothing
  <2>3. Writes(c)'
    <3>1. ops + 1 \notin done /\ \A t, b \in Nat : Copy(t, b)' => b # ops + 1
      BY <1>5, <1>6, <2>1 DEF Numbered, Fewer
    <3>2. Writing(c)' => \A e \in Client : Writing(e)' => e = c
      BY <1>2, <1>8, <1>9 DEF Writing
    <3>3. kind = "put" => ~ deleted'
      BY <1>2
    <3> QED
      BY <1>2, <1>6, <1>8, <3>1, <3>2, <3>3 DEF Writes
  <2>4. OneTask(c, x)'
    <3>1. tasks[c][x] = <<>>
      BY <1>2, <2>1 DEF OneTask
    <3>2. tasks'[c][x] = IF x \in quorum'[c] THEN Append(tasks[c][x], m) ELSE tasks[c][x]
      BY <1>1, <1>2 DEF Sent, Types
    <3>3. tasks'[c][x] \in {<<>>, <<m>>}
      BY <3>1, <3>2
    <3> QED
      BY <1>4, <1>8, <3>3 DEF OneTask
  <2> QED
    BY <1>4, <1>8, <2>2, <2>3, <2>4 DEF Supersedes, Informs
<1> QED
  BY <1>10, <1>11, <1>12 DEF FreshAt

(* Steps of a call that change nothing of what x has: they may change what *)
(* is asked of servers, and what x has answered.                           *)
LEMMA FreshMiddle ==
  ASSUME PresenceInv, PresenceInv', NEW x \in Server, FreshAt(x), NEW c \in Client,
         pc[c] # "idle", Fewer,
         \/ pc'[c] = pc[c]
         \/ pc'[c] = "dead",
         \A d \in Client \ {c} : /\ pc'[d] = pc[d] /\ tasks'[d][x] = tasks[d][x]
                                 /\ answers'[d][x] = answers[d][x],
         OneTask(c, x)',
         \/ answers'[c][x] = answers[c][x]
         \/ Supersedes(c, x)' /\ Informs(c, x)',
         At(x)' = At(x), author'[x] = author[x],
         (key \in Live(table[x]))' <=> key \in Live(table[x]),
         (key \in Present(table[x]))' <=> key \in Present(table[x]),
         UNCHANGED <<op, request, result, ops, done, stale, known, deleted>>
  PROVE  FreshAt(x)'
<1>1. Types /\ ops \in Nat /\ done \subseteq Nat /\ op[c].number \in Nat
  BY DEF PresenceInv, Types
<1>2. \A e \in Client : (Writing(e)' <=> Writing(e)) /\ (InWrite(e)' <=> InWrite(e))
  BY DEF Writing, InWrite
<1>3. Numbered' /\ Leads(x)'
  BY <1>1, <1>2, LeadKept
<1>4. ASSUME NEW d \in Client \ {c}
      PROVE  Knows(d)' /\ Writes(d)' /\ OneTask(d, x)' /\ Supersedes(d, x)' /\ Informs(d, x)'
  <2>1. CASE ~ Writing(d)
    BY <2>1, ReaderKept DEF Fewer
  <2>2. CASE Writing(d)
    <3>1. op[d].number \in Nat
      BY <1>1 DEF Types
    <3> QED
      BY <1>1, <1>2, <2>2, <3>1, WriterKept
  <2> QED
    BY <2>1, <2>2
<1>5. Knows(c)' /\ Writes(c)' /\ Supersedes(c, x)' /\ Informs(c, x)'
  <2>1. Knows(c) /\ Writes(c) /\ Supersedes(c, x) /\ Informs(c, x)
    BY DEF FreshAt
  <2>2. Knows(c)' /\ Writes(c)'
    BY <1>1, <1>2, <2>1 DEF Knows, Writes, Fewer
  <2>3. answers'[c][x] = answers[c][x] => Supersedes(c, x)'
    BY <1>2, <2>1 DEF Supersedes, Fewer
  <2>4. answers'[c][x] = answers[c][x] => Informs(c, x)'
    BY <2>1 DEF Informs, Fewer
  <2> QED
    BY <2>2, <2>3, <2>4
<1> QED
  BY <1>3, <1>4, <1>5 DEF FreshAt

(* A server whose thread still has the request is not asked again.         *)
LEMMA FreshTimeout ==
  ASSUME PresenceInv, PresenceInv', NEW x \in Server, FreshAt(x),
         NEW c \in Client, Timeout(c)
  PROVE  FreshAt(x)'
<1>1. Types
  BY DEF PresenceInv
<1>2. PICK s \in Server \ (quorum[c] \cup Answered(c) \cup Late(c)) :
        tasks' = [tasks EXCEPT ![c][s] = Append(@, request[c])]
  BY DEF Timeout
<1>3. /\ pc[c] \in {"read", "write"}
      /\ UNCHANGED <<table, pc, op, request, answers, result, ops, author, done, stale,
                     known, deleted>>
  BY DEF Timeout, marks
<1>4. request[c].call = id[c]
  BY <1>3 DEF PresenceInv, ClientInv, ReadInv, WriteInv
<1>5. \A d \in Client \ {c} : tasks'[d] = tasks[d]
  BY <1>1, <1>2 DEF Types
<1>6. OneTask(c, x)
  BY DEF FreshAt
<1>7. OneTask(c, x)'
  <2>1. CASE s # x
    <3>1. tasks'[c][x] = tasks[c][x]
      BY <1>1, <1>2, <2>1 DEF Types
    <3> QED
      BY <1>3, <1>6, <3>1 DEF OneTask
  <2>2. CASE s = x
    <3>1. answers[c][x] = None
      BY <1>2, <2>2 DEF Answered
    <3>2. tasks[c][x] = <<>>
      <4>1. tasks[c][x] # <<>> => Last(tasks[c][x]) = request[c]
        BY <1>6 DEF OneTask, Last
      <4> QED
        BY <1>2, <1>4, <2>2, <4>1 DEF Late
    <3>3. tasks'[c][x] = Append(tasks[c][x], request[c])
      BY <1>1, <1>2, <2>2 DEF Types
    <3>4. tasks'[c][x] = <<request'[c]>>
      BY <1>3, <3>2, <3>3
    <3> QED
      BY <1>3, <3>1, <3>4 DEF OneTask
  <2> QED
    BY <2>1, <2>2
<1>8. Fewer
  BY TimeoutFewer
<1> QED
  BY <1>3, <1>5, <1>7, <1>8, FreshMiddle DEF At

(* What a dead client had sent may still be executed.                      *)
LEMMA FreshDie ==
  ASSUME PresenceInv, PresenceInv', NEW x \in Server, FreshAt(x),
         NEW c \in Client, Die(c)
  PROVE  FreshAt(x)'
<1>1. Types
  BY DEF PresenceInv
<1>2. /\ tasks' = [tasks EXCEPT ![c] =
                    [s \in Server |-> SubSeq(@[s], 1, IF @[s] = <<>> THEN 0 ELSE 1)]]
      /\ pc' = [pc EXCEPT ![c] = "dead"]
      /\ pc[c] \in {"read", "write"}
      /\ UNCHANGED <<table, op, request, answers, result, ops, author, done, stale,
                     known, deleted>>
  BY DEF Die, marks
<1>3. pc'[c] = "dead" /\ \A d \in Client \ {c} : pc'[d] = pc[d] /\ tasks'[d] = tasks[d]
  BY <1>1, <1>2 DEF Types
<1>4. OneTask(c, x)'
  <2>1. tasks[c][x] # <<>> => tasks[c][x] = <<request[c]>>
    BY DEF FreshAt, OneTask
  <2>2. tasks'[c][x] = SubSeq(tasks[c][x], 1, IF tasks[c][x] = <<>> THEN 0 ELSE 1)
    BY <1>1, <1>2 DEF Types
  <2>3. tasks'[c][x] = tasks[c][x]
    BY <2>1, <2>2
  <2> QED
    BY <1>2, <1>3, <2>1, <2>3 DEF OneTask
<1>5. Fewer
  BY DieFewer
<1> QED
  BY <1>2, <1>3, <1>4, <1>5, FreshMiddle DEF At

-----------------------------------------------------------------------------
(* A request that is executed, refused or answered makes no new copy.      *)
LEMMA ServeFewer ==
  ASSUME ClientStamps, PresenceInv, PresenceInv', NEW c \in Client, NEW s \in Server,
         Serve(c, s)
  PROVE  Fewer
<1> DEFINE m == Head(tasks[c][s])
<1>1. Types /\ Types'
  BY DEF PresenceInv
<1>2. /\ tasks[c][s] # <<>>
      /\ tasks' = [tasks EXCEPT ![c][s] = Tail(@)]
      /\ table' = [table EXCEPT ![s] = Written(s, m)]
      /\ author' = [author EXCEPT ![s] = IF Takes(s, m) THEN m.by ELSE @]
      /\ \/ answers' = answers
         \/ m.call = id[c] /\ answers' = [answers EXCEPT ![c][s] = AnswerOf(s, m)]
      /\ UNCHANGED <<pc, op, request>>
  BY DEF Serve
<1>3. m = tasks[c][s][1] /\ 1 \in 1 .. Len(tasks[c][s]) /\ tasks[c][s] \in Seq(Message)
  BY <1>1, <1>2 DEF Types
<1>4. m \in Message
  BY <1>3, ElementOfSeq
<1>5. m.op # "OC_GET" => OnItsWay(m.value.ts, m.by)
  BY <1>3 DEF OnItsWay
<1>6. m \in Allowed(c)
  BY <1>3, ElementOfSeq DEF PresenceInv, ClientInv
<1> HIDE DEF m
<1> SUFFICES ASSUME NEW t \in Nat, NEW b \in Nat, Copy(t, b)'
             PROVE  Copy(t, b)
  BY DEF Fewer
<1>7. CASE Stored(t, b)'
  <2>1. PICK r \in Server : At(r)'.ts = t /\ author'[r] = b
    BY <1>7 DEF Stored
  <2>2. CASE At(r)' = At(r) /\ author'[r] = author[r]
    BY <2>1, <2>2 DEF Copy, Stored
  <2>3. CASE r = s /\ m.op = "OC_GET"
    <3>1. At(r)' = At(r) /\ author'[r] = author[r]
      BY <1>1, <1>2, <2>3 DEF Types, At, Written, Takes
    <3> QED
      BY <2>2, <3>1
  <2>4. CASE r = s /\ m.op # "OC_GET"
    <3>1. m \in WriteMessage
      BY <1>4, <2>4, WriteValue
    <3>2. table'[s] = IF m.op = "OC_PUT" THEN TablePut(table[s], key, m.value)
                      ELSE TableUpdate(table[s], key, m.value)
      BY <1>1, <1>2, <3>1 DEF Types, Written, WriteMessage
    <3>3. /\ Takes(s, m) => TableGet(table'[s], key) = m.value
          /\ ~ Takes(s, m) => TableGet(table'[s], key) = At(s)
      BY <1>1, <3>1, <3>2, RequestWrites
    <3>4. author'[s] = IF Takes(s, m) THEN m.by ELSE author[s]
      BY <1>1, <1>2 DEF Types
    <3>5. At(s)' = TableGet(table'[s], key)
      BY DEF At
    <3> QED
      BY <1>5, <2>1, <2>2, <2>4, <3>3, <3>4, <3>5 DEF Copy
  <2>5. CASE r # s
    <3>1. At(r)' = At(r) /\ author'[r] = author[r]
      BY <1>1, <1>2, <2>5 DEF Types, At
    <3> QED
      BY <2>2, <3>1
  <2> QED
    BY <2>3, <2>4, <2>5
<1>8. CASE Returned(t, b)'
  <2>1. PICK d \in Client, r \in Server :
          pc'[d] = "read" /\ answers'[d][r] # None
          /\ answers'[d][r].value.ts = t /\ answers'[d][r].by = b
    BY <1>8 DEF Returned
  <2>2. CASE answers'[d][r] = answers[d][r]
    BY <1>2, <2>1, <2>2 DEF Copy, Returned
  <2>3. CASE d = c /\ r = s /\ m.call = id[c] /\ answers'[c][s] = AnswerOf(s, m)
    <3>1. m.op = request[c].op
      BY <1>2, <1>6, <2>1, <2>3 DEF Allowed
    <3>2. request[c] \in ReadMessage
      BY <1>2, <2>1, <2>3 DEF PresenceInv, ClientInv, ReadInv
    <3>3. m.op = "OC_GET"
      BY <3>1, <3>2 DEF ReadMessage
    <3>4. AnswerOf(s, m) = [value |-> At(s), by |-> author[s]]
      BY <3>3 DEF AnswerOf, At
    <3> QED
      BY <2>1, <2>3, <3>4 DEF Copy, Stored
  <2>4. CASE answers' = answers
    BY <2>2, <2>4
  <2>5. CASE m.call = id[c] /\ answers' = [answers EXCEPT ![c][s] = AnswerOf(s, m)]
    <3>1. answers'[c][s] = AnswerOf(s, m)
      BY <1>1, <2>5 DEF Types
    <3>2. d # c \/ r # s => answers'[d][r] = answers[d][r]
      BY <1>1, <2>5 DEF Types
    <3> QED
      BY <2>2, <2>3, <2>5, <3>1, <3>2
  <2> QED
    BY <1>2, <2>4, <2>5
<1>9. CASE OnItsWay(t, b)'
  <2>1. PICK d \in Client, r \in Server : \E i \in 1 .. Len(tasks'[d][r]) :
          tasks'[d][r][i].op # "OC_GET"
          /\ tasks'[d][r][i].value.ts = t /\ tasks'[d][r][i].by = b
    BY <1>9 DEF OnItsWay
  <2>2. CASE tasks'[d][r] = tasks[d][r]
    BY <2>1, <2>2 DEF Copy, OnItsWay
  <2>3. CASE d = c /\ r = s
    <3>1. tasks'[c][s] = Tail(tasks[c][s])
      BY <1>1, <1>2 DEF Types
    <3>2. PICK i \in 1 .. Len(tasks'[c][s]) :
            tasks'[c][s][i].op # "OC_GET"
            /\ tasks'[c][s][i].value.ts = t /\ tasks'[c][s][i].by = b
      BY <2>1, <2>3
    <3>3. i + 1 \in 1 .. Len(tasks[c][s]) /\ tasks'[c][s][i] = tasks[c][s][i + 1]
      <4> DEFINE q == tasks[c][s]
      <4>1. q \in Seq(Message) /\ q # <<>>
        BY <1>2, <1>3
      <4> HIDE DEF q
      <4>2. Len(q) \in Nat /\ Len(Tail(q)) = Len(q) - 1
            /\ \A j \in 1 .. Len(Tail(q)) : Tail(q)[j] = q[j + 1]
        BY <4>1, HeadTailProperties
      <4>3. i \in 1 .. Len(Tail(q)) /\ tasks'[c][s] = Tail(q)
        BY <3>1 DEF q
      <4>4. i + 1 \in 1 .. Len(q) /\ Tail(q)[i] = q[i + 1]
        BY <4>2, <4>3
      <4> QED
        BY <4>3, <4>4 DEF q
    <3> QED
      BY <3>2, <3>3 DEF Copy, OnItsWay
  <2> QED
    BY <1>1, <1>2, <2>2, <2>3 DEF Types
<1>10. CASE Requested(t, b)'
  BY <1>2, <1>10 DEF Copy, Requested, InWrite
<1> QED
  BY <1>7, <1>8, <1>9, <1>10 DEF Copy

(* x executes only requests of the calls that are being made, and takes    *)
(* every write.                                                            *)
LEMMA FreshServe ==
  ASSUME ClientStamps, PresenceInv, PresenceInv', NEW x \in Server, FreshAt(x),
         NEW c \in Client, NEW s \in Server, Serve(c, s)
  PROVE  FreshAt(x)'
<1> DEFINE m == Head(tasks[c][s])
<1>1. Types /\ Types'
  BY DEF PresenceInv
<1>2. /\ tasks[c][s] # <<>>
      /\ tasks' = [tasks EXCEPT ![c][s] = Tail(@)]
      /\ table' = [table EXCEPT ![s] = Written(s, m)]
      /\ author' = [author EXCEPT ![s] = IF Takes(s, m) THEN m.by ELSE @]
      /\ \/ answers' = answers
         \/ m.call = id[c] /\ answers' = [answers EXCEPT ![c][s] = AnswerOf(s, m)]
      /\ UNCHANGED <<pc, op, request, result, ops, done, stale, known, deleted>>
  BY DEF Serve, bounds, marks
<1>3. Fewer
  BY ServeFewer
<1>4. \A d \in Client \ {c} : tasks'[d] = tasks[d] /\ answers'[d] = answers[d]
  BY <1>1, <1>2 DEF Types
<1>5. m \in Allowed(c)
  <2>1. m = tasks[c][s][1] /\ 1 \in 1 .. Len(tasks[c][s])
    BY <1>1, <1>2 DEF Types
  <2> QED
    BY <2>1, ElementOfSeq DEF PresenceInv, ClientInv
<1>6. pc[c] # "idle" \/ s # x
  BY <1>2 DEF FreshAt, OneTask
<1> HIDE DEF m
<1>7. CASE s # x
  <2>1. /\ tasks'[c][x] = tasks[c][x] /\ answers'[c][x] = answers[c][x]
        /\ table'[x] = table[x] /\ author'[x] = author[x]
    BY <1>1, <1>2, <1>7 DEF Types
  <2>2. At(x)' = At(x)
    BY <2>1 DEF At
  <2>3. OneTask(c, x)'
    BY <1>2, <2>1 DEF FreshAt, OneTask
  <2>4. CASE pc[c] # "idle"
    BY <1>2, <1>3, <1>4, <2>1, <2>2, <2>3, <2>4, FreshMiddle
  <2>5. CASE pc[c] = "idle"
    <3>1. \A e \in Client : Writing(e)' <=> Writing(e)
      BY <1>2 DEF Writing
    <3>2. \A e \in Client : InWrite(e)' <=> InWrite(e)
      BY <1>2 DEF InWrite
    <3>3. ops \in Nat /\ done \subseteq Nat
      BY <1>1 DEF Types
    <3>4. Numbered' /\ Leads(x)'
      BY <1>2, <1>3, <2>2, <3>2, <3>3, LeadKept
    <3>5. ASSUME NEW d \in Client
          PROVE  Knows(d)' /\ Writes(d)' /\ OneTask(d, x)' /\ Supersedes(d, x)' /\ Informs(d, x)'
      <4>1. tasks'[d][x] = tasks[d][x] /\ answers'[d][x] = answers[d][x]
        BY <1>4, <2>1
      <4>2. CASE ~ Writing(d)
        BY <1>2, <1>3, <4>1, <4>2, ReaderKept DEF Fewer
      <4>3. CASE Writing(d)
        <5>1. op[d].number \in Nat
          BY <1>1 DEF Types
        <5> QED
          BY <1>2, <1>3, <2>1, <2>2, <3>1, <3>3, <4>1, <4>3, <5>1, WriterKept
      <4> QED
        BY <4>2, <4>3
    <3> QED
      BY <3>4, <3>5 DEF FreshAt
  <2> QED
    BY <2>4, <2>5
<1>8. CASE s = x
  <2>1. pc[c] # "idle" /\ m = request[c] /\ tasks'[c][x] = <<>>
    <3>1. pc[c] # "idle" /\ tasks[c][x] = <<request[c]>>
      BY <1>2, <1>8 DEF FreshAt, OneTask
    <3>2. m = request[c]
      BY <1>8, <3>1 DEF m
    <3>3. tasks'[c][x] = Tail(tasks[c][x])
      BY <1>1, <1>2, <1>8 DEF Types
    <3> QED
      BY <3>1, <3>2, <3>3
  <2>2. OneTask(c, x)'
    BY <2>1 DEF OneTask
  <2>3. Knows(c) /\ Writes(c) /\ Supersedes(c, x) /\ Informs(c, x)
    BY DEF FreshAt
  <2>4. m \in Message
    BY <1>5 DEF Allowed
  <2>5. /\ table'[x] = Written(x, m)
        /\ author'[x] = IF Takes(x, m) THEN m.by ELSE author[x]
    BY <1>1, <1>2, <1>8 DEF Types
  <2>6. CASE m.op = "OC_GET"
    <3>1. table'[x] = table[x] /\ author'[x] = author[x]
      BY <2>5, <2>6 DEF Written, Takes
    <3>2. At(x)' = At(x)
      BY <3>1 DEF At
    <3>3. Supersedes(c, x)'
      BY <1>2, <2>1, <2>6 DEF Supersedes, InWrite
    <3>4. answers'[c][x] = answers[c][x] \/ answers'[c][x].value = At(x)
      <4>1. AnswerOf(x, m).value = At(x)
        BY <2>6 DEF AnswerOf, At
      <4> QED
        BY <1>1, <1>2, <1>8, <4>1 DEF Types
    <3>5. answers'[c][x] = answers[c][x] \/ Informs(c, x)'
      <4>1. \A t, b \in Nat : Copy(t, b)' /\ b \in known[c].stale => t < At(x).ts
        BY <1>3, <2>3 DEF FreshAt, Leads, Knows, Fewer
      <4>2. op'[c] = op[c] /\ known'[c] = known[c]
        BY <1>2
      <4> QED
        BY <3>2, <3>4, <4>1, <4>2 DEF Informs
    <3> QED
      BY <1>2, <1>3, <1>4, <2>1, <2>2, <3>1, <3>2, <3>3, <3>5, FreshMiddle
  <2>7. CASE m.op # "OC_GET"
    <3>1. m \in WriteMessage /\ m.value.ts \in Nat /\ m.by \in Nat
      BY <2>4, <2>7, WriteValue
    <3>2. InWrite(c) /\ Writing(c)
      BY <2>1, <2>3, <3>1 DEF InWrite, Writing, Writes, WriteMessage
    <3>3. m.by = op[c].number
      BY <2>1, <2>3 DEF Knows
    <3>4. table'[x] = IF m.op = "OC_PUT" THEN TablePut(table[x], key, m.value)
                      ELSE TableUpdate(table[x], key, m.value)
      BY <2>5, <3>1 DEF Written, WriteMessage
    <3>5. /\ Takes(x, m) => At(x)' = m.value
          /\ ~ Takes(x, m) => /\ At(x)' = At(x)
                              /\ (key \in Live(table[x]))' <=> key \in Live(table[x])
                              /\ (key \in Present(table[x]))' <=> key \in Present(table[x])
      <4>1. /\ Takes(x, m) => TableGet(table'[x], key) = m.value
            /\ ~ Takes(x, m) => /\ TableGet(table'[x], key) = At(x)
                                /\ key \in Live(table'[x]) <=> key \in Live(table[x])
                                /\ key \in Present(table'[x]) <=> key \in Present(table[x])
        BY <1>1, <3>1, <3>4, RequestWrites
      <4>2. At(x)' = TableGet(table'[x], key)
        BY DEF At
      <4> QED
        BY <4>1, <4>2
    <3>6. pc[c] # "read"
      BY <2>1, <2>7 DEF PresenceInv, ClientInv, ReadInv, ReadMessage
    <3>7. At(x).ts \in Nat /\ author[x] \in Nat
          /\ (key \in Present(table[x]) => At(x) = table[x].entry[key])
      BY <1>1, AtServer
    <3>8. author[x] # op[c].number => Takes(x, m)
      <4> SUFFICES ASSUME author[x] # op[c].number PROVE Takes(x, m)
        OBVIOUS
      <4>1. At(x).ts < m.value.ts
        <5>1. Copy(At(x).ts, author[x])
          BY DEF Copy, Stored
        <5> QED
          BY <2>1, <2>3, <3>2, <3>7, <5>1 DEF Supersedes
      <4>2. CASE m.op = "OC_PUT"
        BY <2>1, <2>3, <3>2, <4>2 DEF Supersedes, Takes, PutAccepts
      <4>3. CASE m.op = "OC_UPDATE"
        <5>1. key \in Present(table[x])
          BY <2>1, <2>3, <3>2, <4>3 DEF Supersedes
        <5>2. ~ (At(x).ts \div 1000 >= m.value.ts)
          BY <3>1, <3>7, <4>1
        <5> QED
          BY <3>7, <4>3, <5>1, <5>2 DEF Takes, UpdateAccepts
      <4> QED
        BY <3>1, <4>2, <4>3 DEF WriteMessage
    <3>9. CASE ~ Takes(x, m)
      <4>1. At(x)' = At(x) /\ author'[x] = author[x] /\ author[x] = op[c].number
        BY <2>5, <3>5, <3>8, <3>9
      <4>2. Informs(c, x)'
        BY <1>2, <3>6 DEF Informs
      <4>3. Supersedes(c, x)'
        BY <1>2, <1>3, <2>3, <3>2, <4>1 DEF Supersedes, Fewer
      <4> QED
        BY <1>2, <1>3, <1>4, <2>1, <2>2, <3>5, <3>9, <4>1, <4>2, <4>3, FreshMiddle
    <3>10. CASE Takes(x, m)
      <4>1. At(x)' = m.value /\ author'[x] = op[c].number
        BY <2>5, <3>3, <3>5, <3>10
      <4>2. \A t, b \in Nat : Copy(t, b)' =>
              IF b = op[c].number THEN t = m.value.ts ELSE t < m.value.ts
        BY <1>3, <2>1, <2>3, <3>2 DEF Supersedes, Fewer
      <4>3. Numbered'
        BY <1>2, <1>3 DEF FreshAt, Numbered, Fewer
      <4>4. Leads(x)'
        <5>1. op[c].number \notin stale
          BY <2>3, <3>2 DEF Writes, FreshAt, Numbered
        <5>2. InWrite(c)' /\ op'[c].number = op[c].number
          BY <1>2, <3>2 DEF InWrite
        <5> QED
          BY <1>2, <3>1, <4>1, <4>2, <5>1, <5>2 DEF Leads
      <4>5. ASSUME NEW d \in Client \ {c}
            PROVE  Knows(d)' /\ Writes(d)' /\ OneTask(d, x)' /\ Supersedes(d, x)' /\ Informs(d, x)'
        <5>1. ~ Writing(d)
          BY <2>3, <3>2 DEF Writes
        <5> QED
          BY <1>2, <1>3, <1>4, <5>1, ReaderKept DEF Fewer
      <4>6. Knows(c)'
        BY <1>2, <2>3 DEF Knows
      <4>7. Writes(c)'
        BY <1>2, <1>3, <2>3, <3>2 DEF Writes, Writing, InWrite
      <4>8. Supersedes(c, x)'
        BY <1>2, <2>1, <4>1, <4>2 DEF Supersedes
      <4>9. Informs(c, x)'
        BY <1>2, <3>6 DEF Informs
      <4> QED
        BY <2>2, <4>3, <4>4, <4>5, <4>6, <4>7, <4>8, <4>9 DEF FreshAt
    <3> QED
      BY <3>9, <3>10
  <2> QED
    BY <2>6, <2>7
<1> QED
  BY <1>7, <1>8

(* A call that ends an operation without a write, x having answered it.    *)
LEMMA FreshFinish ==
  ASSUME PresenceInv, PresenceInv', NEW x \in Server, FreshAt(x), NEW c \in Client,
         pc[c] = "read", x \in Answered(c), Fewer,
         NEW ret, NEW by, Finish(c, ret, by),
         op[c].kind = "get" => by \notin known[c].stale,
         NEW left, left[x] = <<>>, tasks' = [tasks EXCEPT ![c] = left],
         UNCHANGED <<table, op, ops, author, done, stale, known, deleted>>
  PROVE  FreshAt(x)'
<1>1. Types /\ Types' /\ ops \in Nat /\ done \subseteq Nat
  BY DEF PresenceInv, Types
<1>2. /\ pc' = [pc EXCEPT ![c] = "idle"]
      /\ result' = [result EXCEPT ![c] = [ret |-> ret, by |-> by]]
      /\ request' = [request EXCEPT ![c] = Nobody]
      /\ answers' = [answers EXCEPT ![c] = [s \in Server |-> None]]
  BY DEF Finish
<1>3. /\ pc'[c] = "idle" /\ tasks'[c] = left /\ result'[c].by = by
      /\ ~ Writing(c)' /\ ~ InWrite(c)'
  BY <1>1, <1>2 DEF Types, Writing, InWrite
<1>4. ~ InWrite(c)
  BY DEF InWrite, PresenceInv, ClientInv, ReadInv, ReadMessage
<1>5. ASSUME NEW d \in Client \ {c}
      PROVE  /\ pc'[d] = pc[d] /\ request'[d] = request[d] /\ result'[d] = result[d]
             /\ tasks'[d] = tasks[d] /\ answers'[d] = answers[d]
             /\ (InWrite(d)' <=> InWrite(d)) /\ (Writing(d)' <=> Writing(d))
  BY <1>1, <1>2 DEF Types, InWrite, Writing
<1>6. At(x)' = At(x)
  BY DEF At
<1>7. Numbered' /\ Leads(x)'
  BY <1>1, <1>4, <1>5, <1>6, LeadKept
<1>8. ASSUME NEW d \in Client \ {c}
      PROVE  Knows(d)' /\ Writes(d)' /\ OneTask(d, x)' /\ Supersedes(d, x)' /\ Informs(d, x)'
  <2>1. CASE ~ Writing(d)
    BY <1>5, <2>1, ReaderKept DEF Fewer
  <2>2. CASE Writing(d)
    <3>1. op[d].number \in Nat
      BY <1>1 DEF Types
    <3>2. \A e \in Client : Writing(e)' => Writing(e)
      BY <1>3, <1>5
    <3> QED
      BY <1>1, <1>5, <1>6, <2>2, <3>1, <3>2, WriterKept
  <2> QED
    BY <2>1, <2>2
<1>9. Knows(c)' /\ Writes(c)' /\ OneTask(c, x)' /\ Supersedes(c, x)' /\ Informs(c, x)'
  <2>1. Knows(c)
    BY DEF FreshAt
  <2>2. Knows(c)'
    BY <1>3, <2>1 DEF Knows
  <2> QED
    BY <1>3, <2>2 DEF Writes, OneTask, Supersedes, Informs
<1> QED
  BY <1>7, <1>8, <1>9 DEF FreshAt

(* A read that ends: its answers were newer than what was stale when it    *)
(* began, and what a write sends then is newer than all there is.          *)
LEMMA FreshEndRead ==
  ASSUME ClientStamps, PresenceInv, PresenceInv', NEW x \in Server, FreshAt(x),
         NEW c \in Client, EndRead(c), x \in common'
  PROVE  FreshAt(x)'
<1>1. Types /\ Types' /\ ops \in Nat /\ done \subseteq Nat /\ op[c].number \in Nat
  BY DEF PresenceInv, Types
<1>2. /\ pc[c] = "read" /\ x \in Answered(c) /\ answers[c][x] # None
      /\ UNCHANGED <<table, op, ops, author, done, stale, known, deleted>>
  BY DEF EndRead, Returns, bounds, marks, Answered
<1>3. PICK s \in Newest(c) : \E left \in LateTasks(c, answers[c][s]) :
        LET found == answers[c][s].value.data # NoData
            kind == op[c].kind
            m == WriteRequest(c, answers[c][s].value)
        IN  \/ /\ kind = "get"
               /\ Finish(c, IF found THEN "value" ELSE "null", answers[c][s].by)
               /\ tasks' = [tasks EXCEPT ![c] = left]
            \/ /\ kind # "get" /\ found = (kind = "put")
               /\ Finish(c, "refused", 0)
               /\ tasks' = [tasks EXCEPT ![c] = left]
            \/ /\ kind # "get" /\ found # (kind = "put")
               /\ pc' = [pc EXCEPT ![c] = "write"]
               /\ Access(c, m)
               /\ tasks' = Sent(c, m, left)
               /\ UNCHANGED result
  BY DEF EndRead
<1> DEFINE v == answers[c][s].value
           found == v.data # NoData
           kind == op[c].kind
           m == WriteRequest(c, v)
<1>4. PICK left \in LateTasks(c, answers[c][s]) :
         \/ /\ kind = "get"
            /\ Finish(c, IF found THEN "value" ELSE "null", answers[c][s].by)
            /\ tasks' = [tasks EXCEPT ![c] = left]
         \/ /\ kind # "get" /\ found = (kind = "put")
            /\ Finish(c, "refused", 0)
            /\ tasks' = [tasks EXCEPT ![c] = left]
         \/ /\ kind # "get" /\ found # (kind = "put")
            /\ pc' = [pc EXCEPT ![c] = "write"]
            /\ Access(c, m)
            /\ tasks' = Sent(c, m, left)
            /\ UNCHANGED result
  BY <1>3
<1>5. /\ s \in Answered(c) /\ answers[c][x].value.ts <= v.ts
      /\ v \in Value \cup {Absent} /\ v.ts \in Nat /\ answers[c][s].by \in Nat
      /\ Copy(v.ts, answers[c][s].by)
      /\ answers[c][x].value.ts \in Nat
  <2>1. s \in Answered(c) /\ answers[c][x].value.ts <= v.ts
    BY <1>2 DEF Newest
  <2> QED
    BY <1>2, <2>1, ReadAnswer
<1>6. left \in [Server -> Seq(Carried)]
  BY <1>2, <1>5, LateTasksCarried
<1>7. left[x] = <<>> /\ tasks[c][x] = <<>>
  <2>1. tasks[c][x] = <<>>
    BY <1>2 DEF FreshAt, OneTask
  <2>2. x \notin Late(c)
    BY <2>1 DEF Late
  <2> QED
    BY <2>1, <2>2 DEF LateTasks, Changed
<1>8. Knows(c) /\ Writes(c) /\ Informs(c, x) /\ Numbered /\ Leads(x)
  BY DEF FreshAt
<1>9. CASE kind = "get" /\ tasks' = [tasks EXCEPT ![c] = left]
           /\ Finish(c, IF found THEN "value" ELSE "null", answers[c][s].by)
  <2>1. answers[c][s].by \notin known[c].stale
    <3> DEFINE b == answers[c][s].by
    <3>1. \A t, n \in Nat :
            Copy(t, n) /\ n \in known[c].stale => t < answers[c][x].value.ts
      BY <1>2, <1>8, <1>9 DEF Informs
    <3>2. Copy(v.ts, b) /\ v.ts \in Nat /\ b \in Nat /\ answers[c][x].value.ts <= v.ts
      BY <1>5
    <3> HIDE DEF v, b
    <3>3. b \in known[c].stale => v.ts < answers[c][x].value.ts
      BY <3>1, <3>2
    <3> QED
      BY <1>5, <3>2, <3>3 DEF b
  <2>2. Fewer
    BY <1>2, <1>6, <1>9, FinishFewer
  <2> QED
    BY <1>2, <1>7, <1>9, <2>1, <2>2, FreshFinish
<1>10. CASE kind # "get" /\ Finish(c, "refused", 0)
            /\ tasks' = [tasks EXCEPT ![c] = left]
  <2>1. Fewer
    BY <1>2, <1>6, <1>10, FinishFewer
  <2> QED
    BY <1>2, <1>7, <1>10, <2>1, FreshFinish
<1>11. CASE /\ kind # "get" /\ found # (kind = "put")
            /\ pc' = [pc EXCEPT ![c] = "write"]
            /\ Access(c, m)
            /\ tasks' = Sent(c, m, left)
            /\ UNCHANGED result
  <2> DEFINE n == op[c].number
             T == m.value.ts
  <2>1. /\ Writing(c) /\ ~ InWrite(c) /\ n <= ops /\ n \notin done /\ n \notin stale
        /\ \A t, b \in Nat : Copy(t, b) => b # n
        /\ kind = "put" => ~ deleted
        /\ \A e \in Client : Writing(e) => e = c
    <3>1. Writing(c)
      BY <1>2, <1>11 DEF Writing
    <3>2. ~ InWrite(c)
      BY <1>2 DEF InWrite, PresenceInv, ClientInv, ReadInv, ReadMessage
    <3> QED
      BY <1>8, <3>1, <3>2 DEF Writes, Numbered
  <2>2. At(x).ts <= v.ts /\ At(x).ts \in Nat /\ author[x] \in Nat
        /\ (key \in Live(table[x]) => At(x).ts > 1)
        /\ (At(x).ts > 1 => key \in Present(table[x]))
    <3>1. At(x) = answers[c][x].value
      BY <1>2, <1>8, <1>11 DEF Informs
    <3> QED
      BY <1>1, <1>5, <3>1, AtServer
  <2>3. \A t, b \in Nat : Copy(t, b) => t <= At(x).ts
    <3>1. \A e \in Client : ~ InWrite(e)
      BY <2>1, <1>8 DEF InWrite, Writing, FreshAt, Writes
    <3> QED
      BY <1>8, <3>1 DEF Leads
  <2>4. kind = "put" => v = Absent
    <3>1. ASSUME kind = "put"
          PROVE  v = Absent \/ v.data # NoData
      BY <1>2, <1>5, <2>1, <3>1 DEF PresenceInv, ClientInv, ReadInv
    <3> QED
      BY <1>11, <3>1
  <2>5. kind # "put" => key \in Present(table[x])
    <3>1. ASSUME kind # "put"
          PROVE  key \in Present(table[x])
      <4>1. v \in Value
        BY <1>5, <1>11, <3>1 DEF Absent
      <4>2. v.ts > 1
        BY <4>1, StampLarge DEF Value
      <4>3. v.ts <= At(x).ts
        BY <1>5, <2>3
      <4> QED
        BY <1>5, <2>2, <4>2, <4>3
    <3> QED
      BY <3>1
  <2>6. T \in Nat /\ At(x).ts < T
    <3> DEFINE t0 == IF kind = "put" THEN 1 ELSE v.ts
    <3>1. T = (t0 \div 1000 + 1) * 1000 + c
      BY DEF WriteRequest, IncrementTs
    <3>2. t0 \in Nat /\ At(x).ts <= t0
      BY <1>5, <2>2, <2>4 DEF Absent
    <3>3. c \in Nat
      BY QuorumTableAssumption
    <3> HIDE DEF T, t0
    <3>4. (t0 \div 1000 + 1) * 1000 + c \in Nat /\ t0 < (t0 \div 1000 + 1) * 1000 + c
      BY <3>2, <3>3
    <3> QED
      BY <2>2, <3>1, <3>2, <3>4
  <2>7. /\ m.by = n /\ m.op = (IF kind = "put" THEN "OC_PUT" ELSE "OC_UPDATE")
        /\ m \in WriteMessage /\ m \in Message
    <3>1. m.by = n /\ m.op = (IF kind = "put" THEN "OC_PUT" ELSE "OC_UPDATE")
      BY DEF WriteRequest
    <3>2. m \in WriteMessage
      <4>1. request' = [request EXCEPT ![c] = m] /\ pc'[c] = "write"
        BY <1>1, <1>11 DEF Access, Types
      <4>2. request'[c] = m
        BY <1>1, <4>1 DEF Types
      <4> QED
        BY <4>1, <4>2 DEF PresenceInv, ClientInv, WriteInv
    <3> QED
      BY <3>1, <3>2 DEF Message
  <2>8. Access(c, m) /\ tasks' = Sent(c, m, left) /\ pc' = [pc EXCEPT ![c] = "write"]
        /\ UNCHANGED result
    BY <1>11
  <2>9. v.ts \in Nat
    BY <1>5
  <2> HIDE DEF m, v
  <2>10. /\ request' = [request EXCEPT ![c] = m]
         /\ answers' = [answers EXCEPT ![c] = [r \in Server |-> None]]
         /\ \A r \in Server : answers'[c][r] = None
    BY <1>1, <2>8, AccessAnswers
  <2>11. /\ pc'[c] = "write" /\ request'[c] = m /\ InWrite(c)' /\ Writing(c)'
    <3>1. pc'[c] = "write" /\ request'[c] = m
      BY <1>1, <2>8, <2>10 DEF Types
    <3> QED
      BY <1>2, <1>11, <2>7, <3>1 DEF InWrite, Writing
  <2>12. /\ tasks'[c] \in [Server -> Seq(Carried \cup {m})]
         /\ \A d \in Client \ {c} : tasks'[d] = tasks[d]
         /\ tasks'[c][x] \in {<<>>, <<m>>}
    <3> DEFINE A == Carried \cup {m}
    <3>1. Carried \subseteq A /\ m \in A
      OBVIOUS
    <3>2. tasks'[c][x] = IF x \in quorum'[c] THEN Append(left[x], m) ELSE left[x]
      BY <1>1, <2>8 DEF Sent, Types
    <3>3. tasks'[c][x] \in {<<>>, <<m>>}
      BY <1>7, <3>2
    <3> HIDE DEF A
    <3>4. left \in [Server -> Seq(A)]
      BY <1>6, <3>1, SeqGrows
    <3>5. /\ tasks'[c] \in [Server -> Seq(A)]
          /\ \A d \in Client \ {c} : tasks'[d] = tasks[d]
      BY <1>1, <2>8, <3>1, <3>4, SentAllowed
    <3> QED
      BY <3>3, <3>5 DEF A
  <2>13. ASSUME NEW d \in Client \ {c}
         PROVE  /\ pc'[d] = pc[d] /\ op'[d] = op[d] /\ request'[d] = request[d]
                /\ result'[d] = result[d] /\ known'[d] = known[d]
                /\ tasks'[d] = tasks[d] /\ answers'[d] = answers[d]
                /\ ~ Writing(d) /\ ~ Writing(d)'
    BY <1>1, <1>2, <2>1, <2>8, <2>10, <2>12 DEF Types, Writing
  <2>14. \A t, b \in Nat : Copy(t, b)' => Copy(t, b) \/ (t = T /\ b = n)
    <3>1. \A w \in Carried \cup {m} : w.op # "OC_GET" =>
             Copy(w.value.ts, w.by) \/ (InWrite(c)' /\ w = request'[c])
      BY <2>11 DEF Carried
    <3>2. \A r \in Server : tasks'[c][r] \in Seq(Carried \cup {m})
      BY <2>12
    <3> HIDE DEF Carried
    <3>3. \A t, b \in Nat : Copy(t, b)' =>
            \/ Copy(t, b)
            \/ InWrite(c)' /\ request'[c].value.ts = t /\ request'[c].by = b
      BY <1>1, <1>2, <2>11, <2>13, <3>1, <3>2, CopiesAfter
    <3> QED
      BY <2>7, <2>11, <3>3
  <2>15. At(x)' = At(x)
    BY <1>2 DEF At
  <2> HIDE DEF T, n
  <2>16. op'[c].number = n /\ n \in Nat
    BY <1>1, <1>2 DEF n
  <2>17. Numbered'
    BY <1>2, <1>8, <2>1, <2>14 DEF Numbered
  <2>18. Leads(x)'
    <3>1. \A t, b \in Nat : Copy(t, b)' /\ b \in stale' => t < At(x)'.ts
      BY <1>2, <1>8, <2>1, <2>14, <2>15 DEF Leads
    <3>2. \A t, b \in Nat : Copy(t, b)' =>
            t <= At(x)'.ts \/ \E e \in Client : InWrite(e)' /\ b = op'[e].number
      BY <2>3, <2>11, <2>14, <2>15, <2>16
    <3> QED
      BY <3>1, <3>2 DEF Leads
  <2>19. ASSUME NEW d \in Client \ {c}
         PROVE  Knows(d)' /\ Writes(d)' /\ OneTask(d, x)' /\ Supersedes(d, x)' /\ Informs(d, x)'
    <3>1. n \notin known[d].stale
      BY <2>1 DEF FreshAt, Knows
    <3> QED
      BY <1>2, <2>13, <2>14, <3>1, ReaderKept
  <2>20. Knows(c)'
    BY <1>2, <1>8, <1>11, <2>7, <2>11 DEF Knows, n
  <2>21. Writes(c)'
    BY <1>2, <1>11, <2>1, <2>11, <2>13, <2>16 DEF Writes
  <2>22. OneTask(c, x)'
    BY <2>10, <2>11, <2>12 DEF OneTask
  <2>23. Supersedes(c, x)'
    <3>1. \A t, b \in Nat : Copy(t, b)' => IF b = n THEN t = T ELSE t < T
      BY <2>1, <2>2, <2>3, <2>6, <2>14
    <3>2. IF m.op = "OC_PUT" THEN key \notin Live(table[x]) ELSE key \in Present(table[x])
      <4>1. CASE kind = "put"
        BY <2>2, <2>4, <2>7, <2>9, <4>1 DEF Absent
      <4>2. CASE kind # "put"
        BY <2>5, <2>7, <4>2
      <4> QED
        BY <4>1, <4>2
    <3> QED
      BY <1>2, <2>10, <2>11, <2>16, <3>1, <3>2 DEF Supersedes, T
  <2>24. Informs(c, x)'
    BY <2>11 DEF Informs
  <2> QED
    BY <2>17, <2>18, <2>19, <2>20, <2>21, <2>22, <2>23, <2>24 DEF FreshAt
<1> QED
  BY <1>4, <1>9, <1>10, <1>11

(* A write that ends has reached x, with the largest timestamp: what it    *)
(* replaced is older than what x has.                                      *)
LEMMA FreshEndWrite ==
  ASSUME ClientStamps, PresenceInv, PresenceInv', NEW x \in Server, FreshAt(x),
         NEW c \in Client, EndWrite(c), x \in common'
  PROVE  FreshAt(x)'
<1> DEFINE ok == \E s \in Answered(c) : answers[c][s].value = 0
           n == op[c].number
<1>1. Types /\ Types' /\ n \in Nat /\ ops \in Nat /\ done \subseteq Nat
  BY DEF PresenceInv, Types
<1>2. /\ pc[c] = "write" /\ x \in Answered(c) /\ answers[c][x] # None
      /\ Finish(c, IF ok THEN "ok" ELSE "refused", n)
      /\ IF ok
         THEN done' = done \cup {n} /\ stale' = stale \cup known[c].done
         ELSE UNCHANGED <<done, stale>>
      /\ UNCHANGED <<table, op, ops, tasks, author, known, deleted>>
  BY DEF EndWrite, Returns, bounds, Answered
<1>3. /\ pc' = [pc EXCEPT ![c] = "idle"]
      /\ request' = [request EXCEPT ![c] = Nobody]
      /\ answers' = [answers EXCEPT ![c] = [s \in Server |-> None]]
      /\ \E r : result' = [result EXCEPT ![c] = r]
  BY <1>2 DEF Finish
<1>4. /\ pc'[c] = "idle" /\ ~ Writing(c)' /\ ~ InWrite(c)'
  BY <1>1, <1>3 DEF Types, Writing, InWrite
<1>5. WriteInv(c) /\ InWrite(c) /\ Writing(c)
  BY <1>2 DEF PresenceInv, ClientInv, WriteInv, WriteMessage, InWrite, Writing
<1>6. Knows(c) /\ Writes(c) /\ OneTask(c, x) /\ Supersedes(c, x) /\ Numbered /\ Leads(x)
  BY DEF FreshAt
<1>7. ASSUME NEW d \in Client \ {c}
      PROVE  /\ pc'[d] = pc[d] /\ request'[d] = request[d] /\ result'[d] = result[d]
             /\ tasks'[d] = tasks[d] /\ answers'[d] = answers[d]
             /\ ~ Writing(d)
  <2>1. ~ Writing(d)
    BY <1>5, <1>6 DEF Writes
  <2> QED
    BY <1>1, <1>2, <1>3, <2>1 DEF Types
<1>8. Fewer
  <2>1. tasks[c] \in [Server -> Seq(Carried)]
    BY <1>1, TasksCarried
  <2>2. tasks' = [tasks EXCEPT ![c] = tasks[c]]
    BY <1>1, <1>2 DEF Types
  <2>3. PICK ret : Finish(c, ret, n)
    BY <1>2
  <2> HIDE DEF n
  <2> QED
    BY <1>2, <2>1, <2>2, <2>3, FinishFewer
<1>9. At(x)' = At(x) /\ At(x).ts \in Nat /\ author[x] \in Nat
  BY <1>1, <1>2, AtServer DEF At
<1>10. author[x] = n /\ At(x).ts = request[c].value.ts
  <2>1. author[x] = n
    BY <1>2, <1>5, <1>6 DEF Supersedes
  <2>2. Copy(At(x).ts, author[x])
    BY DEF Copy, Stored
  <2> QED
    BY <1>5, <1>6, <1>9, <2>1, <2>2 DEF Supersedes
<1>11. \A t, b \in Nat : Copy(t, b)' => IF b = n THEN t = At(x).ts ELSE t < At(x).ts
  BY <1>5, <1>6, <1>8, <1>10 DEF Supersedes, Fewer
<1>12. n \notin stale' /\ stale' \subseteq done' /\ done \subseteq done' /\ stale \subseteq stale'
  BY <1>2, <1>5, <1>6 DEF Writes, Knows, Numbered
<1> HIDE DEF ok, n
<1>13. Numbered'
  <2>1. \A b \in done' : b <= ops'
    BY <1>2, <1>5, <1>6 DEF Numbered, Writes, n
  <2>2. \A t, b \in Nat : Copy(t, b)' => b <= ops'
    BY <1>2, <1>6, <1>8 DEF Numbered, Fewer
  <2> QED
    BY <1>12, <2>1, <2>2 DEF Numbered
<1>14. Leads(x)'
  <2>1. \A t, b \in Nat : Copy(t, b)' /\ b \in stale' => t < At(x)'.ts
    BY <1>9, <1>11, <1>12
  <2>2. \A t, b \in Nat : Copy(t, b)' => t <= At(x)'.ts
    BY <1>9, <1>11
  <2> QED
    BY <2>1, <2>2 DEF Leads
<1>15. ASSUME NEW d \in Client \ {c}
       PROVE  Knows(d)' /\ Writes(d)' /\ OneTask(d, x)' /\ Supersedes(d, x)' /\ Informs(d, x)'
  BY <1>2, <1>7, <1>8, <1>12, ReaderKept DEF Fewer
<1>16. Knows(c)' /\ Writes(c)' /\ OneTask(c, x)' /\ Supersedes(c, x)' /\ Informs(c, x)'
  <2>1. op[c].kind # "get"
    BY <1>5 DEF Writing
  <2>2. Knows(c)'
    BY <1>2, <1>4, <1>6, <1>12, <2>1 DEF Knows
  <2>3. tasks[c][x] = <<>>
    BY <1>2, <1>6 DEF OneTask
  <2> QED
    BY <1>2, <1>4, <2>2, <2>3 DEF Writes, OneTask, Supersedes, Informs
<1> QED
  BY <1>13, <1>14, <1>15, <1>16 DEF FreshAt

(* All steps, while x is in scope. *)
LEMMA FreshStep ==
  ASSUME ClientStamps, PresenceInv, PresenceInv', FreshInv, [Next]_vars
  PROVE  FreshInv'
<1>0. common' \subseteq Server
  <2>1. common \subseteq Server
    BY DEF FreshInv
  <2>2. ASSUME NEW c \in Client, EndRead(c) \/ EndWrite(c)
        PROVE  common' \subseteq Server
    BY <2>1, <2>2 DEF EndRead, EndWrite, Returns
  <2>3. ASSUME NEW c \in Client, Timeout(c) \/ Die(c) \/ \E s \in Server : Serve(c, s)
        PROVE  common' \subseteq Server
    BY <2>1, <2>3 DEF Timeout, Die, Serve
  <2>4. ASSUME NEW c \in Client, NEW kind, NEW y, Begin(c, kind, y)
        PROVE  common' \subseteq Server
    BY <2>1, <2>4 DEF Begin
  <2>5. CASE UNCHANGED vars
    BY <2>1, <2>5 DEF vars
  <2> QED
    BY <2>2, <2>3, <2>4, <2>5 DEF Next
<1> SUFFICES ASSUME NEW x \in Server, InScope(x)' PROVE FreshAt(x)'
  BY <1>0 DEF FreshInv
<1>1. x \in common' /\ ~ raced' /\ ~ reput'
  BY DEF InScope
<1>2. ASSUME NEW c \in Client,
             \/ Begin(c, "get", NoData)
             \/ \E d \in Data : Begin(c, "put", d) \/ Begin(c, "update", d)
             \/ Begin(c, "del", NoData)
      PROVE  FreshAt(x)'
  <2>1. InScope(x)
    BY <1>1, <1>2 DEF InScope, Begin
  <2> QED
    BY <1>1, <1>2, <2>1, FreshBegin DEF FreshInv
<1>3. ASSUME NEW c \in Client, NEW s \in Server, Serve(c, s)
      PROVE  FreshAt(x)'
  <2>1. InScope(x)
    BY <1>1, <1>3 DEF InScope, Serve, marks
  <2> QED
    BY <1>3, <2>1, FreshServe DEF FreshInv
<1>4. ASSUME NEW c \in Client, Timeout(c)
      PROVE  FreshAt(x)'
  <2>1. InScope(x)
    BY <1>1, <1>4 DEF InScope, Timeout, marks
  <2> QED
    BY <1>4, <2>1, FreshTimeout DEF FreshInv
<1>5. ASSUME NEW c \in Client, EndRead(c)
      PROVE  FreshAt(x)'
  <2>1. InScope(x)
    BY <1>1, <1>5 DEF InScope, EndRead, Returns, marks
  <2> QED
    BY <1>1, <1>5, <2>1, FreshEndRead DEF FreshInv
<1>6. ASSUME NEW c \in Client, EndWrite(c)
      PROVE  FreshAt(x)'
  <2>1. InScope(x)
    BY <1>1, <1>6 DEF InScope, EndWrite, Returns
  <2> QED
    BY <1>1, <1>6, <2>1, FreshEndWrite DEF FreshInv
<1>7. ASSUME NEW c \in Client, Die(c)
      PROVE  FreshAt(x)'
  <2>1. InScope(x)
    BY <1>1, <1>7 DEF InScope, Die, marks
  <2> QED
    BY <1>7, <2>1, FreshDie DEF FreshInv
<1>8. CASE UNCHANGED vars
  <2>1. /\ FreshAt(x) /\ At(x)' = At(x)
        /\ UNCHANGED <<table, pc, op, request, tasks, answers, result, ops, author, done,
                       stale, known, deleted>>
    BY <1>1, <1>8 DEF vars, clientVars, bounds, marks, FreshInv, InScope, At
  <2>2. \A c \in Client : (InWrite(c)' <=> InWrite(c)) /\ (Writing(c)' <=> Writing(c))
    BY <2>1 DEF InWrite, Writing
  <2>3. \A t, b \in Nat : Copy(t, b)' <=> Copy(t, b)
    BY <2>1, <2>2 DEF Copy, Stored, Returned, OnItsWay, Requested, At
  <2>4. Numbered' /\ Leads(x)'
    BY <2>1, <2>2, <2>3 DEF FreshAt, Numbered, Leads
  <2>5. ASSUME NEW c \in Client
        PROVE  Knows(c)' /\ Writes(c)' /\ OneTask(c, x)' /\ Supersedes(c, x)' /\ Informs(c, x)'
    BY <2>1, <2>2, <2>3
       DEF FreshAt, Knows, Writes, OneTask, Supersedes, Informs
  <2> QED
    BY <2>4, <2>5 DEF FreshAt
<1> QED
  BY <1>2, <1>3, <1>4, <1>5, <1>6, <1>7, <1>8 DEF Next

(***************************************************************************)
(* A get returns nothing that a completed write had replaced before it     *)
(* began, for any number of servers, while one of them has answered every  *)
(* call, writes do not overlap, and no put comes after a del (qtable_get,  *)
(* incrementTimeStamp, table_update).                                      *)
(***************************************************************************)
THEOREM ReadsAreFresh ==
  ASSUME ClientStamps PROVE Spec => []NoStaleReads
<1>1. Init => FreshInv
  <2>1. Init => common \subseteq Server
    BY DEF Init
  <2> QED
    BY <2>1, FreshInit DEF FreshInv
<1>2. PresenceInv /\ PresenceInv' /\ FreshInv /\ [Next]_vars => FreshInv'
  BY FreshStep
<1>3. FreshInv /\ PresenceInv => NoStaleReads
  <2> SUFFICES ASSUME FreshInv, ~ raced, ~ reput, NEW x \in common, PresenceInv,
                      NEW c \in Client, op[c].kind = "get", result[c].ret # "none"
               PROVE  result[c].by \notin known[c].stale
    BY DEF NoStaleReads
  <2>1. x \in Server
    BY DEF FreshInv
  <2> QED
    BY <2>1 DEF FreshInv, InScope, FreshAt, Knows
<1> QED
  BY <1>1, <1>2, <1>3, PresenceHolds, PTL DEF Spec
=============================================================================
