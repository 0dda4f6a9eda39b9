-------------------------- MODULE ServerLoopProofs --------------------------
(***************************************************************************)
(* ServerLoop for any clients, requests and length of the array: the count *)
(* of the connections, the execution of a request at most once, the table  *)
(* behind the loop, and the answer that a call returns.                    *)
(***************************************************************************)
EXTENDS ServerLoop, TableProofs, MessageCodecProofs, SequenceTheorems

-----------------------------------------------------------------------------
(* The entries of the array that hold a connection. *)
Taken == {i \in Index : connections[i] # Closed}

(* While the server serves an entry, it is one that holds a connection; it *)
(* accepts only when there is room and somebody to accept.                 *)
CountInv ==
  /\ connections \in [Index -> Client \cup {Closed}]
  /\ backlog \in Seq(Client)
  /\ numSockets = 1 + Cardinality(Taken)
  /\ pc = "accept" => numSockets < MAXLIG /\ backlog # <<>>
  /\ pc \in {"length", "body", "invoke", "answer"} =>
       index \in Index /\ connections[index] # Closed

(* The array has MAXLIG - 1 entries for clients. *)
LEMMA IndexFinite == IsFiniteSet(Index) /\ Cardinality(Index) = MAXLIG - 1
<1>1. IsFiniteSet(1 .. MAXLIG - 1) /\ Cardinality(1 .. MAXLIG - 1) = MAXLIG - 1
  BY LoopAssumption, FS_Interval
<1> QED
  BY <1>1 DEF Index

(* Any part of it can be counted. *)
LEMMA TakenFinite == IsFiniteSet(Taken) /\ Cardinality(Taken) \in Nat
<1>1. Taken \subseteq Index
  BY DEF Taken
<1> QED
  BY <1>1, IndexFinite, FS_Subset, FS_CardinalityType

(* An array that is not full has a free entry. *)
LEMMA RoomLeft ==
  ASSUME CountInv, numSockets < MAXLIG
  PROVE  \E i \in Index : connections[i] = Closed
<1>1. Cardinality(Taken) < Cardinality(Index)
  BY IndexFinite, TakenFinite, LoopAssumption DEF CountInv
<1>2. Taken # Index
  BY <1>1, TakenFinite, IndexFinite
<1> QED
  BY <1>2 DEF Taken

(* A connection more, a socket more. *)
LEMMA TakeOne ==
  ASSUME CountInv, NEW i \in Index, NEW c \in Client,
         connections[i] = Closed,
         connections' = [connections EXCEPT ![i] = c],
         numSockets' = numSockets + 1
  PROVE  /\ connections' \in [Index -> Client \cup {Closed}]
         /\ numSockets' = 1 + Cardinality(Taken')
<1>1. Taken' = Taken \cup {i}
  BY LoopAssumption DEF Taken, CountInv
<1>2. i \notin Taken
  BY DEF Taken
<1>3. Cardinality(Taken \cup {i}) = Cardinality(Taken) + 1
  BY <1>2, TakenFinite, FS_AddElement
<1> QED
  BY <1>1, <1>3, TakenFinite DEF CountInv

(* A connection less, a socket less. *)
LEMMA FreeOne ==
  ASSUME CountInv, NEW i \in Index, connections[i] # Closed, CloseAt(i)
  PROVE  /\ connections' \in [Index -> Client \cup {Closed}]
         /\ numSockets' = 1 + Cardinality(Taken')
<1>1. Taken' = Taken \ {i}
  BY DEF Taken, CountInv, CloseAt
<1>2. i \in Taken
  BY DEF Taken
<1>3. Cardinality(Taken \ {i}) = Cardinality(Taken) - 1
  BY <1>2, TakenFinite, FS_RemoveElement
<1> QED
  BY <1>1, <1>3, TakenFinite DEF CountInv, CloseAt

(* The steps that leave the array and the count alone. *)
LEMMA CountKept ==
  ASSUME CountInv, UNCHANGED <<connections, numSockets>>,
         backlog' \in Seq(Client),
         pc' = "accept" => numSockets < MAXLIG /\ backlog' # <<>>,
         pc' \in {"length", "body", "invoke", "answer"} =>
           index' \in Index /\ connections[index'] # Closed
  PROVE  CountInv'
BY DEF CountInv, Taken

(* It holds whatever the clients do. *)
LEMMA CountHolds == LoopSpec => []CountInv
<1>1. LoopInit => CountInv
  <2> SUFFICES ASSUME LoopInit PROVE CountInv
    OBVIOUS
  <2>1. Taken = {}
    BY DEF LoopInit, Taken
  <2>2. Cardinality(Taken) = 0
    BY <2>1, FS_EmptySet
  <2> QED
    BY <2>2 DEF LoopInit, CountInv
<1>2. CountInv /\ [LoopNext]_loopVars => CountInv'
  <2> SUFFICES ASSUME CountInv, [LoopNext]_loopVars
               PROVE  CountInv'
    OBVIOUS
  <2>1. CASE Poll
    <3>1. pc' = "accept" => numSockets < MAXLIG /\ backlog # <<>>
      BY <2>1 DEF Poll
    <3>2. pc' \in {"accept", "scan"} /\ UNCHANGED <<connections, numSockets, backlog>>
      BY <2>1 DEF Poll, network
    <3> QED
      BY <3>1, <3>2, CountKept DEF CountInv
  <2>2. CASE Accept
    <3>1. \E i \in Index : connections[i] = Closed
      BY <2>2, RoomLeft DEF Accept, CountInv
    <3>2. PICK i \in Index :
            FreeIndex(i) /\ connections' = [connections EXCEPT ![i] = Head(backlog)]
      BY <2>2 DEF Accept
    <3>3. connections[i] = Closed
      BY <3>1, <3>2 DEF FreeIndex
    <3>4. Head(backlog) \in Client /\ backlog' \in Seq(Client)
      BY <2>2 DEF Accept, CountInv
    <3>5. numSockets' = numSockets + 1 /\ pc' \in {"scan", "poll"}
      BY <2>2 DEF Accept
    <3>6. /\ connections' \in [Index -> Client \cup {Closed}]
          /\ numSockets' = 1 + Cardinality(Taken')
      BY <3>2, <3>3, <3>4, <3>5, TakeOne
    <3> QED
      BY <3>4, <3>5, <3>6 DEF CountInv
  <2>3. CASE EndScan
    BY <2>3, CountKept DEF EndScan, network, CountInv
  <2>4. CASE StartRead
    <3>1. index' \in Index /\ connections[index'] # Closed
      BY <2>4 DEF StartRead, First, Flagged
    <3> QED
      BY <2>4, <3>1, CountKept DEF StartRead, network, CountInv
  <2>5. CASE HangUp
    <3>1. PICK i \in Index : First(i) /\ CloseAt(i)
      BY <2>5 DEF HangUp
    <3>2. connections[i] # Closed
      BY <3>1 DEF First, Flagged
    <3>3. pc' = "scan" /\ backlog' = backlog
      BY <2>5, <3>1 DEF HangUp, CloseAt
    <3> QED
      BY <3>1, <3>2, <3>3, FreeOne DEF CountInv
  <2>6. CASE Read
    BY <2>6, CountKept DEF Read, CountInv
  <2>7. CASE ReadEnd
    <3>1. index \in Index /\ connections[index] # Closed
      BY <2>7 DEF ReadEnd, CountInv
    <3>2. CloseAt(index) /\ pc' = "scan" /\ backlog' = backlog
      BY <2>7 DEF ReadEnd, CloseAt
    <3> QED
      BY <3>1, <3>2, FreeOne DEF CountInv
  <2>8. CASE Invoke
    BY <2>8, CountKept DEF Invoke, network, CountInv
  <2>9. CASE WriteAnswer
    BY <2>9, CountKept DEF WriteAnswer, CountInv
  <2>10. CASE Crash
    <3>1. Taken' = {}
      BY <2>10 DEF Crash, Taken
    <3>2. Cardinality(Taken') = 0
      BY <3>1, FS_EmptySet
    <3> QED
      BY <2>10, <3>2 DEF Crash, CountInv
  <2>11. CASE Restart
    BY <2>11, CountKept DEF Restart, network, CountInv
  <2>12. ASSUME NEW c \in Client, Bind(c) \/ Reconnect(c)
         PROVE  CountInv'
    <3>1. backlog' = Append(backlog, c) /\ UNCHANGED server
      BY <2>12 DEF Bind, Reconnect, Open
    <3>2. backlog' \in Seq(Client) /\ backlog' # <<>>
      BY <3>1 DEF CountInv
    <3> QED
      BY <3>1, <3>2, CountKept DEF server, CountInv
  <2>13. ASSUME NEW c \in Client,
                \/ Leave(c) \/ \E m \in Requests[c] : Call(c, m)
                \/ WriteLength(c) \/ WriteBody(c) \/ WriteRest(c) \/ WritePart(c)
                \/ Receive(c) \/ ReceiveFails(c)
         PROVE  CountInv'
    <3>1. UNCHANGED <<server, backlog>>
      BY <2>13 DEF Leave, Call, WriteLength, WriteBody, WriteRest, WritePart,
                   Receive, ReceiveFails, network
    <3> QED
      BY <3>1, CountKept DEF server, CountInv
  <2>14. CASE UNCHANGED loopVars
    BY <2>14, CountKept DEF loopVars, server, network, CountInv
  <2> QED
    BY <2>1, <2>2, <2>3, <2>4, <2>5, <2>6, <2>7, <2>8, <2>9, <2>10, <2>11,
       <2>12, <2>13, <2>14 DEF LoopNext, ServerStep, ClientStep
<1> QED
  BY <1>1, <1>2, PTL DEF LoopSpec

(* numSockets is the listening socket and the open connections, whatever   *)
(* the clients do, and accept always finds a free entry.                   *)
THEOREM SocketsCounted == LoopSpec => []ConnectionsCounted
<1>1. CountInv => ConnectionsCounted
  BY RoomLeft DEF CountInv, ConnectionsCounted, Taken
<1> QED
  BY <1>1, CountHolds, PTL

-----------------------------------------------------------------------------
Pieces ==
  LET Asked == {Nothing} \cup UNION {Requests[c] : c \in Client}
  IN  [part : {"length", "first", "last"}, call : Nat,
       buffer : {Encode(m) : m \in Asked}]

(* The types of what ServedOnce depends on. *)
OnceTypes ==
  /\ calls \in Nat
  /\ request \in [Client -> {Nothing} \cup UNION {Requests[c] : c \in Client}]
  /\ up \in [Client -> Seq(Pieces)]
  /\ at \in [Client -> {"away", "idle", "length", "body", "rest", "wait", "reconnect"}]
  /\ current \in [Client -> Nat]
  /\ sent \in [Client -> BOOLEAN]
  /\ served \in [Client -> Nat]
  /\ pc = "invoke" => frame.call \in 1 .. calls

(* A thread that has not written the last byte of its request, or may have *)
(* to write it again.                                                      *)
Writing(c) == at[c] \in {"length", "body", "rest", "reconnect"}

(* The copies of the request of c under way to the server. *)
Copies(c) ==
  {i \in 1 .. Len(up[c]) : up[c][i].part = "last" /\ up[c][i].call = current[c]}

(* The server has read it. *)
InHand(c) ==
  pc = "invoke" /\ connections[index] = c /\ frame.call = current[c]

Fresh(c) == Copies(c) = {} /\ ~ InHand(c) /\ served[c] = 0

(* A request is under way, in the hand of the server, or served: at one of *)
(* these places and once, and at none as long as it may be written.        *)
OnceFor(c) ==
  /\ current[c] <= calls
  /\ \A i \in 1 .. Len(up[c]) : up[c][i].call \in 1 .. calls
  /\ Writing(c) => current[c] # 0
  /\ ~ sent[c] \/ Writing(c) => Fresh(c)
  /\ \A i, j \in Copies(c) : i = j
  /\ served[c] <= 1
  /\ Copies(c) # {} => ~ InHand(c) /\ served[c] = 0
  /\ InHand(c) => served[c] = 0

OnceInv == OnceTypes /\ \A c \in Client : OnceFor(c)

(* Steps that bring no request of c nearer to the server. *)
LEMMA OnceKept ==
  ASSUME OnceTypes, OnceTypes', NEW c \in Client, OnceFor(c),
         up'[c] \in {up[c], <<>>},
         calls <= calls',
         current'[c] = current[c], served'[c] = served[c],
         ~ sent'[c] \/ Writing(c)' => ~ sent[c] \/ Writing(c),
         Writing(c)' => Writing(c),
         InHand(c)' => InHand(c)
  PROVE  OnceFor(c)'
<1>1. \A i \in 1 .. Len(up'[c]) : i \in 1 .. Len(up[c]) /\ up'[c][i] = up[c][i]
  BY DEF OnceTypes
<1>2. Copies(c)' \subseteq Copies(c)
  BY <1>1 DEF Copies
<1>3. \A i \in 1 .. Len(up'[c]) : up'[c][i].call \in 1 .. calls'
  BY <1>1 DEF OnceTypes, OnceFor
<1> QED
  BY <1>2, <1>3 DEF OnceFor, Fresh, OnceTypes

(* Steps of the server that read nothing to its end and execute nothing. *)
LEMMA ServerKeeps ==
  ASSUME OnceInv, UNCHANGED <<calls, request, at, current, sent, served>>,
         up' \in [Client -> Seq(Pieces)],
         \A c \in Client : up'[c] \in {up[c], <<>>},
         pc' # "invoke"
  PROVE  OnceInv'
<1>1. OnceTypes'
  BY DEF OnceInv, OnceTypes
<1>2. ASSUME NEW c \in Client
      PROVE  OnceFor(c)'
  BY <1>1, <1>2, OnceKept DEF OnceInv, OnceTypes, Writing, InHand
<1> QED
  BY <1>1, <1>2 DEF OnceInv

(* Steps of one client are nothing to the others. *)
LEMMA OthersKept ==
  ASSUME OnceInv, OnceTypes', NEW c \in Client, NEW d \in Client \ {c},
         UNCHANGED server, calls <= calls',
         up'[d] = up[d], at'[d] = at[d], current'[d] = current[d],
         sent'[d] = sent[d], served'[d] = served[d]
  PROVE  OnceFor(d)'
<1>1. InHand(d)' => InHand(d)
  BY DEF InHand, server
<1>2. Writing(d)' = Writing(d)
  BY DEF Writing
<1> QED
  BY <1>1, <1>2, OnceKept DEF OnceInv

(* A piece of a request, behind what is under way already. *)
LEMMA Appended ==
  ASSUME OnceTypes, NEW c \in Client, NEW p \in {"length", "first", "last"},
         up' = [up EXCEPT ![c] = Append(@, [part |-> p, call |-> current[c],
                                           buffer |-> Encode(request[c])])]
  PROVE  /\ up' \in [Client -> Seq(Pieces)]
         /\ Len(up'[c]) = Len(up[c]) + 1
         /\ up'[c][Len(up[c]) + 1].part = p
         /\ up'[c][Len(up[c]) + 1].call = current[c]
         /\ \A i \in 1 .. Len(up[c]) : up'[c][i] = up[c][i]
<1> DEFINE x == [part |-> p, call |-> current[c], buffer |-> Encode(request[c])]
<1>1. x \in Pieces
  BY DEF OnceTypes, Pieces
<1>2. up'[c] = Append(up[c], x) /\ up[c] \in Seq(Pieces)
  BY DEF OnceTypes
<1>3. up' \in [Client -> Seq(Pieces)]
  <2> HIDE DEF x
  <2>1. Append(up[c], x) \in Seq(Pieces)
    BY <1>1, <1>2
  <2> QED
    BY <2>1 DEF OnceTypes, x
<1>4. /\ Len(up'[c]) = Len(up[c]) + 1
      /\ up'[c][Len(up[c]) + 1] = x
      /\ \A i \in 1 .. Len(up[c]) : up'[c][i] = up[c][i]
  <2> HIDE DEF x
  <2> QED
    BY <1>1, <1>2, AppendProperties
<1> QED
  BY <1>3, <1>4

(* A write of a piece that is not the last, or of nothing at all. *)
LEMMA WriteKeeps ==
  ASSUME OnceInv, NEW c \in Client, NEW p \in {"length", "first"},
         NEW next \in {"body", "rest"},
         at[c] \in {"length", "body"}, Write(c, p, next),
         calls' = calls, UNCHANGED <<server, request, current, sent, served>>
  PROVE  OnceInv'
<1>1. UNCHANGED up \/ up' = [up EXCEPT ![c] = Append(@, [part |-> p, call |-> current[c],
                                                       buffer |-> Encode(request[c])])]
  BY DEF Write
<1>2. \E n \in {next, "reconnect"} : at' = [at EXCEPT ![c] = n]
  BY DEF Write
<1>3. OnceTypes'
  <2>1. up' \in [Client -> Seq(Pieces)]
    BY <1>1, Appended DEF OnceInv, OnceTypes
  <2>2. at' \in [Client -> {"away", "idle", "length", "body", "rest", "wait", "reconnect"}]
    BY <1>2 DEF OnceInv, OnceTypes
  <2> QED
    BY <2>1, <2>2 DEF OnceInv, OnceTypes, server
<1>4. ASSUME NEW d \in Client \ {c}
      PROVE  OnceFor(d)'
  <2>1. up'[d] = up[d] /\ at'[d] = at[d]
    BY <1>1, <1>2 DEF OnceInv, OnceTypes
  <2> QED
    BY <1>3, <2>1, OthersKept DEF OnceInv, OnceTypes
<1>5. OnceFor(c)'
  <2>1. Writing(c) /\ Writing(c)'
    BY <1>2 DEF OnceInv, OnceTypes, Writing
  <2>2. InHand(c)' <=> InHand(c)
    BY DEF InHand, server
  <2>3. CASE UNCHANGED up
    BY <1>3, <2>1, <2>2, <2>3, OnceKept DEF OnceInv, OnceTypes
  <2>4. CASE up' = [up EXCEPT ![c] = Append(@, [part |-> p, call |-> current[c],
                                               buffer |-> Encode(request[c])])]
    <3>1. Copies(c)' = {}
      BY <2>1, <2>4, Appended DEF OnceInv, OnceTypes, OnceFor, Fresh, Copies
    <3>2. \A i \in 1 .. Len(up'[c]) : up'[c][i].call \in 1 .. calls'
      BY <2>1, <2>4, Appended DEF OnceInv, OnceTypes, OnceFor
    <3> QED
      BY <2>1, <2>2, <3>1, <3>2 DEF OnceInv, OnceFor, Fresh
  <2> QED
    BY <1>1, <2>3, <2>4
<1> QED
  BY <1>3, <1>4, <1>5 DEF OnceInv

(* The write that ends a request. *)
LEMMA WriteEnds ==
  ASSUME OnceInv, NEW c \in Client, NEW next \in {"wait", "idle"},
         at[c] \in {"body", "rest"}, Write(c, "last", next),
         sent' = [sent EXCEPT ![c] = TRUE],
         calls' = calls, UNCHANGED <<server, request, current, served>>
  PROVE  OnceInv'
<1>1. \/ UNCHANGED up /\ \E n \in {next, "reconnect"} : at' = [at EXCEPT ![c] = n]
      \/ /\ up' = [up EXCEPT ![c] = Append(@, [part |-> "last", call |-> current[c],
                                               buffer |-> Encode(request[c])])]
         /\ at' = [at EXCEPT ![c] = next]
  BY DEF Write
<1>2. OnceTypes'
  <2>1. up' \in [Client -> Seq(Pieces)]
    BY <1>1, Appended DEF OnceInv, OnceTypes
  <2>2. at' \in [Client -> {"away", "idle", "length", "body", "rest", "wait", "reconnect"}]
    BY <1>1 DEF OnceInv, OnceTypes
  <2>3. sent' \in [Client -> BOOLEAN]
    BY DEF OnceInv, OnceTypes
  <2> QED
    BY <2>1, <2>2, <2>3 DEF OnceInv, OnceTypes, server
<1>3. ASSUME NEW d \in Client \ {c}
      PROVE  OnceFor(d)'
  <2>1. up'[d] = up[d] /\ at'[d] = at[d]
    BY <1>1 DEF OnceInv, OnceTypes
  <2>2. sent'[d] = sent[d]
    BY DEF OnceInv, OnceTypes
  <2> QED
    <3>1. calls <= calls'
      BY DEF OnceInv, OnceTypes
    <3> QED
      BY <1>2, <2>1, <2>2, <3>1, OthersKept
<1>4. OnceFor(c)'
  <2>1. Writing(c) /\ Fresh(c) /\ sent'[c]
    BY DEF OnceInv, OnceTypes, OnceFor, Writing
  <2>2. InHand(c)' <=> InHand(c)
    BY DEF InHand, server
  <2>3. CASE UNCHANGED up
    BY <1>2, <2>1, <2>2, <2>3, OnceKept DEF OnceInv, OnceTypes
  <2>4. CASE /\ up' = [up EXCEPT ![c] = Append(@, [part |-> "last", call |-> current[c],
                                                   buffer |-> Encode(request[c])])]
             /\ at' = [at EXCEPT ![c] = next]
    <3>1. Copies(c)' = {Len(up[c]) + 1}
      BY <2>1, <2>4, Appended DEF OnceInv, OnceTypes, Fresh, Copies
    <3>2. \A i \in 1 .. Len(up'[c]) : up'[c][i].call \in 1 .. calls'
      BY <2>1, <2>4, Appended DEF OnceInv, OnceTypes, OnceFor
    <3>3. ~ Writing(c)'
      BY <2>4 DEF OnceInv, OnceTypes, Writing
    <3> QED
      BY <2>1, <2>2, <3>1, <3>2, <3>3 DEF OnceInv, OnceFor, Fresh
  <2> QED
    BY <1>1, <2>3, <2>4
<1> QED
  BY <1>2, <1>3, <1>4 DEF OnceInv

(* The state at the beginning. *)
LEMMA OnceInit == LoopInit => OnceInv
<1> SUFFICES ASSUME LoopInit PROVE OnceInv
  OBVIOUS
<1>1. OnceTypes
  BY DEF LoopInit, OnceTypes
<1>2. ASSUME NEW c \in Client
      PROVE  OnceFor(c)
  <2>1. Copies(c) = {}
    BY DEF LoopInit, Copies
  <2>2. ~ InHand(c)
    BY DEF LoopInit, InHand
  <2> QED
    BY <2>1, <2>2 DEF LoopInit, OnceFor, Fresh, Writing
<1> QED
  BY <1>1, <1>2 DEF OnceInv

(* A new call has a number that no piece and no frame has. *)
LEMMA OnceCall ==
  ASSUME OnceInv, NEW c \in Client, NEW m \in Requests[c], Call(c, m)
  PROVE  OnceInv'
<1>1. OnceTypes'
  <2>1. calls' \in Nat /\ calls' = calls + 1
    BY DEF OnceInv, OnceTypes, Call
  <2>2. request' \in [Client -> {Nothing} \cup UNION {Requests[d] : d \in Client}]
    BY DEF OnceInv, OnceTypes, Call
  <2>3. at' \in [Client -> {"away", "idle", "length", "body", "rest", "wait", "reconnect"}]
    BY DEF OnceInv, OnceTypes, Call
  <2>4. /\ current' \in [Client -> Nat] /\ sent' \in [Client -> BOOLEAN]
        /\ served' \in [Client -> Nat]
    BY <2>1 DEF OnceInv, OnceTypes, Call
  <2>5. UNCHANGED <<up, pc, frame>>
    BY DEF Call, network, server
  <2> QED
    BY <2>1, <2>2, <2>3, <2>4, <2>5 DEF OnceInv, OnceTypes
<1>2. ASSUME NEW d \in Client \ {c}
      PROVE  OnceFor(d)'
  <2>1. /\ up'[d] = up[d] /\ at'[d] = at[d] /\ current'[d] = current[d]
        /\ sent'[d] = sent[d] /\ served'[d] = served[d]
    BY DEF OnceInv, OnceTypes, Call, network
  <2>2. calls <= calls' /\ UNCHANGED server
    BY DEF OnceInv, OnceTypes, Call
  <2> QED
    BY <1>1, <2>1, <2>2, OthersKept
<1>3. OnceFor(c)'
  <2>1. /\ current'[c] = calls + 1 /\ calls' = calls + 1 /\ calls \in Nat
        /\ served'[c] = 0 /\ UNCHANGED <<up, server>>
    BY DEF OnceInv, OnceTypes, Call, network
  <2>2. \A i \in 1 .. Len(up[c]) : up[c][i].call \in 1 .. calls
    BY DEF OnceInv, OnceFor
  <2>3. Copies(c)' = {}
    BY <2>1, <2>2 DEF Copies
  <2>4. ~ InHand(c)'
    BY <2>1 DEF OnceInv, OnceTypes, InHand, server
  <2> QED
    BY <2>1, <2>2, <2>3, <2>4 DEF OnceFor, Fresh
<1> QED
  BY <1>1, <1>2, <1>3 DEF OnceInv

(* What a client that left has written is of no call any more. *)
LEMMA OnceLeave ==
  ASSUME OnceInv, NEW c \in Client, Leave(c)
  PROVE  OnceInv'
<1>1. OnceTypes'
  <2>1. /\ request' \in [Client -> {Nothing} \cup UNION {Requests[d] : d \in Client}]
        /\ at' \in [Client -> {"away", "idle", "length", "body", "rest", "wait", "reconnect"}]
    BY DEF OnceInv, OnceTypes, Leave
  <2>2. /\ current' \in [Client -> Nat] /\ sent' \in [Client -> BOOLEAN]
        /\ served' \in [Client -> Nat]
    BY DEF OnceInv, OnceTypes, Leave
  <2>3. UNCHANGED <<up, pc, frame, calls>>
    BY DEF Leave, server, bounds
  <2> QED
    BY <2>1, <2>2, <2>3 DEF OnceInv, OnceTypes
<1>2. calls' = calls /\ calls \in Nat /\ UNCHANGED <<server, up>>
  BY DEF OnceInv, OnceTypes, Leave, bounds
<1>3. ASSUME NEW d \in Client \ {c}
      PROVE  OnceFor(d)'
  <2>1. /\ up'[d] = up[d] /\ at'[d] = at[d] /\ current'[d] = current[d]
        /\ sent'[d] = sent[d] /\ served'[d] = served[d]
    BY DEF OnceInv, OnceTypes, Leave
  <2>2. calls <= calls'
    BY <1>2
  <2> QED
    BY <1>1, <1>2, <2>1, <2>2, OthersKept
<1>4. OnceFor(c)'
  <2>1. at'[c] = "away" /\ current'[c] = 0 /\ served'[c] = 0
    BY DEF OnceInv, OnceTypes, Leave
  <2>2. \A i \in 1 .. Len(up[c]) : up[c][i].call \in 1 .. calls
    BY DEF OnceInv, OnceFor
  <2>3. Copies(c)' = {}
    BY <1>2, <2>1, <2>2 DEF Copies
  <2>4. ~ InHand(c)'
    BY <1>2, <2>1 DEF OnceInv, OnceTypes, InHand, server
  <2> QED
    BY <1>2, <2>1, <2>2, <2>3, <2>4 DEF OnceFor, Fresh, Writing
<1> QED
  BY <1>1, <1>3, <1>4 DEF OnceInv

(* Connecting, at first or again, starts with an empty socket. *)
LEMMA OnceOpen ==
  ASSUME OnceInv, NEW c \in Client, Bind(c) \/ Reconnect(c)
  PROVE  OnceInv'
<1>1. /\ up' = [up EXCEPT ![c] = <<>>]
      /\ UNCHANGED <<server, request, calls, current, served>>
  BY DEF Bind, Reconnect, Open, history, bounds
<1>2. /\ \/ at[c] = "away" /\ at' = [at EXCEPT ![c] = "idle"] /\ sent' = sent
         \/ /\ at[c] = "reconnect" /\ at' = [at EXCEPT ![c] = "length"]
            /\ sent' = [sent EXCEPT ![c] = FALSE]
  BY DEF Bind, Reconnect, history
<1>3. OnceTypes'
  <2>1. up' \in [Client -> Seq(Pieces)]
    BY <1>1 DEF OnceInv, OnceTypes
  <2>2. at' \in [Client -> {"away", "idle", "length", "body", "rest", "wait", "reconnect"}]
    BY <1>2 DEF OnceInv, OnceTypes
  <2>3. sent' \in [Client -> BOOLEAN]
    BY <1>2 DEF OnceInv, OnceTypes
  <2> QED
    BY <1>1, <2>1, <2>2, <2>3 DEF OnceInv, OnceTypes, server
<1>4. calls <= calls'
  BY <1>1 DEF OnceInv, OnceTypes
<1>5. ASSUME NEW d \in Client \ {c}
      PROVE  OnceFor(d)'
  <2>1. up'[d] = up[d] /\ at'[d] = at[d] /\ sent'[d] = sent[d]
    BY <1>1, <1>2 DEF OnceInv, OnceTypes
  <2> QED
    BY <1>1, <1>3, <1>4, <2>1, OthersKept
<1>6. OnceFor(c)'
  <2>1. up'[c] = <<>>
    BY <1>1 DEF OnceInv, OnceTypes
  <2>2. /\ ~ sent'[c] \/ Writing(c)' => ~ sent[c] \/ Writing(c)
        /\ Writing(c)' => Writing(c)
    BY <1>2 DEF OnceInv, OnceTypes, Writing
  <2>3. InHand(c)' => InHand(c)
    BY <1>1 DEF InHand, server
  <2> QED
    BY <1>1, <1>3, <1>4, <2>1, <2>2, <2>3, OnceKept DEF OnceInv
<1> QED
  BY <1>3, <1>5, <1>6 DEF OnceInv

(* A thread comes back from its read. *)
LEMMA OnceReceive ==
  ASSUME OnceInv, NEW c \in Client, Receive(c) \/ ReceiveFails(c)
  PROVE  OnceInv'
<1>1. /\ at[c] = "wait" /\ at' = [at EXCEPT ![c] = "idle"]
      /\ UNCHANGED <<server, up, request, calls, current, sent, served>>
  BY DEF Receive, ReceiveFails, bounds, history
<1>2. OnceTypes'
  BY <1>1 DEF OnceInv, OnceTypes, server
<1>3. calls <= calls'
  BY <1>1 DEF OnceInv, OnceTypes
<1>4. ASSUME NEW d \in Client \ {c}
      PROVE  OnceFor(d)'
  <2>1. at'[d] = at[d]
    BY <1>1 DEF OnceInv, OnceTypes
  <2> QED
    BY <1>1, <1>2, <1>3, <2>1, OthersKept
<1>5. OnceFor(c)'
  <2>1. Writing(c)' => Writing(c)
    BY <1>1 DEF OnceInv, OnceTypes, Writing
  <2>2. InHand(c)' => InHand(c)
    BY <1>1 DEF InHand, server
  <2> QED
    BY <1>1, <1>2, <1>3, <2>1, <2>2, OnceKept DEF OnceInv
<1> QED
  BY <1>2, <1>4, <1>5 DEF OnceInv

(* The server reads a piece: if it is the last of a request, the request   *)
(* leaves the socket for the hand of the server.                           *)
LEMMA OnceRead ==
  ASSUME OnceInv, Read, NEW r \in Client, r = Reading
  PROVE  OnceInv'
<1> DEFINE h == Head(up[r])
<1>1. /\ up' = [up EXCEPT ![r] = Tail(@)] /\ up[r] # <<>>
      /\ pc # "invoke"
      /\ UNCHANGED <<request, at, calls, current, sent, served, connections, index>>
      /\ \/ h.part = "last" /\ pc' = "invoke" /\ frame'.call = h.call
         \/ h.part # "last" /\ pc' = "body"
  BY DEF Read, stub, bounds, history
<1>3. up[r] \in Seq(Pieces)
  BY DEF OnceInv, OnceTypes
<1>4. /\ 1 \in 1 .. Len(up[r]) /\ h = up[r][1]
      /\ Tail(up[r]) \in Seq(Pieces)
      /\ Len(Tail(up[r])) = Len(up[r]) - 1
      /\ \A i \in 1 .. Len(Tail(up[r])) :
           i + 1 \in 1 .. Len(up[r]) /\ Tail(up[r])[i] = up[r][i + 1]
  BY <1>1, <1>3
<1> HIDE DEF h
<1>5. h.call \in 1 .. calls
  BY <1>4 DEF OnceInv, OnceFor
<1>6. OnceTypes'
  <2>1. up' \in [Client -> Seq(Pieces)]
    BY <1>1, <1>4 DEF OnceInv, OnceTypes
  <2> QED
    BY <1>1, <1>5, <2>1 DEF OnceInv, OnceTypes
<1>7. calls <= calls'
  BY <1>1 DEF OnceInv, OnceTypes
<1>8. ASSUME NEW d \in Client \ {r}
      PROVE  OnceFor(d)'
  <2>1. up'[d] = up[d]
    BY <1>1 DEF OnceInv, OnceTypes
  <2>2. ~ InHand(d)'
    BY <1>1 DEF InHand, Reading
  <2>3. Writing(d)' = Writing(d)
    BY <1>1 DEF Writing
  <2> QED
    BY <1>1, <1>6, <1>7, <2>1, <2>2, <2>3, OnceKept DEF OnceInv
<1>9. OnceFor(r)'
  <2>1. up'[r] = Tail(up[r])
    BY <1>1 DEF OnceInv, OnceTypes
  <2>2. ASSUME NEW i \in Copies(r)'
        PROVE  i + 1 \in Copies(r)
    <3>1. /\ i \in 1 .. Len(up'[r]) /\ up'[r][i].part = "last"
          /\ up'[r][i].call = current[r]
      BY <1>1, <2>2 DEF Copies
    <3>2. i + 1 \in 1 .. Len(up[r]) /\ up'[r][i] = up[r][i + 1]
      BY <1>4, <2>1, <3>1
    <3> QED
      BY <3>1, <3>2 DEF Copies
  <2>3. OnceFor(r) /\ current'[r] = current[r] /\ served'[r] = served[r]
    BY <1>1 DEF OnceInv
  <2>4. \A i, j \in Copies(r)' : i = j
    <3>1. Copies(r)' \subseteq Nat
      BY DEF Copies
    <3> QED
      BY <2>2, <2>3, <3>1 DEF OnceFor
  <2>5. \A i \in 1 .. Len(up'[r]) : up'[r][i].call \in 1 .. calls'
    BY <1>1, <1>4, <2>1, <2>3 DEF OnceFor
  <2>6. ~ InHand(r)
    BY <1>1 DEF InHand
  <2>7. InHand(r)' => 1 \in Copies(r)
    BY <1>1, <1>4 DEF InHand, Copies
  <2>8. InHand(r)' => Copies(r)' = {} /\ served[r] = 0
    <3>1. ASSUME InHand(r)', NEW i \in Copies(r)'
          PROVE  FALSE
      <4>1. i \in 1 .. Len(up'[r])
        BY <3>1 DEF Copies
      <4>2. i + 1 \in Copies(r) /\ 1 \in Copies(r)
        BY <2>2, <2>7, <3>1
      <4>3. i + 1 = 1
        BY <2>3, <4>2 DEF OnceFor
      <4> QED
        BY <4>1, <4>3
    <3> QED
      BY <2>3, <2>7, <3>1 DEF OnceFor
  <2>9. Writing(r)' = Writing(r) /\ sent' = sent
    BY <1>1 DEF Writing
  <2>10. Copies(r)' # {} => Copies(r) # {}
    BY <2>2
  <2>11. ~ sent'[r] \/ Writing(r)' => Fresh(r)'
    <3>1. ~ sent[r] \/ Writing(r) => Fresh(r)
      BY <2>3 DEF OnceFor
    <3> QED
      BY <2>3, <2>7, <2>9, <2>10, <3>1 DEF Fresh
  <2> QED
    BY <1>1, <2>3, <2>4, <2>5, <2>8, <2>9, <2>10, <2>11 DEF OnceFor
<1> QED
  BY <1>6, <1>8, <1>9 DEF OnceInv

(* The request in hand is executed.                                        *)
LEMMA OnceInvoke ==
  ASSUME CountInv, OnceInv, Invoke
  PROVE  OnceInv'
<1> DEFINE r == Reading
<1>1. /\ pc = "invoke" /\ pc' = "answer"
      /\ UNCHANGED <<request, up, at, calls, current, sent, connections, index>>
      /\ \/ /\ frame.call = current[r]
            /\ served' = [served EXCEPT ![r] = @ + 1]
         \/ UNCHANGED served
  BY DEF Invoke, network, stub, bounds
<1>2. OnceTypes'
  BY <1>1 DEF OnceInv, OnceTypes
<1>3. calls <= calls'
  BY <1>1 DEF OnceInv, OnceTypes
<1>4. ASSUME NEW d \in Client
      PROVE  OnceFor(d)'
  <2>1. Writing(d)' = Writing(d) /\ ~ InHand(d)' /\ Copies(d)' = Copies(d)
    BY <1>1 DEF Writing, InHand, Copies
  <2>2. CASE served'[d] = served[d]
    BY <1>1, <1>2, <1>3, <1>4, <2>1, <2>2, OnceKept DEF OnceInv
  <2>3. CASE d = r /\ frame.call = current[r] /\ served'[d] = served[d] + 1
    <3>1. InHand(d)
      BY <1>1, <2>3 DEF InHand, Reading
    <3>2. Copies(d) = {} /\ served[d] = 0 /\ sent[d] /\ ~ Writing(d)
      BY <1>4, <3>1 DEF OnceInv, OnceFor, Fresh
    <3>3. OnceFor(d)
      BY <1>4 DEF OnceInv
    <3> QED
      BY <1>1, <2>1, <2>3, <3>2, <3>3 DEF OnceFor
  <2> QED
    BY <1>1, <2>2, <2>3 DEF OnceInv, OnceTypes
<1> QED
  BY <1>2, <1>4 DEF OnceInv

(* It holds whatever the clients do. *)
LEMMA OnceHolds == LoopSpec => []OnceInv
<1>1. LoopInit => OnceInv
  BY OnceInit
<1>2. CountInv /\ OnceInv /\ [LoopNext]_loopVars => OnceInv'
  <2> SUFFICES ASSUME CountInv, OnceInv, [LoopNext]_loopVars
               PROVE  OnceInv'
    OBVIOUS
  <2>1. CASE Poll \/ Accept \/ EndScan \/ StartRead
    <3>1. UNCHANGED <<calls, request, at, up, current, sent, served>> /\ pc' # "invoke"
      BY <2>1 DEF Poll, Accept, EndScan, StartRead, network, stub, bounds, history
    <3> QED
      BY <3>1, ServerKeeps DEF OnceInv, OnceTypes
  <2>2. CASE HangUp \/ ReadEnd
    <3>1. \E i \in Index \cup {index} : CloseAt(i)
      BY <2>2 DEF HangUp, ReadEnd
    <3>2. UNCHANGED <<calls, request, at, current, sent, served>> /\ pc' # "invoke"
      BY <2>2, <3>1 DEF HangUp, ReadEnd, CloseAt, stub, bounds, history
    <3>3. PICK c : up' = [up EXCEPT ![c] = <<>>]
      BY <3>1 DEF CloseAt
    <3>4. <<>> \in Seq(Pieces) /\ up \in [Client -> Seq(Pieces)]
      BY DEF OnceInv, OnceTypes
    <3>5. /\ up' \in [Client -> Seq(Pieces)]
          /\ \A d \in Client : up'[d] \in {up[d], <<>>}
      BY <3>3, <3>4
    <3> QED
      BY <3>2, <3>5, ServerKeeps
  <2>3. CASE Read
    <3>1. PICK r \in Client : r = Reading
      BY <2>3 DEF Read, CountInv, Reading
    <3> QED
      BY <2>3, <3>1, OnceRead
  <2>4. CASE Invoke
    BY <2>4, OnceInvoke
  <2>5. CASE WriteAnswer \/ Restart
    <3>1. UNCHANGED <<calls, request, at, up, current, sent, served>> /\ pc' # "invoke"
      BY <2>5 DEF WriteAnswer, Restart, network, stub, bounds, history
    <3> QED
      BY <3>1, ServerKeeps DEF OnceInv, OnceTypes
  <2>6. CASE Crash
    <3>1. /\ UNCHANGED <<calls, request, at, current, sent, served>> /\ pc' # "invoke"
          /\ up' = [c \in Client |-> <<>>]
      BY <2>6 DEF Crash, stub, history
    <3>2. /\ up' \in [Client -> Seq(Pieces)]
          /\ \A c \in Client : up'[c] \in {up[c], <<>>}
      BY <3>1
    <3> QED
      BY <3>1, <3>2, ServerKeeps
  <2>7. ASSUME NEW c \in Client, Bind(c) \/ Reconnect(c)
        PROVE  OnceInv'
    BY <2>7, OnceOpen
  <2>8. ASSUME NEW c \in Client, Leave(c)
        PROVE  OnceInv'
    BY <2>8, OnceLeave
  <2>9. ASSUME NEW c \in Client, NEW m \in Requests[c], Call(c, m)
        PROVE  OnceInv'
    BY <2>9, OnceCall
  <2>10. ASSUME NEW c \in Client, WriteLength(c) \/ WritePart(c)
         PROVE  OnceInv'
    <3>1. \/ at[c] = "length" /\ Write(c, "length", "body")
          \/ at[c] = "body" /\ Write(c, "first", "rest")
      BY <2>10 DEF WriteLength, WritePart
    <3>2. calls' = calls /\ UNCHANGED <<server, request, current, sent, served>>
      BY <2>10 DEF WriteLength, WritePart, bounds, history
    <3> QED
      BY <3>1, <3>2, WriteKeeps
  <2>11. ASSUME NEW c \in Client, WriteBody(c) \/ WriteRest(c)
         PROVE  OnceInv'
    <3>1. \/ at[c] = "body" /\ Write(c, "last", "wait")
          \/ at[c] = "rest" /\ Write(c, "last", "idle")
      BY <2>11 DEF WriteBody, WriteRest
    <3>2. /\ sent' = [sent EXCEPT ![c] = TRUE]
          /\ calls' = calls /\ UNCHANGED <<server, request, current, served>>
      BY <2>11 DEF WriteBody, WriteRest, bounds
    <3> QED
      BY <3>1, <3>2, WriteEnds
  <2>12. ASSUME NEW c \in Client, Receive(c) \/ ReceiveFails(c)
         PROVE  OnceInv'
    BY <2>12, OnceReceive
  <2>13. CASE UNCHANGED loopVars
    <3>1. /\ UNCHANGED <<calls, request, at, up, current, sent, served>>
          /\ UNCHANGED <<pc, connections, index, frame>>
      BY <2>13 DEF loopVars, server, network, stub, bounds, history
    <3>2. OnceTypes'
      BY <3>1 DEF OnceInv, OnceTypes
    <3>3. ASSUME NEW c \in Client
          PROVE  OnceFor(c)'
      BY <3>1, <3>2, <3>3, OnceKept DEF OnceInv, OnceTypes, Writing, InHand
    <3> QED
      BY <3>2, <3>3 DEF OnceInv
  <2> QED
    BY <2>1, <2>2, <2>3, <2>4, <2>5, <2>6, <2>7, <2>8, <2>9, <2>10, <2>11,
       <2>12, <2>13 DEF LoopNext, ServerStep, ClientStep
<1> QED
  BY <1>1, <1>2, CountHolds, PTL DEF LoopSpec

(* A request that was sent is executed at most once, and one that was not  *)
(* sent to its last byte never, for any number of clients, calls, partial  *)
(* writes, reconnections and deaths of the server.                         *)
THEOREM ExecutedOnce == LoopSpec => []ServedOnce
<1>1. OnceInv => ServedOnce
  BY DEF OnceInv, OnceTypes, OnceFor, Fresh, ServedOnce
<1> QED
  BY <1>1, OnceHolds, PTL

-----------------------------------------------------------------------------
(* The requests of the stub that have an encoding, encoded. *)
Sendable == {Encode(m) : m \in {m \in StubRequests : Encode(m) # NoBuffer}}

(* What a thread writes, what is on its way and what the server has read is *)
(* always a request of the stub.                                            *)
SendInv ==
  /\ \A c \in Client : Writing(c) => Encode(request[c]) \in Sendable
  /\ \A c \in Client : \A i \in 1 .. Len(up[c]) : up[c][i].buffer \in Sendable
  /\ pc = "invoke" => frame.buffer \in Sendable

(* Requests are messages, *)
LEMMA StubMessages == StubRequests \subseteq Messages(Opcode)
<1>1. Value \subseteq [ts : Nat, data : Data \cup {NoData}]
  BY TableAssumption DEF Value
<1> QED
  BY <1>1 DEF StubRequests, Messages, Opcode, KeyMessage, EntryMessage, PutValue

(* and the server decodes what the stub encoded. *)
LEMMA RequestDecoded ==
  ASSUME NEW b \in Sendable
  PROVE  Decode(b) \in StubRequests
<1>1. PICK m \in StubRequests : b = Encode(m) /\ Encode(m) # NoBuffer
  BY DEF Sendable
<1>2. Decode(Encode(m)) = m
  BY <1>1, StubMessages, RoundTrip
<1> QED
  BY <1>1, <1>2

(* Steps that write and read nothing. *)
LEMMA SendKept ==
  ASSUME SendInv,
         \A c \in Client :
           /\ Writing(c)' => Writing(c) /\ request'[c] = request[c]
           /\ \A i \in 1 .. Len(up'[c]) : i \in 1 .. Len(up[c]) /\ up'[c][i] = up[c][i],
         pc' = "invoke" => pc = "invoke" /\ frame'.buffer = frame.buffer
  PROVE  SendInv'
BY DEF SendInv

(* A thread writes its request. *)
LEMMA SendWrite ==
  ASSUME OnceTypes, SendInv, NEW c \in Client, NEW p \in {"length", "first", "last"},
         NEW next, Write(c, p, next), Writing(c),
         UNCHANGED <<server, request>>
  PROVE  SendInv'
<1>1. \A d \in Client : Writing(d)' => Writing(d)
  <2>1. \A d \in Client \ {c} : at'[d] = at[d]
    BY DEF Write, OnceTypes
  <2> QED
    BY <2>1 DEF Writing
<1>2. ASSUME NEW d \in Client, NEW i \in 1 .. Len(up'[d])
      PROVE  up'[d][i].buffer \in Sendable
  <2> DEFINE x == [part |-> p, call |-> current[c], buffer |-> Encode(request[c])]
  <2>1. x.buffer \in Sendable
    BY DEF SendInv
  <2>2. up' = up \/ up' = [up EXCEPT ![c] = Append(@, x)]
    BY DEF Write
  <2> HIDE DEF x
  <2>3. up[d] \in Seq(Pieces)
    BY DEF OnceTypes
  <2>4. CASE up'[d] = up[d]
    BY <1>2, <2>4 DEF SendInv
  <2>5. CASE up'[d] = Append(up[d], x)
    <3>1. (i \in 1 .. Len(up[d]) /\ up'[d][i] = up[d][i]) \/ up'[d][i] = x
      BY <1>2, <2>3, <2>5, AppendProperties
    <3> QED
      BY <2>1, <3>1 DEF SendInv
  <2> QED
    BY <2>2, <2>4, <2>5 DEF OnceTypes
<1> QED
  BY <1>1, <1>2 DEF SendInv, server

(* It holds whatever the clients do. *)
LEMMA SendHolds == LoopSpec => []SendInv
<1>1. LoopInit => SendInv
  BY DEF LoopInit, SendInv, Writing
<1>2. CountInv /\ OnceInv /\ SendInv /\ [LoopNext]_loopVars => SendInv'
  <2> SUFFICES ASSUME CountInv, OnceTypes, SendInv, [LoopNext]_loopVars
               PROVE  SendInv'
    BY DEF OnceInv
  <2>1. CASE Poll \/ Accept \/ EndScan \/ StartRead \/ WriteAnswer \/ Restart
    <3>1. UNCHANGED <<at, up, request>> /\ pc' # "invoke"
      BY <2>1 DEF Poll, Accept, EndScan, StartRead, WriteAnswer, Restart, network, stub
    <3> QED
      BY <3>1, SendKept DEF Writing
  <2>2. CASE HangUp \/ ReadEnd
    <3>1. \E i \in Index \cup {index} : CloseAt(i)
      BY <2>2 DEF HangUp, ReadEnd
    <3>2. UNCHANGED <<at, request>> /\ pc' # "invoke"
      BY <2>2, <3>1 DEF HangUp, ReadEnd, CloseAt, stub
    <3>3. PICK c : up' = [up EXCEPT ![c] = <<>>]
      BY <3>1 DEF CloseAt
    <3>4. \A d \in Client : up'[d] = up[d] \/ up'[d] = <<>>
      BY <3>3 DEF OnceTypes
    <3> QED
      BY <3>2, <3>4, SendKept DEF Writing
  <2>3. CASE Read
    <3>1. PICK r \in Client : r = Reading
      BY <2>3 DEF Read, CountInv, Reading
    <3> DEFINE h == Head(up[r])
    <3>2. /\ up' = [up EXCEPT ![r] = Tail(@)] /\ up[r] # <<>>
          /\ UNCHANGED <<request, at>>
          /\ (pc' = "invoke" /\ frame'.buffer = h.buffer) \/ pc' = "body"
      BY <2>3, <3>1 DEF Read, stub
    <3>3. up[r] \in Seq(Pieces)
      BY DEF OnceTypes
    <3>4. /\ 1 \in 1 .. Len(up[r]) /\ h = up[r][1]
          /\ \A i \in 1 .. Len(Tail(up[r])) :
               i + 1 \in 1 .. Len(up[r]) /\ Tail(up[r])[i] = up[r][i + 1]
      BY <3>2, <3>3
    <3> HIDE DEF h
    <3>5. h.buffer \in Sendable
      BY <3>4 DEF SendInv
    <3>6. ASSUME NEW d \in Client, NEW i \in 1 .. Len(up'[d])
          PROVE  up'[d][i].buffer \in Sendable
      BY <3>2, <3>4, <3>6 DEF SendInv, OnceTypes
    <3> QED
      BY <3>2, <3>5, <3>6 DEF SendInv, Writing
  <2>4. CASE Invoke
    <3>1. UNCHANGED <<at, up, request>> /\ pc' # "invoke"
      BY <2>4 DEF Invoke, network, stub
    <3> QED
      BY <3>1, SendKept DEF Writing
  <2>5. CASE Crash
    <3>1. UNCHANGED <<at, request>> /\ pc' # "invoke" /\ up' = [c \in Client |-> <<>>]
      BY <2>5 DEF Crash, stub
    <3> QED
      BY <3>1, SendKept DEF Writing
  <2>6. ASSUME NEW c \in Client,
               \/ Bind(c) \/ Reconnect(c) \/ Leave(c)
               \/ Receive(c) \/ ReceiveFails(c)
        PROVE  SendInv'
    <3>1. /\ \E x \in {"idle", "length", "away"} : at' = [at EXCEPT ![c] = x]
          /\ at'[c] = "length" => Writing(c) /\ request' = request
      BY <2>6 DEF Bind, Reconnect, Leave, Receive, ReceiveFails, Writing, OnceTypes
    <3>2. \A d \in Client : Writing(d)' => Writing(d) /\ request'[d] = request[d]
      <4>1. \A d \in Client \ {c} : at'[d] = at[d] /\ request'[d] = request[d]
        BY <2>6 DEF Bind, Reconnect, Leave, Receive, ReceiveFails, OnceTypes
      <4>2. Writing(c)' => at'[c] = "length"
        BY <3>1 DEF Writing, OnceTypes
      <4> QED
        BY <3>1, <4>1, <4>2 DEF Writing
    <3>3. /\ up' = up \/ up' = [up EXCEPT ![c] = <<>>]
          /\ UNCHANGED server
      BY <2>6 DEF Bind, Reconnect, Leave, Receive, ReceiveFails, Open
    <3>4. \A d \in Client : up'[d] = up[d] \/ up'[d] = <<>>
      BY <3>3 DEF OnceTypes
    <3> QED
      BY <3>2, <3>3, <3>4, SendKept DEF server
  <2>7. ASSUME NEW c \in Client, NEW m \in Requests[c], Call(c, m)
        PROVE  SendInv'
    <3>1. /\ \A d \in Client \ {c} : at'[d] = at[d] /\ request'[d] = request[d]
          /\ request'[c] = m
          /\ at' = at \/ Encode(m) # NoBuffer
      BY <2>7 DEF Call, OnceTypes
    <3>2. m \in StubRequests /\ at[c] = "idle"
      BY <2>7, LoopAssumption DEF Call
    <3>3. Writing(c)' => Encode(request'[c]) \in Sendable
      BY <3>1, <3>2 DEF Writing, Sendable
    <3> QED
      BY <2>7, <3>1, <3>3 DEF SendInv, Writing, Call, network, server
  <2>8. ASSUME NEW c \in Client,
               WriteLength(c) \/ WriteBody(c) \/ WriteRest(c) \/ WritePart(c)
        PROVE  SendInv'
    <3>1. PICK p \in {"length", "first", "last"}, n \in {"body", "wait", "idle", "rest"} :
            Write(c, p, n)
      BY <2>8 DEF WriteLength, WriteBody, WriteRest, WritePart
    <3>2. Writing(c) /\ UNCHANGED <<server, request>>
      BY <2>8 DEF WriteLength, WriteBody, WriteRest, WritePart, Writing
    <3> QED
      BY <3>1, <3>2, SendWrite
  <2>9. CASE UNCHANGED loopVars
    <3>1. UNCHANGED <<at, up, request, pc, frame>>
      BY <2>9 DEF loopVars, server, network, stub
    <3> QED
      BY <3>1, SendKept DEF Writing
  <2> QED
    BY <2>1, <2>2, <2>3, <2>4, <2>5, <2>6, <2>7, <2>8, <2>9
       DEF LoopNext, ServerStep, ClientStep
<1> QED
  BY <1>1, <1>2, CountHolds, OnceHolds, PTL DEF LoopSpec

-----------------------------------------------------------------------------
(* Every step of the loop is a request of module Table, or leaves the table *)
(* alone: nothing that reaches invoke is a request the stub cannot make.    *)
THEOREM LoopIsTable == LoopSpec => Spec
<1>1. LoopInit => Init
  BY DEF LoopInit
<1>2. SendInv /\ [LoopNext]_loopVars => [Next]_vars
  <2> SUFFICES ASSUME SendInv, [LoopNext]_loopVars
               PROVE  [Next]_vars
    OBVIOUS
  <2>1. CASE Invoke
    <3>1. PICK m \in StubRequests : InvokeChange(m) \/ InvokeRead(m)
      BY <2>1, RequestDecoded DEF SendInv, Invoke
    <3>2. CASE InvokeRead(m)
      BY <3>2 DEF InvokeRead
    <3>3. CASE InvokeChange(m)
      <4>1. CASE m.op = "OC_PUT" /\ Put(m.key, m.value)
        <5>1. m.key \in Key /\ m.value \in PutValue
          BY <4>1 DEF StubRequests, EntryMessage, KeyMessage
        <5> QED
          BY <4>1, <5>1 DEF Next
      <4>2. CASE m.op = "OC_UPDATE" /\ Update(m.key, m.value)
        <5>1. m.key \in Key /\ m.value \in Value
          BY <4>2 DEF StubRequests, EntryMessage, KeyMessage
        <5> QED
          BY <4>2, <5>1 DEF Next
      <4>3. CASE m.op = "OC_DEL" /\ Del(m.key)
        <5>1. m.key \in Key
          BY <4>3 DEF StubRequests, EntryMessage, KeyMessage
        <5> QED
          BY <4>3, <5>1 DEF Next
      <4> QED
        BY <3>3, <4>1, <4>2, <4>3 DEF InvokeChange
    <3> QED
      BY <3>1, <3>2, <3>3
  <2>2. CASE Poll \/ Accept \/ EndScan \/ StartRead \/ HangUp \/ Read \/ ReadEnd
             \/ WriteAnswer \/ Crash \/ Restart
    BY <2>2 DEF Poll, Accept, EndScan, StartRead, HangUp, Read, ReadEnd, WriteAnswer,
                Crash, Restart
  <2>3. ASSUME NEW c \in Client,
               \/ Bind(c) \/ Leave(c) \/ \E m \in Requests[c] : Call(c, m)
               \/ ClientStep(c) \/ WritePart(c)
        PROVE  UNCHANGED vars
    BY <2>3 DEF Bind, Leave, Call, ClientStep, WriteLength, WriteBody, WriteRest,
                WritePart, Receive, ReceiveFails, Reconnect
  <2>4. CASE UNCHANGED loopVars
    BY <2>4 DEF loopVars
  <2> QED
    BY <2>1, <2>2, <2>3, <2>4 DEF LoopNext, ServerStep
<1> QED
  BY <1>1, <1>2, SendHolds, PTL DEF LoopSpec, Spec

(* What the table is proved to keep (TableProofs), it keeps behind the loop. *)
THEOREM TableBehindLoop == LoopSpec => [](TypeOK /\ SizeNeverOvercounts)
BY LoopIsTable, TypeCorrect, SizeBounded, PTL

-----------------------------------------------------------------------------
Held(c) == \E i \in Index : connections[i] = c
Queued(c) == \E i \in 1 .. Len(backlog) : backlog[i] = c

(* A client has one connection, accepted or not; one that the server has   *)
(* closed is at neither place and has nothing on its way.                  *)
LinkInv ==
  /\ DOMAIN link = Client
  /\ \A i, j \in Index : connections[i] = connections[j] /\ connections[i] # Closed => i = j
  /\ \A i, j \in 1 .. Len(backlog) : backlog[i] = backlog[j] => i = j
  /\ \A c \in Client : ~ (Held(c) /\ Queued(c))
  /\ \A c \in Client : link[c] = "broken" => ~ Held(c) /\ ~ Queued(c) /\ up[c] = <<>>
  /\ \A c \in Client : at[c] = "reconnect" => link[c] = "broken"

(* Steps that make and end no connection. *)
LEMMA LinkKept ==
  ASSUME LinkInv, UNCHANGED <<connections, backlog>>, DOMAIN link' = DOMAIN link,
         \A c \in Client :
           /\ link'[c] = "broken" => link[c] = "broken" /\ up'[c] = up[c]
           /\ at'[c] = "reconnect" => link'[c] = "broken"
  PROVE  LinkInv'
BY DEF LinkInv, Held, Queued

(* A new connection, when nothing is left of the old one. *)
LEMMA LinkOpen ==
  ASSUME CountInv, OnceTypes, LinkInv, NEW c \in Client, ~ Held(c), ~ Queued(c),
         Open(c), connections' = connections,
         \E x \in {"idle", "length"} : at' = [at EXCEPT ![c] = x]
  PROVE  LinkInv'
<1>1. /\ backlog' = Append(backlog, c) /\ link' = [link EXCEPT ![c] = "backlog"]
      /\ up' = [up EXCEPT ![c] = <<>>] /\ backlog \in Seq(Client)
  BY DEF Open, CountInv
<1>2. /\ Len(backlog') = Len(backlog) + 1 /\ Len(backlog) \in Nat
      /\ backlog'[Len(backlog) + 1] = c
      /\ \A i \in 1 .. Len(backlog) : backlog'[i] = backlog[i]
  BY <1>1, AppendProperties
<1>3. \A d \in Client : Queued(d)' => Queued(d) \/ d = c
  BY <1>2 DEF Queued
<1>4. \A d \in Client : Held(d)' <=> Held(d)
  BY DEF Held
<1>5. \A i, j \in 1 .. Len(backlog') : backlog'[i] = backlog'[j] => i = j
  BY <1>2 DEF LinkInv, Queued
<1>6. ASSUME NEW d \in Client
      PROVE  /\ link'[d] = "broken" => ~ Held(d)' /\ ~ Queued(d)' /\ up'[d] = <<>>
             /\ at'[d] = "reconnect" => link'[d] = "broken"
  <2>1. CASE d = c
    BY <1>1, <2>1 DEF LinkInv, OnceTypes
  <2>2. CASE d # c
    <3>1. link'[d] = link[d] /\ up'[d] = up[d] /\ at'[d] = at[d]
      BY <1>1, <2>2 DEF LinkInv, OnceTypes
    <3> QED
      BY <1>3, <1>4, <2>2, <3>1 DEF LinkInv
  <2> QED
    BY <2>1, <2>2
<1>7. DOMAIN link' = Client
  BY <1>1 DEF LinkInv
<1>8. \A d \in Client : ~ (Held(d)' /\ Queued(d)')
  BY <1>3, <1>4 DEF LinkInv
<1> QED
  BY <1>5, <1>6, <1>7, <1>8 DEF LinkInv

(* A connection is ended by the server. *)
LEMMA LinkClose ==
  ASSUME CountInv, OnceTypes, LinkInv, NEW i \in Index, connections[i] # Closed,
         CloseAt(i), UNCHANGED <<backlog, at>>
  PROVE  LinkInv'
<1> DEFINE c == connections[i]
<1>1. c \in Client /\ Held(c)
  BY DEF CountInv, Held
<1>2. /\ connections' = [connections EXCEPT ![i] = Closed]
      /\ link' = [link EXCEPT ![c] = IF Reaches(c) THEN "broken" ELSE @]
      /\ up' = [up EXCEPT ![c] = <<>>]
  BY DEF CloseAt
<1>3. /\ \A d \in Client : Held(d)' => Held(d) /\ d # c
      /\ \A d \in Client : Queued(d)' <=> Queued(d)
      /\ ~ Queued(c)
  BY <1>1, <1>2, LoopAssumption DEF LinkInv, Held, Queued, CountInv
<1>4. ASSUME NEW d \in Client
      PROVE  /\ link'[d] = "broken" => ~ Held(d)' /\ ~ Queued(d)' /\ up'[d] = <<>>
             /\ at'[d] = "reconnect" => link'[d] = "broken"
  <2> HIDE DEF c
  <2>1. CASE d = c
    BY <1>1, <1>2, <1>3, <2>1 DEF LinkInv, OnceTypes
  <2>2. CASE d # c
    BY <1>1, <1>2, <1>3, <2>2 DEF LinkInv, OnceTypes
  <2> QED
    BY <2>1, <2>2
<1>5. \A j, k \in Index : connections'[j] = connections'[k] /\ connections'[j] # Closed => j = k
  BY <1>2 DEF LinkInv, CountInv
<1> QED
  BY <1>2, <1>3, <1>4, <1>5 DEF LinkInv

(* The first connection that waits is accepted into a free entry. *)
LEMMA LinkAccept ==
  ASSUME CountInv, OnceTypes, LinkInv, Accept
  PROVE  LinkInv'
<1> DEFINE c == Head(backlog)
<1>1. backlog \in Seq(Client) /\ backlog # <<>>
  BY DEF Accept, CountInv
<1>2. /\ 1 \in 1 .. Len(backlog) /\ c = backlog[1] /\ c \in Client
      /\ Len(Tail(backlog)) = Len(backlog) - 1
      /\ \A j \in 1 .. Len(Tail(backlog)) :
           j + 1 \in 1 .. Len(backlog) /\ Tail(backlog)[j] = backlog[j + 1]
  BY <1>1
<1>3. PICK i \in Index :
        FreeIndex(i) /\ connections' = [connections EXCEPT ![i] = c]
  BY DEF Accept
<1>4. \E j \in Index : connections[j] = Closed
  BY RoomLeft DEF Accept, CountInv
<1>5. connections[i] = Closed
  BY <1>3, <1>4 DEF FreeIndex
<1>6. /\ link' = [link EXCEPT ![c] = IF @ = "backlog" THEN "up" ELSE @]
      /\ backlog' = Tail(backlog) /\ UNCHANGED <<up, at>>
  BY DEF Accept, stub
<1> HIDE DEF c
<1>7. Queued(c) /\ ~ Held(c)
  BY <1>2 DEF Queued, LinkInv
<1>8. \A d \in Client : Held(d)' => Held(d) \/ d = c
  BY <1>3 DEF Held, CountInv
<1>9. \A d \in Client : Queued(d)' => Queued(d) /\ d # c
  <2> SUFFICES ASSUME NEW j \in 1 .. Len(backlog')
               PROVE  (\E n \in 1 .. Len(backlog) : backlog[n] = backlog'[j]) /\ backlog'[j] # c
    BY DEF Queued
  <2>1. j + 1 \in 1 .. Len(backlog) /\ backlog'[j] = backlog[j + 1] /\ j \in Nat \ {0}
    BY <1>2, <1>6
  <2>2. j + 1 # 1
    BY <2>1
  <2> QED
    BY <1>2, <2>1, <2>2 DEF LinkInv
<1>10. \A j, k \in Index : connections'[j] = connections'[k] /\ connections'[j] # Closed => j = k
  BY <1>3, <1>7 DEF LinkInv, CountInv, Held
<1>11. \A j, k \in 1 .. Len(backlog') : backlog'[j] = backlog'[k] => j = k
  <2> SUFFICES ASSUME NEW j \in 1 .. Len(backlog'), NEW k \in 1 .. Len(backlog'),
                      backlog'[j] = backlog'[k]
               PROVE  j = k
    OBVIOUS
  <2>1. /\ j + 1 \in 1 .. Len(backlog) /\ k + 1 \in 1 .. Len(backlog)
        /\ backlog[j + 1] = backlog[k + 1]
    BY <1>2, <1>6
  <2>2. j + 1 = k + 1
    BY <2>1 DEF LinkInv
  <2> QED
    BY <2>2
<1>12. ASSUME NEW d \in Client
       PROVE  /\ link'[d] = "broken" => link[d] = "broken" /\ d # c
              /\ at'[d] = "reconnect" => link'[d] = "broken"
  BY <1>2, <1>6, <1>7 DEF LinkInv
<1> QED
  BY <1>6, <1>8, <1>9, <1>10, <1>11, <1>12 DEF LinkInv

(* It holds whatever the clients do. *)
LEMMA LinkHolds == LoopSpec => []LinkInv
<1>1. LoopInit => LinkInv
  BY LoopAssumption DEF LoopInit, LinkInv, Held, Queued
<1>2. CountInv /\ OnceInv /\ LinkInv /\ [LoopNext]_loopVars => LinkInv'
  <2> SUFFICES ASSUME CountInv, OnceTypes, LinkInv, [LoopNext]_loopVars
               PROVE  LinkInv'
    BY DEF OnceInv
  <2>1. CASE Poll \/ EndScan \/ StartRead \/ Invoke \/ WriteAnswer \/ Restart
             \/ UNCHANGED loopVars
    <3>1. UNCHANGED <<connections, backlog, link, up, at>>
      BY <2>1 DEF Poll, EndScan, StartRead, Invoke, WriteAnswer, Restart, loopVars,
                  server, network, stub
    <3> QED
      BY <3>1, LinkKept DEF LinkInv
  <2>2. CASE Accept
    BY <2>2, LinkAccept
  <2>3. CASE HangUp
    <3>1. PICK i \in Index : First(i) /\ CloseAt(i)
      BY <2>3 DEF HangUp
    <3>2. connections[i] # Closed /\ UNCHANGED <<backlog, at>>
      BY <2>3, <3>1 DEF HangUp, First, Flagged, stub
    <3> QED
      BY <3>1, <3>2, LinkClose
  <2>4. CASE ReadEnd
    <3>1. index \in Index /\ connections[index] # Closed
      BY <2>4 DEF ReadEnd, CountInv
    <3>2. CloseAt(index) /\ UNCHANGED <<backlog, at>>
      BY <2>4 DEF ReadEnd, stub
    <3> QED
      BY <3>1, <3>2, LinkClose
  <2>5. CASE Read
    <3>1. PICK r \in Client : r = Reading /\ Held(r)
      BY <2>5 DEF Read, CountInv, Reading, Held
    <3>2. /\ up' = [up EXCEPT ![r] = Tail(@)]
          /\ UNCHANGED <<connections, backlog, link, at>>
      BY <2>5, <3>1 DEF Read, stub
    <3>3. \A c \in Client : link[c] = "broken" => up'[c] = up[c]
      BY <3>1, <3>2 DEF LinkInv, OnceTypes
    <3> QED
      BY <3>2, <3>3, LinkKept DEF LinkInv
  <2>6. CASE Crash
    <3>1. /\ connections' = [i \in Index |-> Closed] /\ backlog' = <<>>
          /\ link' = [c \in Client |-> IF Reaches(c) THEN "broken" ELSE link[c]]
          /\ up' = [c \in Client |-> <<>>] /\ at' = at
      BY <2>6 DEF Crash, stub
    <3> QED
      BY <3>1, LoopAssumption DEF LinkInv, Held, Queued
  <2>7. ASSUME NEW c \in Client, Bind(c) \/ Reconnect(c)
        PROVE  LinkInv'
    <3>1. /\ Open(c) /\ connections' = connections
          /\ \E x \in {"idle", "length"} : at' = [at EXCEPT ![c] = x]
      BY <2>7 DEF Bind, Reconnect, server
    <3>2. ~ Held(c) /\ ~ Queued(c)
      BY <2>7 DEF Bind, Reconnect, Held, Queued, LinkInv
    <3> QED
      BY <3>1, <3>2, LinkOpen
  <2>8. ASSUME NEW c \in Client, Leave(c)
        PROVE  LinkInv'
    <3>1. /\ link' = [link EXCEPT ![c] = IF Reaches(c) THEN "closed" ELSE @]
          /\ at' = [at EXCEPT ![c] = "away"]
          /\ UNCHANGED <<connections, backlog, up>>
      BY <2>8 DEF Leave, server
    <3> QED
      BY <3>1, LinkKept DEF LinkInv, OnceTypes, Reaches
  <2>9. ASSUME NEW c \in Client,
               Receive(c) \/ ReceiveFails(c) \/ \E m \in Requests[c] : Call(c, m)
        PROVE  LinkInv'
    <3>1. /\ UNCHANGED <<connections, backlog, link, up>>
          /\ at' = at \/ \E x \in {"idle", "length"} : at' = [at EXCEPT ![c] = x]
      BY <2>9 DEF Receive, ReceiveFails, Call, server, network
    <3> QED
      BY <3>1, LinkKept DEF LinkInv, OnceTypes
  <2>10. ASSUME NEW c \in Client,
                WriteLength(c) \/ WriteBody(c) \/ WriteRest(c) \/ WritePart(c)
         PROVE  LinkInv'
    <3>1. PICK p \in {"length", "first", "last"}, n \in {"body", "wait", "idle", "rest"} :
            Write(c, p, n)
      BY <2>10 DEF WriteLength, WriteBody, WriteRest, WritePart
    <3>2. UNCHANGED <<connections, backlog, link>>
      BY <2>10 DEF WriteLength, WriteBody, WriteRest, WritePart, server
    <3>3. \A d \in Client : /\ link[d] = "broken" => up'[d] = up[d]
                            /\ at'[d] = "reconnect" => link[d] = "broken"
      BY <3>1 DEF Write, LinkInv, OnceTypes, Reaches
    <3> QED
      BY <3>2, <3>3, LinkKept DEF LinkInv
  <2> QED
    BY <2>1, <2>2, <2>3, <2>4, <2>5, <2>6, <2>7, <2>8, <2>9, <2>10
       DEF LoopNext, ServerStep, ClientStep
<1> QED
  BY <1>1, <1>2, CountHolds, OnceHolds, PTL DEF LoopSpec

-----------------------------------------------------------------------------
OwnTypes ==
  /\ DOMAIN down = Client /\ DOMAIN result = Client /\ DOMAIN outcome = Client
  /\ aborted \in [Client -> BOOLEAN]
  /\ pc = "answer" => answer \in Messages(Opcode)
  /\ \A c \in Client : at[c] # "idle" => result[c] = Nothing

(* The request or the answer of the client is with the server. *)
Serving(c) == pc \in {"invoke", "answer"} /\ connections[index] = c
Answering(c) == pc = "answer" /\ connections[index] = c

(* As long as a client has given up no request, whatever is under way or   *)
(* with the server on its connection is of its present call, and there is  *)
(* nothing of the kind unless it waits for its answer.                     *)
OwnFor(c) ==
  /\ \A i \in 1 .. Len(up[c]) : up[c][i].part = "last" => up[c][i].call = current[c]
  /\ pc = "invoke" /\ connections[index] = c => InHand(c)
  /\ Answering(c) => outcome[c] = answer /\ down[c] = <<>> /\ served[c] = 1
  /\ down[c] # <<>> =>
       /\ down[c] = <<Encode(outcome[c])>>
       /\ outcome[c] \in Messages(Opcode) /\ Encode(outcome[c]) # NoBuffer
       /\ served[c] = 1
  /\ at[c] # "wait" => Copies(c) = {} /\ ~ Serving(c) /\ down[c] = <<>>
  /\ result[c] \notin {Nothing, Failed} =>
       /\ outcome[c] # Nothing
       /\ result[c] = StubResult(request[c], outcome[c])

(* It has a connection and has given up nothing on it. *)
Faithful(c) == at[c] # "away" /\ ~ aborted[c]

OwnInv == OwnTypes /\ \A c \in Client : Faithful(c) => OwnFor(c)

(* Who is not connected is not served. *)
LEMMA ServedIsHeld ==
  ASSUME CountInv, NEW c \in Client, ~ Held(c)
  PROVE  ~ Serving(c)
BY DEF CountInv, Held, Serving

(* What invoke answers is a message. *)
LEMMA AnswerIsMessage ==
  ASSUME TypeOK, TypeOK', NEW m \in StubRequests, InvokeChange(m) \/ InvokeRead(m)
  PROVE  answer' \in Messages(Opcode)
<1> DEFINE Contents == [ts : Nat, data : Data \cup {NoData}]
<1>1. \A op \in Opcode, n \in Int : ResultOrError(op, n) \in Messages(Opcode)
  BY DEF ResultOrError, ResultMessage, Messages, Opcode
<1>2. m.op \in Opcode
  BY StubMessages DEF Messages
<1>3. CASE InvokeChange(m)
  <2>1. reply'.ret \in Int
    BY DEF TypeOK, Replies
  <2> QED
    BY <1>1, <1>2, <1>3, <2>1 DEF InvokeChange
<1>4. CASE m.op \in {"OC_GET", "OC_RT_GETTS"} /\ answer' = ReadAnswer(m)
  <2>1. m.key \in Key
    BY <1>4 DEF StubRequests, KeyMessage, EntryMessage
  <2>2. TableGet(table, m.key) \in Contents
    BY <2>1, TableAssumption DEF TableGet, TypeOK, Tables, Slot, Value, Present
  <2>3. TableGetTs(table, m.key) \in Int
    BY <2>2 DEF TableGetTs
  <2>4. CASE m.op = "OC_GET"
    BY <1>2, <1>4, <2>2, <2>4 DEF ReadAnswer, ValueMessage, Messages
  <2>5. CASE m.op = "OC_RT_GETTS"
    BY <1>2, <1>4, <2>3, <2>5 DEF ReadAnswer, TimestampMessage, Messages
  <2> QED
    BY <1>4, <2>4, <2>5
<1>5. CASE m.op \in {"OC_SIZE", "OC_NUM_OPS"} /\ answer' = ReadAnswer(m)
  <2>1. table.size \in Int /\ table.nChanges \in Int
    BY DEF TypeOK, Tables
  <2> QED
    BY <1>1, <1>2, <1>5, <2>1 DEF ReadAnswer
<1> QED
  BY <1>3, <1>4, <1>5 DEF InvokeRead

(* Steps that bring the client nothing. *)
LEMMA OwnKept ==
  ASSUME NEW c \in Client, OwnFor(c), up'[c] \in {up[c], <<>>},
         UNCHANGED <<at[c], request[c], result[c], current[c], served[c], outcome[c],
                     down[c]>>,
         Serving(c)' => UNCHANGED <<pc, connections[index], frame, answer>>
  PROVE  OwnFor(c)'
<1>1. /\ Serving(c)' => Serving(c)
      /\ InHand(c) /\ Serving(c)' => InHand(c)'
      /\ Answering(c)' => Answering(c) /\ answer' = answer
  BY DEF Serving, InHand, Answering
<1>2. /\ Copies(c)' \subseteq Copies(c)
      /\ \A i \in 1 .. Len(up'[c]) : i \in 1 .. Len(up[c]) /\ up'[c][i] = up[c][i]
  BY DEF Copies
<1>3. pc' = "invoke" /\ connections'[index'] = c => InHand(c)'
  BY <1>1 DEF OwnFor, Serving
<1> QED
  BY <1>1, <1>2, <1>3 DEF OwnFor

(* Steps of the server that execute no request and answer none. *)
LEMMA OwnServer ==
  ASSUME OnceTypes, OwnInv, UNCHANGED <<down, stub, history>>,
         \A c \in Client : up'[c] \in {up[c], <<>>},
         pc' \notin {"invoke", "answer"}
  PROVE  OwnInv'
<1>1. OwnTypes'
  BY DEF OwnInv, OwnTypes, stub, history
<1>2. ASSUME NEW c \in Client, Faithful(c)'
      PROVE  OwnFor(c)'
  <2>1. Faithful(c) /\ ~ Serving(c)'
    BY <1>2 DEF Faithful, Serving, stub, history
  <2> QED
    BY <2>1, OwnKept DEF OwnInv, stub, history
<1> QED
  BY <1>1, <1>2 DEF OwnInv

(* Steps of one client are nothing to the others. *)
LEMMA OwnOthers ==
  ASSUME OwnInv, NEW d \in Client, UNCHANGED server, Faithful(d)',
         UNCHANGED <<up[d], at[d], request[d], result[d], current[d], served[d],
                     outcome[d], down[d], aborted[d]>>
  PROVE  OwnFor(d)'
<1>1. Faithful(d)
  BY DEF Faithful
<1>2. Serving(d)' => UNCHANGED <<pc, connections[index], frame, answer>>
  BY DEF server
<1> QED
  BY <1>1, <1>2, OwnKept DEF OwnInv

(* A call begins when nothing of an earlier one is left. *)
LEMMA OwnCall ==
  ASSUME CountInv, OnceInv, OwnInv, NEW c \in Client, NEW m \in Requests[c], Call(c, m)
  PROVE  OwnInv'
<1>1. /\ at[c] = "idle" /\ UNCHANGED <<server, up, down, aborted>>
      /\ \/ result' = [result EXCEPT ![c] = Failed] /\ UNCHANGED at
         \/ /\ result' = [result EXCEPT ![c] = Nothing]
            /\ at' = [at EXCEPT ![c] = "length"]
      /\ request' = [request EXCEPT ![c] = m]
      /\ current' = [current EXCEPT ![c] = calls + 1]
      /\ served' = [served EXCEPT ![c] = 0]
      /\ outcome' = [outcome EXCEPT ![c] = Nothing]
  BY DEF Call, network
<1>2. OnceTypes /\ OwnTypes
  BY DEF OnceInv, OwnInv
<1>3. OwnTypes'
  BY <1>1, <1>2 DEF OwnTypes, OnceTypes, server
<1>4. ASSUME NEW d \in Client \ {c}, Faithful(d)'
      PROVE  OwnFor(d)'
  <2>1. UNCHANGED <<up[d], at[d], request[d], result[d], current[d], served[d],
                    outcome[d], down[d], aborted[d]>>
    BY <1>1, <1>2 DEF OwnTypes, OnceTypes
  <2> QED
    BY <1>1, <1>4, <2>1, OwnOthers
<1>5. ASSUME Faithful(c)'
      PROVE  OwnFor(c)'
  <2>1. Faithful(c) /\ OwnFor(c)
    BY <1>1, <1>5 DEF Faithful, OwnInv
  <2>2. Copies(c) = {} /\ ~ Serving(c) /\ down[c] = <<>>
    BY <1>1, <2>1 DEF OwnFor
  <2>3. \A i \in 1 .. Len(up[c]) : up[c][i].part # "last"
    BY <2>1, <2>2 DEF OwnFor, Copies
  <2>4. ~ Serving(c)' /\ Copies(c)' = {}
    BY <1>1, <2>2, <2>3 DEF Serving, Copies, server
  <2>5. result'[c] \in {Nothing, Failed} /\ down'[c] = <<>>
    BY <1>1, <1>2, <2>2 DEF OwnTypes
  <2>6. ~ Answering(c)' /\ ~ (pc' = "invoke" /\ connections'[index'] = c)
    BY <2>4 DEF Serving, Answering
  <2> QED
    BY <1>1, <2>3, <2>4, <2>5, <2>6 DEF OwnFor
<1> QED
  BY <1>3, <1>4, <1>5 DEF OwnInv

(* A piece of the request is written, or the thread goes to reconnect. *)
LEMMA OwnWrite ==
  ASSUME OnceInv, OwnInv, NEW c \in Client, NEW p \in {"length", "first", "last"},
         NEW next \in {"body", "rest", "wait", "idle"},
         Writing(c), Write(c, p, next),
         p = "last" => next \in {"wait", "idle"},
         UNCHANGED <<server, request, current, served, outcome, down>>,
         \/ UNCHANGED <<result, aborted>> /\ at'[c] # "idle"
         \/ /\ result' = [result EXCEPT ![c] = Failed] /\ at'[c] = "idle"
            /\ aborted' = [aborted EXCEPT ![c] = TRUE]
  PROVE  OwnInv'
<1> DEFINE x == [part |-> p, call |-> current[c], buffer |-> Encode(request[c])]
<1>1. /\ \/ UNCHANGED up
         \/ up' = [up EXCEPT ![c] = Append(@, x)] /\ at' = [at EXCEPT ![c] = next]
      /\ \E n \in {next, "reconnect"} : at' = [at EXCEPT ![c] = n]
  BY DEF Write
<1>2. OnceTypes /\ OwnTypes
  BY DEF OnceInv, OwnInv
<1>3. OwnTypes'
  <2>1. aborted' \in [Client -> BOOLEAN] /\ DOMAIN result' = Client
    BY <1>2 DEF OwnTypes
  <2>2. ASSUME NEW d \in Client, at'[d] # "idle"
        PROVE  result'[d] = Nothing
    <3>1. CASE d = c
      BY <1>2, <2>2, <3>1 DEF OwnTypes, Writing
    <3>2. CASE d # c
      BY <1>1, <1>2, <2>2, <3>2 DEF OwnTypes, OnceTypes
    <3> QED
      BY <3>1, <3>2
  <2> QED
    BY <1>2, <2>1, <2>2 DEF OwnTypes, server
<1>4. ASSUME NEW d \in Client \ {c}, Faithful(d)'
      PROVE  OwnFor(d)'
  <2>1. up'[d] = up[d] /\ at'[d] = at[d]
    BY <1>1, <1>2 DEF OnceTypes
  <2>2. result'[d] = result[d] /\ aborted'[d] = aborted[d]
    BY <1>2 DEF OwnTypes
  <2> QED
    BY <1>4, <2>1, <2>2, OwnOthers
<1>5. ASSUME Faithful(c)'
      PROVE  OwnFor(c)'
  <2>1. /\ at'[c] # "idle" /\ UNCHANGED <<result, aborted>>
        /\ Faithful(c) /\ OwnFor(c) /\ result[c] = Nothing
    BY <1>2, <1>5 DEF Faithful, OwnInv, OwnTypes, Writing
  <2>2. Copies(c) = {} /\ ~ Serving(c) /\ down[c] = <<>>
    BY <2>1 DEF OwnFor, Writing
  <2>3. /\ ~ Serving(c)' /\ ~ Answering(c)'
        /\ ~ (pc' = "invoke" /\ connections'[index'] = c)
    BY <2>2 DEF Serving, Answering, server
  <2>4. CASE UNCHANGED up
    <3>1. Copies(c)' = {}
      BY <2>2, <2>4 DEF Copies
    <3> QED
      BY <2>1, <2>2, <2>3, <2>4, <3>1 DEF OwnFor
  <2>5. CASE up' = [up EXCEPT ![c] = Append(@, x)] /\ at' = [at EXCEPT ![c] = next]
    <3>1. /\ up[c] \in Seq(Pieces) /\ up'[c] = Append(up[c], x) /\ at'[c] = next
          /\ x.part = p /\ x.call = current[c]
      BY <1>2, <2>5 DEF OnceTypes
    <3> HIDE DEF x
    <3>2. \A i \in 1 .. Len(up'[c]) :
            (i \in 1 .. Len(up[c]) /\ up'[c][i] = up[c][i]) \/ up'[c][i] = x
      BY <3>1, AppendProperties
    <3>3. \A i \in 1 .. Len(up'[c]) : up'[c][i].part = "last" => up'[c][i].call = current[c]
      BY <2>1, <3>1, <3>2 DEF OwnFor
    <3>4. at'[c] # "wait" => Copies(c)' = {}
      <4> SUFFICES ASSUME at'[c] # "wait"
                   PROVE  Copies(c)' = {}
        OBVIOUS
      <4>1. p # "last"
        BY <2>1, <3>1
      <4> QED
        BY <2>2, <3>1, <3>2, <4>1 DEF Copies
    <3> QED
      BY <2>1, <2>2, <2>3, <3>3, <3>4 DEF OwnFor
  <2> QED
    BY <1>1, <2>4, <2>5
<1> QED
  BY <1>3, <1>4, <1>5 DEF OwnInv

(* A new connection. *)
LEMMA OwnOpen ==
  ASSUME CountInv, OnceTypes, LinkInv, OwnInv, NEW c \in Client, Bind(c) \/ Reconnect(c)
  PROVE  OwnInv'
<1>1. /\ up' = [up EXCEPT ![c] = <<>>] /\ down' = [down EXCEPT ![c] = <<>>]
      /\ UNCHANGED <<server, request, result, current, served, outcome, aborted>>
      /\ \E x \in {"idle", "length"} : at' = [at EXCEPT ![c] = x]
      /\ at[c] # "idle"
  BY DEF Bind, Reconnect, Open, history
<1>2. ~ Serving(c)
  <2>1. ~ Held(c)
    BY DEF Bind, Reconnect, Held, LinkInv
  <2> QED
    BY <2>1, ServedIsHeld
<1>3. OwnTypes /\ result[c] = Nothing
  BY <1>1 DEF OwnInv, OwnTypes
<1>4. OwnTypes'
  BY <1>1, <1>3 DEF OwnTypes, OnceTypes, server
<1>5. ASSUME NEW d \in Client \ {c}, Faithful(d)'
      PROVE  OwnFor(d)'
  <2>1. up'[d] = up[d] /\ at'[d] = at[d] /\ down'[d] = down[d]
    BY <1>1, <1>3 DEF OnceTypes, OwnTypes
  <2> QED
    BY <1>1, <1>5, <2>1, OwnOthers
<1>6. OwnFor(c)'
  <2>1. up'[c] = <<>> /\ down'[c] = <<>> /\ result'[c] = Nothing
    BY <1>1, <1>3 DEF OnceTypes, OwnTypes
  <2>2. /\ ~ Serving(c)' /\ ~ Answering(c)' /\ Copies(c)' = {}
        /\ ~ (pc' = "invoke" /\ connections'[index'] = c)
    BY <1>1, <1>2, <2>1 DEF Serving, Answering, Copies, server
  <2> QED
    BY <2>1, <2>2 DEF OwnFor
<1> QED
  BY <1>4, <1>5, <1>6 DEF OwnInv

(* A client leaves. *)
LEMMA OwnLeave ==
  ASSUME OnceTypes, OwnInv, NEW c \in Client, Leave(c)
  PROVE  OwnInv'
<1>1. OwnTypes'
  BY DEF OwnInv, OwnTypes, OnceTypes, Leave, server
<1>2. ASSUME NEW d \in Client, Faithful(d)'
      PROVE  OwnFor(d)'
  <2>1. d # c
    BY <1>2 DEF Faithful, Leave, OnceTypes
  <2>2. UNCHANGED <<up[d], at[d], request[d], result[d], current[d], served[d],
                    outcome[d], down[d], aborted[d], server>>
    BY <2>1 DEF OwnInv, OwnTypes, OnceTypes, Leave
  <2> QED
    BY <1>2, <2>2, OwnOthers
<1> QED
  BY <1>1, <1>2 DEF OwnInv

(* A call returns the answer that came, which is the outcome, or fails. *)
LEMMA OwnReceive ==
  ASSUME CountInv, OnceInv, LinkInv, OwnInv, NEW c \in Client,
         Receive(c) \/ ReceiveFails(c)
  PROVE  OwnInv'
<1>1. /\ at[c] = "wait" /\ at' = [at EXCEPT ![c] = "idle"]
      /\ UNCHANGED <<server, up, request, current, served, outcome, aborted>>
  BY DEF Receive, ReceiveFails, history
<1>2. \E x, y : result' = [result EXCEPT ![c] = x] /\ down' = [down EXCEPT ![c] = y]
  BY DEF Receive, ReceiveFails
<1>3. OnceTypes /\ OwnTypes
  BY DEF OnceInv, OwnInv
<1>4. OwnTypes'
  BY <1>1, <1>2, <1>3 DEF OwnTypes, OnceTypes, server
<1>5. ASSUME NEW d \in Client \ {c}, Faithful(d)'
      PROVE  OwnFor(d)'
  <2>1. at'[d] = at[d] /\ result'[d] = result[d] /\ down'[d] = down[d]
    BY <1>1, <1>2, <1>3 DEF OwnTypes, OnceTypes
  <2> QED
    BY <1>1, <1>5, <2>1, OwnOthers
<1>6. ASSUME Faithful(c)'
      PROVE  OwnFor(c)'
  <2>1. Faithful(c) /\ OwnFor(c) /\ OnceFor(c)
    BY <1>1, <1>6 DEF Faithful, OwnInv, OnceInv
  <2>2. CASE Receive(c)
    <3>1. /\ down[c] = <<Encode(outcome[c])>>
          /\ outcome[c] \in Messages(Opcode) /\ Encode(outcome[c]) # NoBuffer
          /\ served[c] = 1
      BY <2>1, <2>2 DEF OwnFor, Receive
    <3>2. Decode(Head(down[c])) = outcome[c] /\ Tail(down[c]) = <<>>
      BY <3>1, RoundTrip
    <3>3. /\ result'[c] = StubResult(request'[c], outcome'[c])
          /\ outcome'[c] # Nothing /\ down'[c] = <<>>
      BY <1>1, <1>3, <2>2, <3>1, <3>2, LoopAssumption DEF Receive, OwnTypes
    <3>4. Copies(c) = {} /\ ~ InHand(c) /\ ~ Answering(c)
      BY <2>1, <3>1 DEF OnceFor, OwnFor
    <3>5. ~ Serving(c)
      BY <2>1, <3>4 DEF Serving, Answering, OwnFor
    <3> QED
      BY <1>1, <2>1, <3>3, <3>4, <3>5 DEF OwnFor, Serving, Answering, Copies, server
  <2>3. CASE ReceiveFails(c)
    <3>1. up[c] = <<>> /\ ~ Serving(c)
      BY <2>3, ServedIsHeld DEF ReceiveFails, LinkInv
    <3>2. down'[c] = <<>> /\ result'[c] = Failed
      BY <1>3, <2>3 DEF ReceiveFails, OwnTypes
    <3> QED
      BY <1>1, <3>1, <3>2 DEF OwnFor, Serving, Answering, Copies, server
  <2> QED
    BY <2>2, <2>3
<1> QED
  BY <1>4, <1>5, <1>6 DEF OwnInv

(* The server reads on: a whole request is one of the present call. *)
LEMMA OwnRead ==
  ASSUME OnceInv, OwnInv, Read, NEW r \in Client, r = Reading
  PROVE  OwnInv'
<1> DEFINE h == Head(up[r])
<1>1. /\ up' = [up EXCEPT ![r] = Tail(@)] /\ up[r] # <<>>
      /\ pc \in {"length", "body"}
      /\ UNCHANGED <<down, stub, history, connections, index, answer>>
      /\ \/ h.part = "last" /\ pc' = "invoke" /\ frame'.call = h.call
         \/ h.part # "last" /\ pc' = "body"
  BY DEF Read
<1>2. OnceTypes /\ OwnTypes
  BY DEF OnceInv, OwnInv
<1>3. up[r] \in Seq(Pieces)
  BY <1>2 DEF OnceTypes
<1>4. /\ 1 \in 1 .. Len(up[r]) /\ h = up[r][1]
      /\ \A i \in 1 .. Len(Tail(up[r])) :
           i + 1 \in 1 .. Len(up[r]) /\ Tail(up[r])[i] = up[r][i + 1]
  BY <1>1, <1>3
<1> HIDE DEF h
<1>5. OwnTypes'
  BY <1>1, <1>2 DEF OwnTypes, stub, history
<1>6. \A d \in Client : ~ Serving(d) /\ (Serving(d)' => d = r)
  BY <1>1 DEF Serving, Reading
<1>7. ASSUME NEW d \in Client \ {r}, Faithful(d)'
      PROVE  OwnFor(d)'
  <2>1. up'[d] = up[d] /\ ~ Serving(d)'
    BY <1>1, <1>2, <1>6 DEF OnceTypes
  <2>2. Faithful(d) /\ OwnFor(d)
    BY <1>1, <1>7 DEF Faithful, OwnInv, stub, history
  <2> QED
    BY <1>1, <2>1, <2>2, OwnKept DEF stub, history
<1>8. ASSUME Faithful(r)'
      PROVE  OwnFor(r)'
  <2>1. Faithful(r) /\ OwnFor(r)
    BY <1>1, <1>8 DEF Faithful, OwnInv, stub, history
  <2>2. /\ up'[r] = Tail(up[r])
        /\ UNCHANGED <<at, request, result, current, served, outcome, down>>
    BY <1>1, <1>2 DEF OnceTypes, stub, history
  <2>3. \A i \in 1 .. Len(up'[r]) : up'[r][i].part = "last" => up'[r][i].call = current[r]
    BY <1>4, <2>1, <2>2 DEF OwnFor
  <2>4. h.part = "last" => h.call = current[r] /\ 1 \in Copies(r)
    BY <1>4, <2>1 DEF OwnFor, Copies
  <2>5. pc' = "invoke" => InHand(r)' /\ 1 \in Copies(r)
    BY <1>1, <2>2, <2>4 DEF InHand, Reading
  <2>6. Copies(r)' # {} => Copies(r) # {}
    BY <1>4, <2>2 DEF Copies
  <2>7. at[r] # "wait" => pc' # "invoke" /\ Copies(r)' = {} /\ down[r] = <<>>
    BY <2>1, <2>5, <2>6 DEF OwnFor
  <2>8. pc' # "answer" /\ ~ Answering(r)'
    BY <1>1 DEF Answering
  <2>9. pc' # "invoke" => ~ Serving(r)'
    BY <2>8 DEF Serving
  <2> QED
    BY <2>1, <2>2, <2>3, <2>5, <2>7, <2>8, <2>9 DEF OwnFor
<1> QED
  BY <1>5, <1>7, <1>8 DEF OwnInv

(* The request is executed, and the answer is the outcome of the call. *)
LEMMA OwnInvoke ==
  ASSUME CountInv, OnceInv, SendInv, OwnInv, TypeOK, TypeOK', Invoke
  PROVE  OwnInv'
<1> DEFINE r == Reading
<1>1. /\ pc = "invoke" /\ pc' = "answer"
      /\ UNCHANGED <<up, down, stub, connections, index, current, aborted>>
      /\ IF frame.call = current[r] /\ at[r] # "away"
         THEN /\ served' = [served EXCEPT ![r] = @ + 1]
              /\ outcome' = [outcome EXCEPT ![r] = answer']
         ELSE UNCHANGED <<served, outcome>>
  BY DEF Invoke, network, Alive
<1>2. r \in Client /\ r = connections[index]
  BY <1>1 DEF CountInv, Reading
<1>3. answer' \in Messages(Opcode)
  <2>1. PICK m \in StubRequests : InvokeChange(m) \/ InvokeRead(m)
    BY RequestDecoded DEF SendInv, Invoke
  <2> QED
    BY <2>1, AnswerIsMessage
<1>4. OnceTypes /\ OwnTypes
  BY DEF OnceInv, OwnInv
<1> HIDE DEF r
<1>5. OwnTypes'
  BY <1>1, <1>3, <1>4 DEF OwnTypes, stub
<1>6. ASSUME NEW d \in Client, Faithful(d)'
      PROVE  OwnFor(d)'
  <2>1. Faithful(d) /\ OwnFor(d) /\ OnceFor(d)
    BY <1>1, <1>6 DEF Faithful, OwnInv, OnceInv, stub
  <2>2. CASE d # r
    <3>1. ~ Serving(d)'
      BY <1>1, <1>2, <2>2 DEF Serving
    <3>2. served'[d] = served[d] /\ outcome'[d] = outcome[d]
      BY <1>1, <1>4, <2>2 DEF OnceTypes, OwnTypes
    <3> QED
      BY <1>1, <2>1, <3>1, <3>2, OwnKept DEF stub
  <2>3. CASE d = r
    <3>1. InHand(d) /\ at[d] = "wait"
      BY <1>1, <1>2, <2>1, <2>3 DEF OwnFor, Serving
    <3>2. Copies(d) = {} /\ served[d] = 0
      BY <2>1, <3>1 DEF OnceFor
    <3>3. down[d] = <<>> /\ result[d] = Nothing
      BY <1>4, <2>1, <3>1, <3>2 DEF OwnFor, OwnTypes
    <3>4. served'[d] = 1 /\ outcome'[d] = answer'
      BY <1>1, <1>4, <2>3, <3>1, <3>2 DEF InHand, OnceTypes, OwnTypes
    <3>5. UNCHANGED <<at, request, result>>
      BY <1>1 DEF stub
    <3> QED
      BY <1>1, <2>1, <3>1, <3>2, <3>3, <3>4, <3>5 DEF OwnFor, Copies
  <2> QED
    BY <2>2, <2>3
<1> QED
  BY <1>5, <1>6 DEF OwnInv

(* The answer is written. *)
LEMMA OwnAnswer ==
  ASSUME CountInv, OnceInv, OwnInv, WriteAnswer
  PROVE  OwnInv'
<1> DEFINE r == Reading
<1>1. /\ pc = "answer" /\ pc' = "scan"
      /\ UNCHANGED <<up, stub, history>>
      /\ \/ UNCHANGED down
         \/ /\ Encode(answer) # NoBuffer
            /\ down' = [down EXCEPT ![r] = Append(@, Encode(answer))]
  BY DEF WriteAnswer
<1>2. r \in Client /\ r = connections[index]
  BY <1>1 DEF CountInv, Reading
<1>3. OnceTypes /\ OwnTypes
  BY DEF OnceInv, OwnInv
<1> HIDE DEF r
<1>4. OwnTypes'
  BY <1>1, <1>3 DEF OwnTypes, stub, history
<1>5. ASSUME NEW d \in Client, Faithful(d)'
      PROVE  OwnFor(d)'
  <2>1. Faithful(d) /\ OwnFor(d) /\ OnceFor(d)
    BY <1>1, <1>5 DEF Faithful, OwnInv, OnceInv, stub, history
  <2>2. ~ Serving(d)'
    BY <1>1 DEF Serving
  <2>3. CASE down'[d] = down[d]
    BY <1>1, <2>1, <2>2, <2>3, OwnKept DEF stub, history
  <2>4. CASE d = r /\ Encode(answer) # NoBuffer /\ down'[d] = Append(down[d], Encode(answer))
    <3>1. Answering(d) /\ at[d] = "wait"
      BY <1>1, <1>2, <2>1, <2>4 DEF Answering, Serving, OwnFor
    <3>2. /\ outcome[d] = answer /\ down[d] = <<>> /\ served[d] = 1
          /\ answer \in Messages(Opcode)
      BY <1>1, <1>3, <2>1, <3>1 DEF OwnFor, OwnTypes
    <3>3. down'[d] = <<Encode(outcome[d])>>
      BY <2>4, <3>2
    <3>4. /\ pc' # "invoke" /\ ~ Answering(d)'
          /\ UNCHANGED <<at, request, result, current, served, outcome>>
      BY <1>1 DEF Answering, stub, history
    <3> QED
      BY <1>1, <2>1, <2>4, <3>1, <3>2, <3>3, <3>4 DEF OwnFor
  <2> QED
    BY <1>1, <1>3, <2>3, <2>4 DEF OwnTypes
<1> QED
  BY <1>4, <1>5 DEF OwnInv

(***************************************************************************)
(* What a call returns is what invoke answered to that very call, or a     *)
(* failure, for any number of clients, connections, calls and crashes: the *)
(* socket of a client that has given up no request never holds an answer   *)
(* of an earlier call.                                                     *)
(***************************************************************************)
THEOREM OwnAnswers == LoopSpec => []AnswersAreOwn
<1>1. LoopInit => OwnInv
  BY DEF LoopInit, OwnInv, OwnTypes, Faithful
<1>2. /\ CountInv /\ OnceInv /\ SendInv /\ LinkInv /\ OwnInv
      /\ TypeOK /\ TypeOK' /\ [LoopNext]_loopVars
      => OwnInv'
  <2> SUFFICES ASSUME CountInv, OnceInv, OnceTypes, SendInv, LinkInv, OwnInv,
                      TypeOK, TypeOK', [LoopNext]_loopVars
               PROVE  OwnInv'
    BY DEF OnceInv
  <2>1. CASE Poll \/ Accept \/ EndScan \/ StartRead \/ Restart
    <3>1. UNCHANGED <<up, down, stub, history>> /\ pc' \notin {"invoke", "answer"}
      BY <2>1 DEF Poll, Accept, EndScan, StartRead, Restart, network
    <3> QED
      BY <3>1, OwnServer
  <2>2. CASE HangUp \/ ReadEnd
    <3>1. \E i \in Index \cup {index} : CloseAt(i)
      BY <2>2 DEF HangUp, ReadEnd
    <3>2. UNCHANGED <<down, stub, history>> /\ pc' = "scan"
      BY <2>2, <3>1 DEF HangUp, ReadEnd, CloseAt
    <3>3. PICK c : up' = [up EXCEPT ![c] = <<>>]
      BY <3>1 DEF CloseAt
    <3>4. \A d \in Client : up'[d] \in {up[d], <<>>}
      BY <3>3 DEF OnceTypes
    <3> QED
      BY <3>2, <3>4, OwnServer
  <2>3. CASE Crash
    <3>1. /\ UNCHANGED <<down, stub, history>> /\ pc' = "down"
          /\ up' = [c \in Client |-> <<>>]
      BY <2>3 DEF Crash
    <3> QED
      BY <3>1, OwnServer
  <2>4. CASE Read
    <3>1. PICK r \in Client : r = Reading
      BY <2>4 DEF Read, CountInv, Reading
    <3> QED
      BY <2>4, <3>1, OwnRead
  <2>5. CASE Invoke
    BY <2>5, OwnInvoke
  <2>6. CASE WriteAnswer
    BY <2>6, OwnAnswer
  <2>7. ASSUME NEW c \in Client, Bind(c) \/ Reconnect(c)
        PROVE  OwnInv'
    BY <2>7, OwnOpen
  <2>8. ASSUME NEW c \in Client, Leave(c)
        PROVE  OwnInv'
    BY <2>8, OwnLeave
  <2>9. ASSUME NEW c \in Client, NEW m \in Requests[c], Call(c, m)
        PROVE  OwnInv'
    BY <2>9, OwnCall
  <2>10. ASSUME NEW c \in Client, Receive(c) \/ ReceiveFails(c)
         PROVE  OwnInv'
    BY <2>10, OwnReceive
  <2>11. ASSUME NEW c \in Client, WriteLength(c) \/ WritePart(c) \/ WriteBody(c)
         PROVE  OwnInv'
    <3>1. /\ \/ Write(c, "length", "body") \/ Write(c, "first", "rest")
             \/ Write(c, "last", "wait")
          /\ Writing(c)
          /\ UNCHANGED <<server, request, current, served, outcome, down, result, aborted>>
      BY <2>11 DEF WriteLength, WritePart, WriteBody, Writing, history
    <3>2. at'[c] # "idle"
      BY <3>1 DEF Write, OnceTypes
    <3> QED
      BY <3>1, <3>2, OwnWrite
  <2>12. ASSUME NEW c \in Client, WriteRest(c)
         PROVE  OwnInv'
    <3>1. /\ Write(c, "last", "idle") /\ Writing(c)
          /\ UNCHANGED <<server, request, current, served, outcome, down>>
          /\ \/ UNCHANGED <<result, aborted>> /\ at'[c] # "idle"
             \/ /\ result' = [result EXCEPT ![c] = Failed] /\ at'[c] = "idle"
                /\ aborted' = [aborted EXCEPT ![c] = TRUE]
      BY <2>12 DEF WriteRest, Writing
    <3> QED
      BY <3>1, OwnWrite
  <2>13. CASE UNCHANGED loopVars
    <3>1. UNCHANGED <<up, down, stub, history, server>>
      BY <2>13 DEF loopVars, network
    <3>2. OwnTypes'
      BY <3>1 DEF OwnInv, OwnTypes, stub, history, server
    <3>3. ASSUME NEW c \in Client, Faithful(c)'
          PROVE  OwnFor(c)'
      BY <3>1, <3>3, OwnOthers DEF stub, history
    <3> QED
      BY <3>2, <3>3 DEF OwnInv
  <2> QED
    BY <2>1, <2>2, <2>3, <2>4, <2>5, <2>6, <2>7, <2>8, <2>9, <2>10, <2>11, <2>12,
       <2>13 DEF LoopNext, ServerStep, ClientStep
<1>3. OwnInv => AnswersAreOwn
  BY DEF OwnInv, OwnTypes, OwnFor, Faithful, AnswersAreOwn
<1> QED
  BY <1>1, <1>2, <1>3, CountHolds, OnceHolds, SendHolds, LinkHolds, TableBehindLoop, PTL
     DEF LoopSpec

=============================================================================
