----------------------------- MODULE ServerLoop -----------------------------
(***************************************************************************)
(* The loop of table_server.c and the remote calls it answers: from the    *)
(* stub (client_stub.c) through network_send_receive, the framing          *)
(* (communication.c) and the codec to invoke (table_skel.c), and back.     *)
(*                                                                         *)
(* One connection per client thread.  The socket to the server is the      *)
(* sequence of pieces written and not yet read; a frame is its length and  *)
(* its body, and the body may arrive in two pieces.  The table is that of  *)
(* module Table, whose actions are the requests that change it.            *)
(*                                                                         *)
(* A server that dies comes back with its table (PersistentTable) and      *)
(* without its connections.  revents is memory nobody initialises: it      *)
(* starts with anything in it, and where poll does not look it stays.      *)
(***************************************************************************)
EXTENDS Table, MessageCodec, Sequences

CONSTANTS
  Client,      \* the client threads, one connection each at a time
  Requests,    \* Requests[c]: the messages the stub of c may be asked to send
  Closed,      \* fd = -1
  Nothing,     \* no result, no answer
  Failed,      \* the -1 or NULL of a stub that got no reply
  Junk,        \* what uninitialised revents may hold
  MAXLIG,      \* length of the array of connections
  MaxCalls,    \* bound on the calls
  MaxEvents    \* bound on the clients that come, crashes and cut writes together

(* OC_RT_ERROR only answers. *)
Opcode == {"OC_PUT", "OC_UPDATE", "OC_DEL", "OC_GET", "OC_RT_GETTS",
           "OC_SIZE", "OC_NUM_OPS", "OC_RT_ERROR"}

(* The requests the functions of the stub can make.  A request for a count *)
(* has its result field as malloc left it.                                 *)
StubRequests ==
  {EntryMessage("OC_PUT", k, v) : k \in Key, v \in PutValue}
  \cup {EntryMessage("OC_UPDATE", k, v) : k \in Key, v \in Value}
  \cup {KeyMessage(op, k) : op \in {"OC_DEL", "OC_GET", "OC_RT_GETTS"}, k \in Key}
  \cup [op : {"OC_SIZE", "OC_NUM_OPS"}, type : {"CT_RESULT"}, result : Int]

ASSUME LoopAssumption ==
  /\ Closed \notin Client
  /\ \A c \in Client : Requests[c] \subseteq StubRequests
  /\ Nothing \notin Messages(Opcode)
  /\ MAXLIG \in Nat /\ MAXLIG > 1
  /\ MaxCalls \in 0 .. MaxDels /\ MaxCalls < MaxChanges
  /\ MaxEvents \in Nat
  /\ Junk \subseteq {"none", "in", "hup"}

VARIABLES
  pc,           \* where the server is
  connections,  \* connections[i].fd: whose connection it is
  revents,      \* connections[i].revents
  numSockets,
  index,        \* i
  frame,        \* the request read last
  answer,       \* resposta
  link,         \* the state of each client's socket
  backlog,      \* connections made and not accepted yet
  up, down,     \* what is under way to and from the server
  at,           \* where each client's thread is
  request,      \* what it was asked to send
  result,       \* what its last call returned
  calls, events,
  current,      \* the number of its call (history)
  sent,         \* has it written its request to the last byte? (history)
  served,       \* how often that was executed (history)
  outcome,      \* what invoke answered (history)
  aborted       \* has it left a call without its answer? (history)

server == <<pc, connections, revents, numSockets, index, frame, answer>>
network == <<link, backlog, up, down>>
stub == <<at, request, result>>
bounds == <<calls, events>>
history == <<current, sent, served, outcome, aborted>>

loopVars == <<vars, server, network, stub, bounds, history>>

Index == 1 .. MAXLIG - 1

Events == {"none", "in", "hup"}

Idle == [call |-> 0, buffer |-> NoBuffer]

LoopInit ==
  /\ Init
  /\ pc = "poll"
  /\ connections = [i \in Index |-> Closed]
  /\ revents \in [Index -> Junk]
  /\ numSockets = 1
  /\ index = 1
  /\ frame = Idle /\ answer = Nothing
  /\ link = [c \in Client |-> "none"] /\ backlog = <<>>
  /\ up = [c \in Client |-> <<>>] /\ down = [c \in Client |-> <<>>]
  /\ at = [c \in Client |-> "away"]
  /\ request = [c \in Client |-> Nothing]
  /\ result = [c \in Client |-> Nothing]
  /\ calls = 0 /\ events = 0
  /\ current = [c \in Client |-> 0]
  /\ sent = [c \in Client |-> FALSE]
  /\ served = [c \in Client |-> 0]
  /\ outcome = [c \in Client |-> Nothing]
  /\ aborted = [c \in Client |-> FALSE]

-----------------------------------------------------------------------------
(* The client: client_stub.c and network_client.c.                         *)

Alive(c) == at[c] # "away"

Reaches(c) == link[c] \in {"backlog", "up"}

(* connect: the kernel takes the connection before accept does.            *)
Open(c) ==
  /\ pc # "down"
  /\ link' = [link EXCEPT ![c] = "backlog"]
  /\ backlog' = Append(backlog, c)
  /\ up' = [up EXCEPT ![c] = <<>>]
  /\ down' = [down EXCEPT ![c] = <<>>]

(* rtable_bind, by a new thread once nothing is left of the old one.       *)
Bind(c) ==
  /\ at[c] = "away" /\ events < MaxEvents
  /\ \A i \in Index : connections[i] # c
  /\ \A i \in 1 .. Len(backlog) : backlog[i] # c
  /\ events' = events + 1
  /\ Open(c)
  /\ at' = [at EXCEPT ![c] = "idle"]
  /\ UNCHANGED <<vars, server, request, result, calls, history>>

(* A function of the stub is called.  A request that cannot be encoded     *)
(* fails at once.                                                          *)
Call(c, m) ==
  /\ at[c] = "idle" /\ calls < MaxCalls
  /\ calls' = calls + 1
  /\ request' = [request EXCEPT ![c] = m]
  /\ IF Encode(m) = NoBuffer
     THEN result' = [result EXCEPT ![c] = Failed] /\ UNCHANGED at
     ELSE result' = [result EXCEPT ![c] = Nothing]
          /\ at' = [at EXCEPT ![c] = "length"]
  /\ current' = [current EXCEPT ![c] = calls + 1]
  /\ sent' = [sent EXCEPT ![c] = FALSE]
  /\ served' = [served EXCEPT ![c] = 0]
  /\ outcome' = [outcome EXCEPT ![c] = Nothing]
  /\ UNCHANGED <<vars, server, network, events, aborted>>

(* A write.  On a connection the server has closed it may seem to succeed; *)
(* when it fails, network_send_receive reconnects for ever.                *)
Write(c, piece, next) ==
  \/ /\ Reaches(c)
     /\ up' = [up EXCEPT ![c] = Append(@, [part |-> piece, call |-> current[c],
                                          buffer |-> Encode(request[c])])]
     /\ at' = [at EXCEPT ![c] = next]
  \/ /\ link[c] = "broken"
     /\ at' \in {[at EXCEPT ![c] = next], [at EXCEPT ![c] = "reconnect"]}
     /\ UNCHANGED up

WriteLength(c) ==
  /\ at[c] = "length"
  /\ Write(c, "length", "body")
  /\ UNCHANGED <<vars, server, link, backlog, down, request, result, bounds,
                 history>>

WriteBody(c) ==
  /\ at[c] = "body"
  /\ Write(c, "last", "wait")
  /\ sent' = [sent EXCEPT ![c] = TRUE]
  /\ UNCHANGED <<vars, server, link, backlog, down, request, result, bounds,
                 current, served, outcome, aborted>>

(* The kernel takes only a part of the body, so that write_all writes      *)
(* again ...                                                               *)
WritePart(c) ==
  /\ at[c] = "body" /\ events < MaxEvents
  /\ events' = events + 1
  /\ Write(c, "first", "rest")
  /\ UNCHANGED <<vars, server, link, backlog, down, request, result, calls,
                 history>>

(* ... and returns the size of the last part only.  The caller takes that  *)
(* for a failure and gives up a request that was sent.                     *)
WriteRest(c) ==
  /\ at[c] = "rest"
  /\ Write(c, "last", "idle")
  /\ sent' = [sent EXCEPT ![c] = TRUE]
  /\ IF at'[c] = "idle"
     THEN /\ result' = [result EXCEPT ![c] = Failed]
          /\ aborted' = [aborted EXCEPT ![c] = TRUE]
     ELSE UNCHANGED <<result, aborted>>
  /\ UNCHANGED <<vars, server, link, backlog, down, request, bounds, current,
                 served, outcome>>

(* What the stub returns for a reply.  rable_update and rtable_del do not  *)
(* look into it; the others read a member of the union, whatever it holds. *)
StubResult(m, reply_) ==
  LET Member(f) == IF f \in DOMAIN reply_ THEN reply_[f] ELSE Garbage
  IN  CASE m.op \in {"OC_UPDATE", "OC_DEL"} -> 0
        [] m.op = "OC_GET" -> Member("value")
        [] m.op = "OC_RT_GETTS" -> Member("timestamp")
        [] OTHER -> Member("result")

Receive(c) ==
  /\ at[c] = "wait" /\ down[c] # <<>>
  /\ down' = [down EXCEPT ![c] = Tail(@)]
  /\ result' = [result EXCEPT ![c] = StubResult(request[c], Decode(Head(down[c])))]
  /\ at' = [at EXCEPT ![c] = "idle"]
  /\ UNCHANGED <<vars, server, link, backlog, up, request, bounds, history>>

(* Mutant of ReceiveFails: the request is sent again.                      *)
ReceiveFailsResends(c) ==
  /\ at[c] = "wait" /\ link[c] = "broken"
  /\ at' = [at EXCEPT ![c] = "reconnect"]
  /\ UNCHANGED <<vars, server, network, request, result, bounds, history>>

(* Mutant of ReceiveFails: nbytes is not looked at.                        *)
ReceiveFailsUnchecked(c) ==
  /\ at[c] = "wait" /\ link[c] = "broken"
  /\ down' = [down EXCEPT ![c] = <<>>]
  /\ result' = [result EXCEPT ![c] = Garbage]
  /\ at' = [at EXCEPT ![c] = "idle"]
  /\ UNCHANGED <<vars, server, link, backlog, up, request, bounds, history>>

(* The server closed the connection: read returns 0 or an error, and an    *)
(* answer that was still on its way is thrown away with the connection.    *)
ReceiveFails(c) ==
  /\ at[c] = "wait" /\ link[c] = "broken"
  /\ down' = [down EXCEPT ![c] = <<>>]
  /\ result' = [result EXCEPT ![c] = Failed]
  /\ at' = [at EXCEPT ![c] = "idle"]
  /\ UNCHANGED <<vars, server, link, backlog, up, request, bounds, history>>

(* reconnect, until the server is there; then all is written again.        *)
Reconnect(c) ==
  /\ at[c] = "reconnect"
  /\ Open(c)
  /\ at' = [at EXCEPT ![c] = "length"]
  /\ sent' = [sent EXCEPT ![c] = FALSE]
  /\ UNCHANGED <<vars, server, request, result, bounds, current, served,
                 outcome, aborted>>

(* rtable_unbind, or the client process ends in the middle of a call.      *)
Leave(c) ==
  /\ Alive(c)
  /\ at' = [at EXCEPT ![c] = "away"]
  /\ request' = [request EXCEPT ![c] = Nothing]
  /\ result' = [result EXCEPT ![c] = Nothing]
  /\ current' = [current EXCEPT ![c] = 0]
  /\ sent' = [sent EXCEPT ![c] = FALSE]
  /\ served' = [served EXCEPT ![c] = 0]
  /\ aborted' = [aborted EXCEPT ![c] = FALSE]
  /\ outcome' = [outcome EXCEPT ![c] = Nothing]
  /\ link' = [link EXCEPT ![c] = IF Reaches(c) THEN "closed" ELSE @]
  /\ down' = [down EXCEPT ![c] = <<>>]
  /\ UNCHANGED <<vars, server, backlog, up, bounds>>

-----------------------------------------------------------------------------
(* The server: table_server.c.                                             *)

(* What poll says of the connection of c.                                  *)
EventsOf(c) ==
  IF up[c] # <<>> THEN {"in"}
  ELSE IF link[c] = "closed" THEN {"in", "hup"} ELSE {"none"}

(* poll looks at the first numSockets entries of the array, the listening  *)
(* socket and these, wherever the connections are.                         *)
Polled == 1 .. numSockets - 1

(* ret counts the listening socket and the entries that get an event.      *)
Poll ==
  /\ pc = "poll"
  /\ revents' \in [Index -> Events]
  /\ \A i \in Index :
       IF i \notin Polled THEN revents'[i] = revents[i]
       ELSE IF connections[i] = Closed THEN revents'[i] = "none"
       ELSE revents'[i] \in EventsOf(connections[i])
  /\ backlog # <<>> \/ \E i \in Polled : revents'[i] # "none"
  /\ pc' = IF backlog # <<>> /\ numSockets < MAXLIG THEN "accept" ELSE "scan"
  /\ UNCHANGED <<vars, connections, numSockets, index, frame, answer, network,
                 stub, bounds, history>>

(* procuraIndiceLivre returns i: the first free index, or 1.               *)
FreeIndex(i) ==
  /\ \A j \in 1 .. i - 1 : connections[j] # Closed
  /\ connections[i] = Closed \/ (i = 1 /\ \A j \in Index : connections[j] # Closed)

(* Nothing is scanned when the listening socket was the only event.  The   *)
(* entry taken keeps its old revents.                                      *)
Accept ==
  /\ pc = "accept"
  /\ \E i \in Index :
       FreeIndex(i) /\ connections' = [connections EXCEPT ![i] = Head(backlog)]
  /\ link' = [link EXCEPT ![Head(backlog)] =
                IF @ = "backlog" THEN "up" ELSE @]
  /\ backlog' = Tail(backlog)
  /\ numSockets' = numSockets + 1
  /\ pc' = IF \E i \in Polled : revents[i] # "none" THEN "scan" ELSE "poll"
  /\ UNCHANGED <<vars, revents, index, frame, answer, up, down, stub, bounds,
                 history>>

(* Mutant of Flagged: the loop goes on behind index.                       *)
FlaggedBehind ==
  {i \in Index : i > index /\ connections[i] # Closed /\ revents[i] # "none"}

(* The entries from index on that the loop will stop at.                   *)
Flagged ==
  {i \in Index : i >= index /\ connections[i] # Closed /\ revents[i] # "none"}

First(i) == i \in Flagged /\ \A j \in Flagged : i <= j

EndScan ==
  /\ pc = "scan" /\ Flagged = {}
  /\ pc' = "poll" /\ index' = 1
  /\ UNCHANGED <<vars, connections, revents, numSockets, frame, answer, network,
                 stub, bounds, history>>

(* POLLIN: the server starts to read, and stays until there is a request   *)
(* or the connection ends.                                                 *)
StartRead ==
  /\ pc = "scan"
  /\ \E i \in Index : First(i) /\ revents[i] = "in" /\ index' = i
  /\ pc' = "length"
  /\ UNCHANGED <<vars, connections, revents, numSockets, frame, answer,
                 network, stub, bounds, history>>

(* Mutant of CloseAt: the connection is not taken off the count.           *)
CloseAtUncounted(i) ==
  /\ connections' = [connections EXCEPT ![i] = Closed]
  /\ link' = [link EXCEPT ![connections[i]] =
                IF Reaches(connections[i]) THEN "broken" ELSE @]
  /\ up' = [up EXCEPT ![connections[i]] = <<>>]
  /\ index' = i + 1
  /\ pc' = "scan"
  /\ UNCHANGED numSockets

(* close(connections[i].fd), and on to the next entry.                     *)
CloseAt(i) ==
  /\ connections' = [connections EXCEPT ![i] = Closed]
  /\ link' = [link EXCEPT ![connections[i]] =
                IF Reaches(connections[i]) THEN "broken" ELSE @]
  /\ up' = [up EXCEPT ![connections[i]] = <<>>]
  /\ numSockets' = numSockets - 1
  /\ index' = i + 1
  /\ pc' = "scan"

(* revents == POLLHUP: whatever it was that poll saw, or did not see.      *)
HangUp ==
  /\ pc = "scan"
  /\ \E i \in Index : First(i) /\ revents[i] = "hup" /\ CloseAt(i)
  /\ UNCHANGED <<vars, revents, frame, answer, backlog, down, stub, bounds,
                 history>>

Reading == connections[index]

(* read_all2: the length, then the body, read on until nothing is missing. *)
Read ==
  /\ pc \in {"length", "body"} /\ up[Reading] # <<>>
  /\ up' = [up EXCEPT ![Reading] = Tail(@)]
  /\ IF Head(up[Reading]).part = "last"
     THEN /\ pc' = "invoke"
          /\ frame' = [call |-> Head(up[Reading]).call,
                       buffer |-> Head(up[Reading]).buffer]
     ELSE pc' = "body" /\ UNCHANGED frame
  /\ UNCHANGED <<vars, connections, revents, numSockets, index, answer, link,
                 backlog, down, stub, bounds, history>>

(* The connection ends, between two requests or inside one.                *)
ReadEnd ==
  /\ pc \in {"length", "body"} /\ up[Reading] = <<>> /\ link[Reading] = "closed"
  /\ CloseAt(index)
  /\ UNCHANGED <<vars, revents, frame, answer, backlog, down, stub, bounds,
                 history>>

-----------------------------------------------------------------------------
(* The skeleton: table_skel.c.                                             *)

(* A result, or errorStruct.                                               *)
ResultOrError(op, n) ==
  IF n < 0 THEN ResultMessage("OC_RT_ERROR", -1) ELSE ResultMessage(op, n)

(* invoke, for the requests that change the table ...                      *)
InvokeChange(m) ==
  /\ \/ m.op = "OC_PUT" /\ Put(m.key, m.value)
     \/ m.op = "OC_UPDATE" /\ Update(m.key, m.value)
     \/ m.op = "OC_DEL" /\ Del(m.key)
  /\ answer' = ResultOrError(m.op, reply'.ret)

(* ... and for the others.                                                 *)
ReadAnswer(m) ==
  CASE m.op = "OC_GET" -> ValueMessage(m.op, TableGet(table, m.key))
    [] m.op = "OC_RT_GETTS" -> TimestampMessage(m.op, TableGetTs(table, m.key))
    [] m.op = "OC_SIZE" -> ResultOrError(m.op, table.size)
    [] m.op = "OC_NUM_OPS" -> ResultOrError(m.op, table.nChanges)

InvokeRead(m) ==
  /\ m.op \in {"OC_GET", "OC_RT_GETTS", "OC_SIZE", "OC_NUM_OPS"}
  /\ answer' = ReadAnswer(m)
  /\ UNCHANGED vars

(* The request is decoded and executed.                                    *)
Invoke ==
  LET c == Reading
      m == Decode(frame.buffer)
  IN  /\ pc = "invoke"
      /\ InvokeChange(m) \/ InvokeRead(m)
      /\ pc' = "answer"
      /\ IF frame.call = current[c] /\ Alive(c)
         THEN /\ served' = [served EXCEPT ![c] = @ + 1]
              /\ outcome' = [outcome EXCEPT ![c] = answer']
         ELSE UNCHANGED <<served, outcome>>
      /\ UNCHANGED <<connections, revents, numSockets, index, frame, network,
                     stub, bounds, current, sent, aborted>>

(* The answer is encoded and written.  One that has no encoding is not     *)
(* written, and one to a client that is gone is lost.                      *)
WriteAnswer ==
  /\ pc = "answer"
  /\ down' = IF Encode(answer) # NoBuffer /\ Reaches(Reading)
             THEN [down EXCEPT ![Reading] = Append(@, Encode(answer))]
             ELSE down
  /\ pc' = "scan" /\ index' = index + 1
  /\ frame' = Idle /\ answer' = Nothing
  /\ UNCHANGED <<vars, connections, revents, numSockets, link, backlog, up,
                 stub, bounds, history>>

-----------------------------------------------------------------------------
(* The server process ends, by a crash or because accept or poll fail.     *)
Crash ==
  /\ pc # "down" /\ events < MaxEvents
  /\ events' = events + 1
  /\ pc' = "down"
  /\ connections' = [i \in Index |-> Closed]
  /\ revents' = [i \in Index |-> "none"]
  /\ numSockets' = 1 /\ index' = 1
  /\ frame' = Idle /\ answer' = Nothing
  /\ link' = [c \in Client |-> IF Reaches(c) THEN "broken" ELSE link[c]]
  /\ backlog' = <<>>
  /\ up' = [c \in Client |-> <<>>]
  /\ UNCHANGED <<vars, down, stub, calls, history>>

Restart ==
  /\ pc = "down"
  /\ pc' = "poll"
  /\ revents' \in [Index -> Junk]
  /\ UNCHANGED <<vars, connections, numSockets, index, frame, answer, network,
                 stub, bounds, history>>

ServerStep ==
  \/ Poll \/ Accept
  \/ EndScan \/ StartRead \/ HangUp
  \/ Read \/ ReadEnd
  \/ Invoke \/ WriteAnswer

ClientStep(c) ==
  \/ WriteLength(c) \/ WriteBody(c) \/ WriteRest(c)
  \/ Receive(c) \/ ReceiveFails(c)
  \/ Reconnect(c)

LoopNext ==
  \/ ServerStep
  \/ Crash \/ Restart
  \/ \E c \in Client :
       \/ Bind(c) \/ Leave(c)
       \/ \E m \in Requests[c] : Call(c, m)
       \/ ClientStep(c) \/ WritePart(c)

LoopSpec == LoopInit /\ [][LoopNext]_loopVars

(* The server runs while it is not blocked in a read, and so does a thread *)
(* that is inside a call.  No user has to make a call or leave, and no     *)
(* server has to come back.                                                *)
Fairness ==
  /\ WF_loopVars(ServerStep)
  /\ \A c \in Client : WF_loopVars(ClientStep(c))

FairLoopSpec == LoopSpec /\ Fairness

-----------------------------------------------------------------------------
(***************************************************************************)
(* numSockets is what poll, accept and the closing of connections agree    *)
(* on: the listening socket and every open connection, each counted once.  *)
(* accept relies on it to find a free entry, where otherwise it would      *)
(* overwrite the descriptor of another client.                             *)
(***************************************************************************)
ConnectionsCounted ==
  /\ numSockets = 1 + Cardinality({i \in Index : connections[i] # Closed})
  /\ pc = "accept" => \E i \in Index : connections[i] = Closed

(***************************************************************************)
(* A request is executed at most once, and only if all of it was sent:     *)
(* reconnection sends it again only when the first copy cannot have        *)
(* arrived, and a connection that ends inside a frame leaves nothing to    *)
(* execute.                                                                *)
(***************************************************************************)
ServedOnce == \A c \in Client : served[c] <= IF sent[c] THEN 1 ELSE 0

(***************************************************************************)
(* What a call returns is what invoke answered to that very call, or fails, *)
(* whatever the order in which the clients are served and however often    *)
(* the server died; until the client has given up a request that was sent  *)
(* (WriteRest), after which its answers are one call late.                 *)
(***************************************************************************)
AnswersAreOwn ==
  \A c \in Client :
    ~ aborted[c] /\ result[c] # Nothing /\ result[c] # Failed =>
      /\ outcome[c] # Nothing
      /\ result[c] = StubResult(request[c], outcome[c])

-----------------------------------------------------------------------------
(* The server waits for a client that has sent nothing: the entry of the   *)
(* array had POLLIN in it from before.                                     *)
Blocked ==
  /\ pc \in {"length", "body"}
  /\ up[Reading] = <<>> /\ link[Reading] # "closed"

(* poll looks at the connection of c, or will once it is accepted.         *)
Watched(c) ==
  \/ \E i \in Polled : connections[i] = c
  \/ link[c] = "backlog" /\ numSockets < MAXLIG

(* The request has been executed and its answer has no encoding.           *)
Unanswerable(c) == outcome[c] # Nothing /\ Encode(outcome[c]) = NoBuffer

(***************************************************************************)
(* A call returns, as long as its answer can be encoded, the server gets   *)
(* out of every read, and the connection does not stay where poll does not *)
(* look: these are the only reasons to wait for ever.                      *)
(***************************************************************************)
CallsReturn ==
  \A c \in Client :
    []<>~ Blocked /\ <>[](Watched(c) \/ link[c] = "broken") =>
      (at[c] = "wait" ~> at[c] # "wait" \/ Unanswerable(c))

=============================================================================
