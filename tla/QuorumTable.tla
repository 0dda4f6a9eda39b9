---------------------------- MODULE QuorumTable ----------------------------
(***************************************************************************)
(* The replicated table (src/quorum/quorum_table.c): several clients, one  *)
(* table per server (TableOps), and the operations on one key.             *)
(*                                                                         *)
(* quorum_access is reduced to what the operations see of it: the request  *)
(* goes to the K servers of the client's quorum, a timeout sends it to     *)
(* another one and has a new quorum formed before the next call, and the   *)
(* call ends with the first K answers.  Calls that fail are left out; what *)
(* follows them is the subject of QuorumAccess.  A client process may die  *)
(* in the middle of an operation.                                          *)
(***************************************************************************)
EXTENDS TableOps, SequencesExt

CONSTANTS
  key,          \* the key the operations are about
  Server,       \* the servers
  Client,       \* the ids of the clients
  None,         \* no answer, no request
  MaxEvents     \* bound on operations, timeouts and deaths of clients together

ASSUME QuorumTableAssumption ==
  /\ key \in Key
  /\ IsFiniteSet(Server)
  /\ Client \subseteq 1 .. 999
  /\ MaxEvents \in Nat

VARIABLES
  table,     \* the table of each server
  pc,        \* where each client's main thread is
  op,        \* its operation
  request,   \* the request of its current call of quorum_access
  id,        \* id_counter
  quorum,    \* the servers at the front of the array quorum
  forma,     \* forma_quorum
  tasks,     \* tasks[c][s]: requests of c that s has not executed yet
  answers,   \* the answers to the current call
  result,    \* what its last operation returned
  ops, faults,
  author,    \* author[s]: the operation whose value s holds (history)
  done,      \* writes that have returned 0 (history)
  stale,     \* those that a later one replaced (history)
  known,     \* done, stale and put when an operation began (history)
  put,       \* has a put returned 0? (history)
  raced,     \* were two writes under way at the same time? (history)
  deleted,   \* has a del begun? (history)
  reput,     \* has a put begun after that? (history)
  common     \* the servers that have answered every call (history)

clientVars == <<pc, op, request, id, quorum, forma, answers, result>>
bounds == <<ops, faults>>
marks == <<done, stale, known, put, raced, deleted, reput>>

vars == <<table, tasks, clientVars, bounds, author, marks, common>>

-----------------------------------------------------------------------------
(* Mutant of Ceil2: half of the servers.                                   *)
Ceil2Half(n) == n \div 2

(* The ceiling of an integer division, which is no majority for even n.    *)
Ceil2(n) == (n + 1) \div 2

K == Ceil2(Cardinality(Server))

(* Mutant of IncrementTs: the id in ts is not taken off.                   *)
IncrementTsKeepsId(ts, i) == ts + 1000 + i

(* Mutant of IncrementTs: every write starts from a new value's timestamp. *)
IncrementTsAnew(ts, i) == 1000 + i

IncrementTs(ts, i) == (ts \div 1000 + 1) * 1000 + i

Quorums == {Q \in SUBSET Server : Cardinality(Q) = K}

Nobody == [call |-> 0, op |-> "none", value |-> None, by |-> 0]

Nothing == [ret |-> "none", by |-> 0]

Init ==
  /\ table = [s \in Server |-> EmptyTable]
  /\ pc = [c \in Client |-> "idle"]
  /\ op = [c \in Client |-> [kind |-> "none", data |-> NoData, number |-> 0]]
  /\ request = [c \in Client |-> Nobody]
  /\ id = [c \in Client |-> 0]
  /\ quorum = [c \in Client |-> {}]
  /\ forma = [c \in Client |-> TRUE]
  /\ tasks = [c \in Client |-> [s \in Server |-> <<>>]]
  /\ answers = [c \in Client |-> [s \in Server |-> None]]
  /\ result = [c \in Client |-> Nothing]
  /\ ops = 0 /\ faults = 0
  /\ author = [s \in Server |-> 0]
  /\ done = {0} /\ stale = {}
  /\ known = [c \in Client |-> [done |-> {}, stale |-> {}, put |-> FALSE]]
  /\ put = FALSE /\ raced = FALSE /\ deleted = FALSE /\ reput = FALSE
  /\ common = Server

-----------------------------------------------------------------------------
(* quorum_access: a new quorum if a timeout asked for one, and the request *)
(* into the queues of its servers.                                         *)
Access(c, m) ==
  /\ quorum' \in {[quorum EXCEPT ![c] = Q] :
                    Q \in IF forma[c] THEN Quorums ELSE {quorum[c]}}
  /\ forma' = [forma EXCEPT ![c] = FALSE]
  /\ request' = [request EXCEPT ![c] = m]
  /\ answers' = [answers EXCEPT ![c] = [s \in Server |-> None]]

(* What tasks is after that, from what the call before left in it.         *)
Sent(c, m, left) ==
  [tasks EXCEPT ![c] =
     [s \in Server |-> IF s \in quorum'[c] THEN Append(left[s], m) ELSE left[s]]]

Writing(c) == pc[c] # "idle" /\ op[c].kind # "get"

(* An operation starts with the call of qtable_get that all of them make.  *)
Begin(c, kind, d) ==
  LET m == [call |-> id[c], op |-> "OC_GET", value |-> None, by |-> ops + 1]
  IN  /\ pc[c] = "idle" /\ ops + faults < MaxEvents
      /\ ops' = ops + 1
      /\ op' = [op EXCEPT ![c] = [kind |-> kind, data |-> d, number |-> ops + 1]]
      /\ pc' = [pc EXCEPT ![c] = "read"]
      /\ Access(c, m)
      /\ tasks' = Sent(c, m, tasks[c])
      /\ result' = [result EXCEPT ![c] = Nothing]
      /\ known' = [known EXCEPT ![c] = [done |-> IF kind = "get" THEN {} ELSE done,
                                      stale |-> IF kind = "get" THEN stale ELSE {},
                                      put |-> put]]
      /\ raced' = (raced \/ (kind # "get" /\ \E e \in Client : Writing(e)))
      /\ deleted' = (deleted \/ kind = "del")
      /\ reput' = (reput \/ (kind = "put" /\ deleted))
      /\ UNCHANGED <<table, id, faults, author, done, stale, put, common>>

-----------------------------------------------------------------------------
Answered(c) == {s \in Server : answers[c][s] # None}

(* rtable_put returns what the server answered, rable_update 0 in any case *)
(* (client_stub.c:184).                                                    *)
AnswerOf(s, m) ==
  CASE m.op = "OC_GET" -> [value |-> TableGet(table[s], key), by |-> author[s]]
    [] m.op = "OC_PUT" -> [value |-> IF PutAccepts(table[s], key) THEN 0 ELSE -1,
                           by |-> m.by]
    [] m.op = "OC_UPDATE" -> [value |-> 0, by |-> m.by]

Written(s, m) ==
  CASE m.op = "OC_GET" -> table[s]
    [] m.op = "OC_PUT" -> TablePut(table[s], key, m.value)
    [] m.op = "OC_UPDATE" -> TableUpdate(table[s], key, m.value)

Takes(s, m) ==
  \/ m.op = "OC_PUT" /\ PutAccepts(table[s], key)
  \/ m.op = "OC_UPDATE" /\ UpdateAccepts(table[s], key, m.value)

(* A server executes the next request of a client; quorum_access takes the *)
(* answer if it has the id of the call and the call still waits.           *)
Serve(c, s) ==
  LET m == Head(tasks[c][s])
  IN  /\ tasks[c][s] # <<>>
      /\ tasks' = [tasks EXCEPT ![c][s] = Tail(@)]
      /\ table' = [table EXCEPT ![s] = Written(s, m)]
      /\ author' = [author EXCEPT ![s] = IF Takes(s, m) THEN m.by ELSE @]
      /\ answers' = IF /\ m.call = id[c] /\ pc[c] \in {"read", "write"}
                       /\ Cardinality(Answered(c)) < K
                    THEN [answers EXCEPT ![c][s] = AnswerOf(s, m)] ELSE answers
      /\ UNCHANGED <<pc, op, request, id, quorum, forma, result, bounds, marks,
                     common>>

(* The threads that have not come to the request yet.                      *)
Late(c) ==
  {s \in Server : tasks[c][s] # <<>> /\ Last(tasks[c][s]).call = id[c]}

(* Five seconds without an answer: one more server is asked.  (The code    *)
(* can ask it twice: QuorumAccess, NoMinorityQuorum.)                      *)
Timeout(c) ==
  /\ pc[c] \in {"read", "write"} /\ ops + faults < MaxEvents
  /\ Cardinality(Answered(c)) < K
  /\ \E s \in Server \ (quorum[c] \cup Answered(c) \cup Late(c)) :
       tasks' = [tasks EXCEPT ![c][s] = Append(@, request[c])]
  /\ forma' = [forma EXCEPT ![c] = TRUE]
  /\ faults' = faults + 1
  /\ UNCHANGED <<table, pc, op, request, id, quorum, answers, result, ops,
                 author, marks, common>>

-----------------------------------------------------------------------------
(* The first K answers are there: quorum_access returns.                   *)
Returns(c) ==
  /\ Cardinality(Answered(c)) = K
  /\ common' = common \cap Answered(c)

(* The answers with the largest timestamp.  Of several the code takes the  *)
(* one at the lowest index; here it is any, so that servers are alike.     *)
Newest(c) ==
  {s \in Answered(c) :
     \A r \in Answered(c) : answers[c][r].value.ts <= answers[c][s].value.ts}

(* For every answer with another timestamp the struct of the request is    *)
(* made a put or an update, and writeback puts it into the queue of the    *)
(* main thread, the index being that of the loop before, which has ended.  *)
WriteBacks(c, new) ==
  LET Behind == {s \in Answered(c) : answers[c][s].value.ts # new.value.ts}
  IN  IF new.value.data = NoData THEN {}
      ELSE {[call |-> id[c],
             op |-> IF answers[c][s].value = [ts |-> 1, data |-> NoData]
                    THEN "OC_PUT" ELSE "OC_UPDATE",
             value |-> new.value, by |-> new.by] : s \in Behind}

(* Such a thread may already have the opcode, or find the struct changed.  *)
Changed(c, S, w) ==
  [s \in Server |-> IF s \in S THEN Append(Front(tasks[c][s]), w) ELSE tasks[c][s]]

LateTasks(c, new) ==
  {tasks[c]} \cup
  {Changed(c, S, w) : S \in SUBSET Late(c), w \in WriteBacks(c, new)}

Finish(c, ret, by) ==
  /\ pc' = [pc EXCEPT ![c] = "idle"]
  /\ result' = [result EXCEPT ![c] = [ret |-> ret, by |-> by]]
  /\ request' = [request EXCEPT ![c] = Nobody]
  /\ answers' = [answers EXCEPT ![c] = [s \in Server |-> None]]
  /\ UNCHANGED <<quorum, forma>>

(* The request of the second call: qtable_put makes its timestamp from the *)
(* new value, whose own is 1, qtable_update from the one it has read.      *)
WriteRequest(c, v) ==
  [call |-> id[c] + 1, by |-> op[c].number,
   op |-> IF op[c].kind = "put" THEN "OC_PUT" ELSE "OC_UPDATE",
   value |-> [ts |-> IncrementTs(IF op[c].kind = "put" THEN 1 ELSE v.ts, c),
              data |-> op[c].data]]

(* qtable_get has its answers.  It is all of a get; a put goes on if there *)
(* is no value and an update (qtable_del is one) if there is.              *)
EndRead(c) ==
  /\ pc[c] = "read" /\ Returns(c)
  /\ id' = [id EXCEPT ![c] = @ + 1]
  /\ \E s \in Newest(c) : \E left \in LateTasks(c, answers[c][s]) :
       LET found == answers[c][s].value.data # NoData
           kind == op[c].kind
           m == WriteRequest(c, answers[c][s].value)
       IN  \/ /\ kind = "get"
              /\ Finish(c, IF found THEN "value" ELSE "null", answers[c][s].by)
              /\ tasks' = [tasks EXCEPT ![c] = left]
           \/ /\ kind # "get" /\ found = (kind = "put")
              /\ Finish(c, "refused", 0)
              /\ tasks' = [tasks EXCEPT ![c] = left]
           \/ /\ kind # "get" /\ found # (kind = "put")
              /\ pc' = [pc EXCEPT ![c] = "write"]
              /\ Access(c, m)
              /\ tasks' = Sent(c, m, left)
              /\ UNCHANGED result
  /\ UNCHANGED <<table, op, bounds, author, marks>>

(* One 0 is enough.                                                        *)
EndWrite(c) ==
  LET ok == \E s \in Answered(c) : answers[c][s].value = 0
  IN  /\ pc[c] = "write" /\ Returns(c)
      /\ id' = [id EXCEPT ![c] = @ + 1]
      /\ Finish(c, IF ok THEN "ok" ELSE "refused", op[c].number)
      /\ IF ok
         THEN /\ done' = done \cup {op[c].number}
              /\ stale' = stale \cup known[c].done
              /\ put' = (put \/ op[c].kind = "put")
         ELSE UNCHANGED <<done, stale, put>>
      /\ UNCHANGED <<table, op, tasks, bounds, author, known, raced, deleted, reput>>

(* The client process ends.  Only what its threads have written to their   *)
(* sockets is still executed, if at all.                                   *)
Die(c) ==
  /\ pc[c] \in {"read", "write"} /\ ops + faults < MaxEvents
  /\ faults' = faults + 1
  /\ pc' = [pc EXCEPT ![c] = "dead"]
  /\ tasks' = [tasks EXCEPT ![c] =
                 [s \in Server |-> SubSeq(@[s], 1, IF @[s] = <<>> THEN 0 ELSE 1)]]
  /\ UNCHANGED <<table, op, request, id, quorum, forma, answers, result, ops,
                 author, marks, common>>

Next ==
  \E c \in Client :
    \/ Begin(c, "get", NoData)
    \/ \E d \in Data : Begin(c, "put", d) \/ Begin(c, "update", d)
    \/ Begin(c, "del", NoData)
    \/ \E s \in Server : Serve(c, s)
    \/ Timeout(c)
    \/ EndRead(c) \/ EndWrite(c)
    \/ Die(c)

Spec == Init /\ [][Next]_vars

-----------------------------------------------------------------------------
(* Type invariant of the tables and of what the clients keep.              *)
TypeOK ==
  /\ table \in [Server -> Tables]
  /\ pc \in [Client -> {"idle", "read", "write", "dead"}]
  /\ id \in [Client -> Nat]
  /\ \A c \in Client :
       /\ quorum[c] \in Quorums \cup {{}}
       /\ Cardinality(Answered(c)) <= K
       /\ result[c].ret \in {"none", "value", "null", "ok", "refused"}

(***************************************************************************)
(* Quorums intersect: as long as no key has been deleted, what begins      *)
(* after a put has returned 0 finds the key, also where the put reached    *)
(* only a part of the servers, other writes overlap, clients died in the   *)
(* middle of theirs, and answers were late.                                *)
(***************************************************************************)
PutKeysArePresent ==
  ~ deleted =>
    \A c \in Client :
      known[c].put /\ result[c].ret # "none" =>
        result[c].ret = CASE op[c].kind = "get" -> "value"
                          [] op[c].kind = "put" -> "refused"
                          [] op[c].kind = "update" -> "ok"

(***************************************************************************)
(* A get does not return a value that a completed write had replaced       *)
(* before the get began, as long as one server has answered every call,    *)
(* no two writes overlapped, and no put came after a del.  Without any of  *)
(* the three the code returns such values.                                 *)
(***************************************************************************)
NoStaleReads ==
  ~ raced /\ ~ reput /\ common # {} =>
    \A c \in Client :
      op[c].kind = "get" /\ result[c].ret # "none" =>
        result[c].by \notin known[c].stale

=============================================================================
