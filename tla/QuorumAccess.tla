---------------------------- MODULE QuorumAccess ----------------------------
(***************************************************************************)
(* How a client asks a quorum (src/quorum/quorum_access.c and queue.c).    *)
(*                                                                         *)
(* The main thread runs quorum_access, one call after the other.  It puts  *)
(* a pointer to the request in the queues of the servers it wants to ask;  *)
(* one thread per server (server_access) takes the task, makes the remote  *)
(* call, and puts the answer in the queue of the main thread.  The main    *)
(* thread waits at most five seconds for each answer.                      *)
(*                                                                         *)
(* What is modelled with its exact control: forming the quorum and swap,   *)
(* the ids, the position pointer used after a timeout, which of these are  *)
(* reset and which are not, the request struct as memory the threads read  *)
(* at different times.  Abstracted: what an operation does at a server     *)
(* (only that it was executed is noted), the sockets (up, stale, broken),  *)
(* and real time: a timeout may strike whenever the main thread waits.     *)
(*                                                                         *)
(* An access outside an array or to freed memory takes the program to      *)
(* pc = "undefined", where it stays.                                       *)
(***************************************************************************)
EXTENDS Integers, Sequences, FiniteSets

CONSTANTS
  N,               \* number of servers
  K,               \* expected_replies: ceil2(N) in every caller
  MaxCalls,        \* bound on the calls of quorum_access
  MaxCrashes,      \* bound on server crashes
  MaxWriteBacks,   \* write-backs the caller may do after a read
  Timeouts,        \* may a wait of the main thread time out?
  ReuseRequest     \* may a caller reuse its request struct?

ASSUME QuorumAssumption ==
  /\ N \in Nat \ {0}
  /\ K \in 1 .. N
  /\ MaxCalls \in Nat /\ MaxCrashes \in Nat /\ MaxWriteBacks \in Nat
  /\ Timeouts \in BOOLEAN /\ ReuseRequest \in BOOLEAN

Server == 0 .. N - 1

VARIABLES
  pc,          \* where the main thread is
  quorum,      \* quorum[i]: the server at position i
  position,    \* threads[s].position
  pointer,     \* pointer_quorum
  idCounter,   \* id_counter
  mustForm,    \* forma_quorum
  heap,        \* the request structs, in order of allocation: id and call
  freed,       \* the structs given to free()
  request,     \* the struct of the call (an index of heap); 0 when none is kept
  queue,       \* queue[s]: structs waiting for the thread of s
  mainQueue,   \* answers waiting for the main thread
  worker,      \* worker[s]: the thread of s
  formIndex,   \* formar_quorum: loop index
  formCount,   \* formar_quorum: counter
  count,       \* respostas_recebidas
  answers,     \* by sender, the call that the answer kept is an answer to
  alive, link, crashes,     \* the servers and the sockets to them
  call,        \* number of the current call (history)
  doneBy,      \* the servers that executed the current call (history)
  responders,  \* the servers whose probes were counted (history)
  failed       \* some call has returned NULL (history)

globals == <<quorum, position, pointer, idCounter, mustForm>>
memory == <<heap, freed, request>>
form == <<formIndex, formCount>>
collected == <<count, answers>>
network == <<alive, link, crashes>>
history == <<call, doneBy, responders, failed>>

vars == <<pc, globals, memory, queue, mainQueue, worker, form, collected,
          network, history>>

-----------------------------------------------------------------------------
PROBE == -1      \* the id of the size requests sent by formar_quorum

NoAnswer == -1

NoAnswers == [s \in Server |-> NoAnswer]

Idle == [at |-> "idle", task |-> 0, call |-> 0, id |-> 0]

(* init_quorum_access: (int) ceil((n + 1) / 2), an integer division *)
Init ==
  /\ pc = "idle"
  /\ quorum = [i \in Server |-> i] /\ position = [s \in Server |-> s]
  /\ pointer = (N + 1) \div 2
  /\ idCounter = 1
  /\ mustForm = TRUE
  /\ heap = <<>> /\ freed = {} /\ request = 0
  /\ queue = [s \in Server |-> <<>>] /\ mainQueue = <<>>
  /\ worker = [s \in Server |-> Idle]
  /\ formIndex = 0 /\ formCount = 0
  /\ count = 0 /\ answers = NoAnswers
  /\ alive = [s \in Server |-> TRUE] /\ link = [s \in Server |-> "up"]
  /\ crashes = 0
  /\ call = 0 /\ doneBy = {} /\ responders = {} /\ failed = FALSE

-----------------------------------------------------------------------------
(* The main thread: starting a call.                                       *)

(* The caller has filled in a request struct and calls quorum_access.  If  *)
(* a quorum must be formed, formar_quorum queues one probe, with id -1, to *)
(* every server.                                                           *)
Start(r, h) ==
  /\ pc = "idle" /\ call < MaxCalls
  /\ request' = r
  /\ call' = call + 1
  /\ IF mustForm
     THEN /\ heap' = Append(h, [id |-> PROBE, call |-> 0])
          /\ queue' = [s \in Server |-> Append(queue[s], Len(h) + 1)]
          /\ pc' = "form"
     ELSE /\ heap' = h
          /\ pc' = "send"
          /\ UNCHANGED queue
  /\ UNCHANGED <<globals, freed, mainQueue, worker, form, collected, network,
                 doneBy, responders, failed>>

(* Every operation allocates a struct for its request ...                  *)
CallNew == Start(Len(heap) + 1, Append(heap, [id |-> 0, call |-> call + 1]))

(* ... and qtable_size and qtable_get_keys overwrite the one they just     *)
(* used for a second request.                                              *)
CallAgain ==
  /\ ReuseRequest
  /\ request # 0
  /\ Start(request, [heap EXCEPT ![request].call = call + 1])

(* The request gets its id and goes to the first K servers of the array.   *)
Copies(s) == Cardinality({i \in 0 .. K - 1 : quorum[i] = s})

Send ==
  /\ pc = "send"
  /\ heap' = [heap EXCEPT ![request].id = idCounter]
  /\ queue' = [s \in Server |->
                 queue[s] \o [i \in 1 .. Copies(s) |-> request]]
  /\ pc' = "wait"
  /\ responders' = {}
  /\ UNCHANGED <<globals, freed, request, mainQueue, worker, form, collected,
                 network, call, doneBy, failed>>

(* quorum_access is over, with answers or with NULL.  Its NULL leaves      *)
(* id_counter as it was.                                                   *)
EndCall ==
  /\ pc' = "idle"
  /\ count' = 0 /\ answers' = NoAnswers
  /\ doneBy' = {} /\ responders' = {}
  /\ UNCHANGED call

Fail == EndCall /\ failed' = TRUE /\ request' = 0

-----------------------------------------------------------------------------
(* The main thread: formar_quorum.                                         *)

(* Mutants of Swap: the positions are not kept, the other half is missing. *)
SwapForgetsPosition(sender, i) ==
  /\ quorum' = [[quorum EXCEPT ![i] = sender] EXCEPT ![position[sender]] = quorum[i]]
  /\ UNCHANGED position

SwapHalf(sender, i) ==
  /\ quorum' = [quorum EXCEPT ![i] = sender]
  /\ position' = [position EXCEPT ![sender] = i]

(* swap(sender, indice), with the assignments in the order of the code:    *)
(* the thread at index indice is told the new position, not the thread     *)
(* whose server was moved there.                                           *)
Swap(sender, i) ==
  LET p == position[sender]
  IN  /\ quorum' = [[quorum EXCEPT ![i] = sender] EXCEPT ![p] = quorum[i]]
      /\ position' = [[position EXCEPT ![sender] = i] EXCEPT ![i] = p]

(* The loop goes on with the next index, and gives up after the last: the  *)
(* probe is freed, whoever still has it in a queue, and the call fails.    *)
NextIndex(n, counted) ==
  IF formIndex + 1 < N
  THEN /\ formIndex' = formIndex + 1 /\ formCount' = n
       /\ responders' = counted
       /\ UNCHANGED <<pc, freed, request, collected, call, doneBy, failed>>
  ELSE /\ formIndex' = 0 /\ formCount' = 0
       /\ freed' = freed \cup {Len(heap)}
       /\ Fail

(* Mutant of Formed: the free(size) that is commented out in the code.     *)
FormedFrees(counted) ==
  /\ formIndex' = 0 /\ formCount' = 0
  /\ mustForm' = FALSE
  /\ responders' = counted
  /\ pc' = "send"
  /\ freed' = freed \cup {Len(heap)}
  /\ UNCHANGED <<request, collected, call, doneBy, failed>>

(* The K-th probe counted ends the loop. *)
Formed(counted) ==
  /\ formIndex' = 0 /\ formCount' = 0
  /\ mustForm' = FALSE
  /\ responders' = counted
  /\ pc' = "send"
  /\ UNCHANGED <<freed, request, collected, call, doneBy, failed>>

FormProbe ==
  /\ pc = "form" /\ mainQueue # <<>> /\ Head(mainQueue).id = PROBE
  /\ LET sender == Head(mainQueue).sender
         counted == responders \cup {sender}
     IN  /\ Swap(sender, formIndex)
         /\ IF formCount + 1 = K
            THEN Formed(counted)
            ELSE NextIndex(formCount + 1, counted) /\ UNCHANGED mustForm
  /\ mainQueue' = Tail(mainQueue)
  /\ UNCHANGED <<pointer, idCounter, heap, queue, worker, network>>

(* Any other message, or remove_queue returning NULL: the index goes by    *)
(* without a server.                                                       *)
FormOther ==
  /\ pc = "form" /\ mainQueue # <<>> /\ Head(mainQueue).id # PROBE
  /\ NextIndex(formCount, responders)
  /\ mainQueue' = Tail(mainQueue)
  /\ UNCHANGED <<globals, heap, queue, worker, network>>

FormTimeout ==
  /\ Timeouts
  /\ pc = "form"
  /\ NextIndex(formCount, responders)
  /\ UNCHANGED <<globals, heap, queue, mainQueue, worker, network>>

-----------------------------------------------------------------------------
(* The main thread: collecting answers.                                    *)

(* Mutants of Collect: no test of the id; one answer too many is awaited.  *)
CollectAny(m) ==
  /\ count' = count + 1
  /\ answers' = [answers EXCEPT ![m.sender] = m.call]
  /\ pc' = IF count + 1 = K THEN "return" ELSE "wait"

CollectOneMore(m) ==
  IF m.id = idCounter
  THEN /\ count' = count + 1
       /\ answers' = [answers EXCEPT ![m.sender] = m.call]
       /\ pc' = IF count = K THEN "return" ELSE "wait"
  ELSE /\ pc' = "wait"
       /\ UNCHANGED collected

(* An answer counts when its id is the one of this call; a second answer   *)
(* of a server replaces its first one and is counted again.                *)
Collect(m) ==
  IF m.id = idCounter
  THEN /\ count' = count + 1
       /\ answers' = [answers EXCEPT ![m.sender] = m.call]
       /\ pc' = IF count + 1 = K THEN "return" ELSE "wait"
  ELSE /\ pc' = "wait"
       /\ UNCHANGED collected

Receive ==
  /\ pc = "wait" /\ mainQueue # <<>>
  /\ Collect(Head(mainQueue))
  /\ mainQueue' = Tail(mainQueue)
  /\ UNCHANGED <<globals, memory, queue, worker, form, network, history>>

(* add_queue(&queues[quorum[p]], request), first step of the inner loop    *)
Ask(p) ==
  IF p \in Server
  THEN /\ queue' = [queue EXCEPT ![quorum[p]] = Append(@, request)]
       /\ pc' = "retry"
  ELSE /\ pc' = "undefined"
       /\ UNCHANGED queue

(* Mutant of Timeout: the loop waits again and asks nobody else.           *)
TimeoutAgain == Timeouts /\ pc = "wait" /\ UNCHANGED vars

Timeout ==
  /\ Timeouts
  /\ pc = "wait"
  /\ Ask(pointer)
  /\ UNCHANGED <<globals, memory, mainQueue, worker, form, collected, network,
                 history>>

(* An answer after an extra request: from now on a new quorum is wanted.   *)
(* (The test of the pointer that comes before it fails here: with pointer  *)
(* = N the loop ended at once in RetryTimeout, or Ask was undefined.)      *)
RetryReceive ==
  /\ pc = "retry" /\ mainQueue # <<>>
  /\ Collect(Head(mainQueue))
  /\ mainQueue' = Tail(mainQueue)
  /\ mustForm' = TRUE
  /\ UNCHANGED <<quorum, position, pointer, idCounter, memory, queue, worker,
                 form, network, history>>

(* Mutant of RetryTimeout: the pointer is not compared with n_servers.     *)
RetryTimeoutUnchecked ==
  /\ Timeouts
  /\ pc = "retry"
  /\ pointer' = pointer + 1
  /\ Ask(pointer')
  /\ mustForm' = TRUE
  /\ UNCHANGED <<quorum, position, idCounter, memory, mainQueue, worker, form,
                 collected, network, history>>

(* No answer to the extra request either: the next position, or NULL.      *)
RetryTimeout ==
  /\ Timeouts
  /\ pc = "retry"
  /\ pointer' = pointer + 1
  /\ IF pointer' = N
     THEN Fail /\ UNCHANGED <<queue, mustForm>>
     ELSE /\ Ask(pointer')
          /\ mustForm' = TRUE
          /\ UNCHANGED <<request, collected, history>>
  /\ UNCHANGED <<quorum, position, idCounter, heap, freed, mainQueue, worker,
                 form, network>>

(* Mutant of Return: quorum_access does not count its calls.               *)
ReturnSameId(w) ==
  /\ pc = "return" /\ w = 0
  /\ EndCall
  /\ UNCHANGED <<globals, memory, mainQueue, queue, worker, form, network, failed>>

(* quorum_access returns the answers.  After a read, qtable_get may write  *)
(* back w times: each time it turns its request into a write, gives it the *)
(* next id, and adds it to the queue number n_servers, the main thread's   *)
(* own.  (Nothing sets the sender of a request, and nothing reads it from  *)
(* these: their id is that of no answer.  0 stands for it.)                *)
Return(w) ==
  /\ pc = "return"
  /\ idCounter' = idCounter + 1 + w
  /\ IF w = 0
     THEN UNCHANGED <<heap, request, mainQueue>>
     ELSE /\ heap' = [heap EXCEPT ![request] = [id |-> idCounter + w, call |-> 0]]
          /\ request' = 0
          /\ mainQueue' = mainQueue \o [i \in 1 .. w |->
               [id |-> idCounter + w, sender |-> 0, call |-> 0]]
  /\ EndCall
  /\ UNCHANGED <<quorum, position, pointer, mustForm, freed, queue, worker,
                 form, network, failed>>

-----------------------------------------------------------------------------
(* The thread of server s.                                                 *)

(* remove_queue, then switch(tarefa->opcode): which call's operation will  *)
(* be made is read here ...                                                *)
Take(s) ==
  /\ worker[s].at = "idle" /\ queue[s] # <<>>
  /\ LET r == Head(queue[s])
     IN  IF r \in freed
         THEN pc' = "undefined" /\ UNCHANGED worker
         ELSE /\ worker' = [worker EXCEPT ![s] =
                   [at |-> "taken", task |-> r, call |-> heap[r].call, id |-> 0]]
              /\ UNCHANGED pc
  /\ queue' = [queue EXCEPT ![s] = Tail(@)]
  /\ UNCHANGED <<globals, memory, mainQueue, form, collected, network, history>>

(* ... and resposta->id = tarefa->id is read here, from the same memory.   *)
ReadId(s) ==
  /\ worker[s].at = "taken"
  /\ IF worker[s].task \in freed
     THEN pc' = "undefined" /\ UNCHANGED worker
     ELSE /\ worker' = [worker EXCEPT ![s].at = "rpc", ![s].task = 0,
                                      ![s].id = heap[worker[s].task].id]
          /\ UNCHANGED pc
  /\ UNCHANGED <<globals, memory, queue, mainQueue, form, collected, network,
                 history>>

(* add_queue(main_queue, resposta), whatever the remote call returned.     *)
Reply(s) ==
  /\ mainQueue' = Append(mainQueue, [id |-> worker[s].id, sender |-> s,
                                     call |-> worker[s].call])
  /\ worker' = [worker EXCEPT ![s] = Idle]

Executed(s) == doneBy' = IF worker[s].call = call /\ pc # "idle"
                         THEN doneBy \cup {s} ELSE doneBy

Connected(s) == worker[s].at = "rpc" /\ alive[s] /\ link[s] = "up"

(* The remote call succeeds. *)
Serve(s) ==
  /\ Connected(s)
  /\ Executed(s)
  /\ Reply(s)
  /\ UNCHANGED <<pc, globals, memory, queue, form, collected, network, call,
                 responders, failed>>

(* The server executes the operation and dies before it answers.           *)
DieServing(s) ==
  /\ Connected(s)
  /\ crashes < MaxCrashes
  /\ crashes' = crashes + 1
  /\ alive' = [alive EXCEPT ![s] = FALSE]
  /\ link' = [link EXCEPT ![s] = "broken"]
  /\ Executed(s)
  /\ Reply(s)
  /\ UNCHANGED <<pc, globals, memory, queue, form, collected, call,
                 responders, failed>>

(* The socket belongs to a server process that is gone.  The request is    *)
(* written, nothing can be read, and the thread answers an error ...       *)
ReadFails(s) ==
  /\ worker[s].at = "rpc" /\ link[s] = "stale"
  /\ link' = [link EXCEPT ![s] = "broken"]
  /\ Reply(s)
  /\ UNCHANGED <<pc, globals, memory, queue, form, collected, alive, crashes,
                 history>>

(* ... or the write fails already and the thread goes to reconnect, which  *)
(* it tries for as long as it takes.                                       *)
WriteFails(s) ==
  /\ worker[s].at = "rpc" /\ link[s] = "stale"
  /\ link' = [link EXCEPT ![s] = "broken"]
  /\ UNCHANGED <<pc, globals, memory, queue, mainQueue, worker, form, collected,
                 alive, crashes, history>>

Reconnect(s) ==
  /\ worker[s].at = "rpc" /\ link[s] = "broken" /\ alive[s]
  /\ link' = [link EXCEPT ![s] = "up"]
  /\ UNCHANGED <<pc, globals, memory, queue, mainQueue, worker, form, collected,
                 alive, crashes, history>>

(* A server stops between two requests of this client, or starts again.    *)
Crash(s) ==
  /\ alive[s] /\ crashes < MaxCrashes
  /\ crashes' = crashes + 1
  /\ alive' = [alive EXCEPT ![s] = FALSE]
  /\ link' = [link EXCEPT ![s] = IF @ = "up" THEN "stale" ELSE @]
  /\ UNCHANGED <<pc, globals, memory, queue, mainQueue, worker, form, collected,
                 history>>

Restart(s) ==
  /\ ~ alive[s]
  /\ alive' = [alive EXCEPT ![s] = TRUE]
  /\ UNCHANGED <<pc, globals, memory, queue, mainQueue, worker, form, collected,
                 link, crashes, history>>

-----------------------------------------------------------------------------
(* Steps of the main thread inside a call. *)
Main ==
  \/ Send
  \/ FormProbe \/ FormOther \/ FormTimeout
  \/ Receive \/ Timeout
  \/ RetryReceive \/ RetryTimeout
  \/ \E w \in 0 .. MaxWriteBacks : Return(w)

Thread(s) ==
  /\ pc # "undefined"
  /\ \/ Take(s) \/ ReadId(s) \/ Serve(s) \/ DieServing(s)
     \/ ReadFails(s) \/ WriteFails(s) \/ Reconnect(s)

Environment(s) == pc # "undefined" /\ (Crash(s) \/ Restart(s))

Next ==
  \/ CallNew \/ CallAgain
  \/ Main
  \/ \E s \in Server : Thread(s) \/ Environment(s)

(* A wait of the main thread ends, with a message or with the timeout; a   *)
(* thread that has something to do, and a server that answers, does it.    *)
(* Nothing makes a server that is down come back.                          *)
Fairness == WF_vars(Main) /\ \A s \in Server : WF_vars(Thread(s))

Spec == Init /\ [][Next]_vars

FairSpec == Spec /\ Fairness

-----------------------------------------------------------------------------
Task == [id : Int, call : Nat]

Message == [id : Int, sender : Server, call : Nat]

Thinking == [at : {"idle", "taken", "rpc"}, task : Nat, call : Nat, id : Int]

(* Type invariant. *)
TypeOK ==
  /\ pc \in {"idle", "form", "send", "wait", "retry", "return", "undefined"}
  /\ quorum \in [Server -> Server] /\ position \in [Server -> Server]
  /\ pointer \in Nat /\ idCounter \in Nat /\ mustForm \in BOOLEAN
  /\ heap \in Seq(Task) /\ freed \subseteq DOMAIN heap
  /\ request \in {0} \cup DOMAIN heap
  /\ queue \in [Server -> Seq(DOMAIN heap)]
  /\ mainQueue \in Seq(Message)
  /\ worker \in [Server -> Thinking]
  /\ \A s \in Server : worker[s].at = "taken" => worker[s].task \in DOMAIN heap
  /\ formIndex \in Server /\ formCount \in 0 .. K - 1 /\ count \in 0 .. K
  /\ answers \in [Server -> Nat \cup {NoAnswer}]
  /\ alive \in [Server -> BOOLEAN]
  /\ link \in [Server -> {"up", "stale", "broken"}] /\ crashes \in Nat
  /\ call \in Nat /\ doneBy \subseteq Server /\ responders \subseteq Server
  /\ failed \in BOOLEAN

Asking == pc \in {"wait", "retry", "return"}

(***************************************************************************)
(* The answers of a call are answers to that call and to no other: late    *)
(* answers to earlier calls, answers to probes and written-back requests   *)
(* may sit in the same queue and never pass for one.  This is what the id  *)
(* is for; it holds for as long as no call has returned NULL.              *)
(***************************************************************************)
AnswersOfCall ==
  \A s \in Server : answers[s] # NoAnswer => answers[s] = call

AnswersMatchCall == ~ failed => AnswersOfCall

(***************************************************************************)
(* Why it holds: an id equal to id_counter is nowhere but in the messages, *)
(* threads and memory of the call being made, and only once it was sent.   *)
(***************************************************************************)
Fresh(id, c) == id < idCounter \/ (id = idCounter /\ Asking /\ c = call)

IdsFresh ==
  ~ failed =>
    /\ \A r \in DOMAIN heap :
         Fresh(heap[r].id, heap[r].call) /\ (heap[r].id = idCounter => r = request)
    /\ \A i \in DOMAIN mainQueue : Fresh(mainQueue[i].id, mainQueue[i].call)
    /\ \A s \in Server :
         /\ worker[s].at = "rpc" => Fresh(worker[s].id, worker[s].call)
         /\ worker[s].at = "taken" =>
              Fresh(heap[worker[s].task].id, worker[s].call)

(* A call that returns answers was executed by at least K servers.         *)
QuorumExecuted == pc = "return" => Cardinality(doneBy) >= K

(* A call that has formed a quorum asks the K servers that answered first, *)
(* and the array still names every server once.                            *)
FirstToAnswer ==
  pc = "send" /\ responders # {} =>
    {quorum[i] : i \in 0 .. K - 1} = responders

QuorumIsPermutation == \A i, j \in Server : i # j => quorum[i] # quorum[j]

(* Nothing outside an array and nothing freed is read before some call has *)
(* failed to find its quorum.                                              *)
DefinedUntilFailure == pc = "undefined" => failed

(* A call returns, with answers or with NULL, however many servers are     *)
(* down or slow, unless an earlier one has failed.                         *)
CallReturns == (~ failed /\ pc # "idle") ~> (pc = "idle")

(* Nothing is read outside an array or after it was freed, at all.  True   *)
(* while no wait times out.                                                *)
AlwaysDefined == pc # "undefined"

(***************************************************************************)
(* What the repository says and the code does not do.                      *)
(***************************************************************************)

(* "Caso nao se consigam respostas do quorum minimo, deve-se retornar      *)
(* NULL" (quorum_access.h:40): fewer than K servers never make a quorum.   *)
NoMinorityQuorum == QuorumExecuted

(* "Os servidores pertencentes ao quorum estao nas primeiras k posicoes do *)
(* array quorum" (quorum_access-private.h:38), for every number of servers.*)
ServersAtTheFront == FirstToAnswer

=============================================================================
