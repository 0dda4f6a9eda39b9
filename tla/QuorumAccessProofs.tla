------------------------- MODULE QuorumAccessProofs -------------------------
(***************************************************************************)
(* QuorumAccess for every number of servers and every quorum size, with    *)
(* timeouts, crashes of servers and write-backs: the types, and that the   *)
(* answers collected for a call are answers to that call.  Then what holds *)
(* only while no wait times out: nothing undefined is ever reached, and    *)
(* with a quorum of two the array stays right and every call that returns  *)
(* was executed by its quorum.                                             *)
(***************************************************************************)
EXTENDS QuorumAccess, SequenceTheorems, FiniteSetTheorems, TLAPS

(* A function on 1 .. n is a sequence. *)
LEMMA SeqOf ==
  ASSUME NEW S, NEW n \in Nat, NEW f \in [1 .. n -> S]
  PROVE  f \in Seq(S)
BY SeqDef

(* A sequence of structs stays one when structs are allocated. *)
LEMMA MoreStructs ==
  ASSUME NEW h \in Seq(Task), NEW g \in Seq(Task), Len(h) <= Len(g),
         NEW q \in Seq(DOMAIN h)
  PROVE  q \in Seq(DOMAIN g)
<1>1. DOMAIN h \subseteq DOMAIN g
  BY LenProperties
<1> QED
  BY <1>1, SeqMonotonic

(* How many times a server is asked is a number. *)
LEMMA CopiesType == ASSUME NEW s \in Server PROVE Copies(s) \in Nat
<1>1. IsFiniteSet(0 .. K - 1)
  BY QuorumAssumption, FS_Interval
<1>2. {i \in 0 .. K - 1 : quorum[i] = s} \in SUBSET (0 .. K - 1)
  OBVIOUS
<1> QED
  BY <1>1, <1>2, FS_Subset, FS_CardinalityType DEF Copies

-----------------------------------------------------------------------------
(***************************************************************************)
(* The types need two facts to be kept by every step: while the main       *)
(* thread waits, fewer than K answers were counted; and while a call is    *)
(* made, its struct exists.                                                *)
(***************************************************************************)
TypeInv ==
  /\ TypeOK
  /\ pc \notin {"return", "undefined"} => count < K
  /\ pc \notin {"idle", "undefined"} => request \in DOMAIN heap

(* What the main thread keeps for itself, apart from its call. *)
LocalTypes ==
  /\ quorum \in [Server -> Server] /\ position \in [Server -> Server]
  /\ pointer \in Nat /\ idCounter \in Nat /\ mustForm \in BOOLEAN
  /\ formIndex \in Server /\ formCount \in 0 .. K - 1 /\ count \in 0 .. K
  /\ answers \in [Server -> Nat \cup {NoAnswer}]
  /\ call \in Nat /\ doneBy \subseteq Server /\ responders \subseteq Server
  /\ failed \in BOOLEAN

(* What it shares with the threads. *)
SharedTypes ==
  /\ heap \in Seq(Task) /\ freed \subseteq DOMAIN heap
  /\ request \in {0} \cup DOMAIN heap
  /\ queue \in [Server -> Seq(DOMAIN heap)]
  /\ mainQueue \in Seq(Message)
  /\ worker \in [Server -> Thinking]
  /\ \A s \in Server : worker[s].at = "taken" => worker[s].task \in DOMAIN heap

(* The servers, and where the main thread is. *)
OtherTypes ==
  /\ pc \in {"idle", "form", "send", "wait", "retry", "return", "undefined"}
  /\ alive \in [Server -> BOOLEAN]
  /\ link \in [Server -> {"up", "stale", "broken"}] /\ crashes \in Nat
  /\ pc \notin {"return", "undefined"} => count < K
  /\ pc \notin {"idle", "undefined"} => request \in DOMAIN heap

(* The three parts are the whole. *)
LEMMA TypeParts == TypeInv <=> LocalTypes /\ SharedTypes /\ OtherTypes
BY DEF TypeInv, TypeOK, LocalTypes, SharedTypes, OtherTypes

(* The message at the head of the queue, and the rest of the queue. *)
LEMMA HeadMessage ==
  ASSUME mainQueue \in Seq(Message), mainQueue # <<>>
  PROVE  /\ Head(mainQueue) \in Message
         /\ Tail(mainQueue) \in Seq(Message)
         /\ \A i \in DOMAIN Tail(mainQueue) :
              i + 1 \in DOMAIN mainQueue /\ Tail(mainQueue)[i] = mainQueue[i + 1]
         /\ 1 \in DOMAIN mainQueue /\ Head(mainQueue) = mainQueue[1]
<1>1. /\ Head(mainQueue) \in Message /\ Tail(mainQueue) \in Seq(Message)
      /\ Len(Tail(mainQueue)) = Len(mainQueue) - 1
      /\ \A i \in 1 .. Len(Tail(mainQueue)) : Tail(mainQueue)[i] = mainQueue[i + 1]
  BY HeadTailProperties
<1>2. /\ DOMAIN Tail(mainQueue) = 1 .. Len(Tail(mainQueue))
      /\ DOMAIN mainQueue = 1 .. Len(mainQueue)
      /\ Len(mainQueue) \in Nat \ {0}
  BY <1>1, LenProperties, EmptySeq
<1>3. Head(mainQueue) = mainQueue[1]
  OBVIOUS
<1> QED
  BY <1>1, <1>2, <1>3

(* A message added to the queue. *)
LEMMA AppendMessage ==
  ASSUME NEW q \in Seq(Message), NEW m \in Message
  PROVE  /\ Append(q, m) \in Seq(Message)
         /\ \A i \in DOMAIN Append(q, m) :
              Append(q, m)[i] = m \/ (i \in DOMAIN q /\ Append(q, m)[i] = q[i])
<1>1. /\ Append(q, m) \in Seq(Message) /\ Len(Append(q, m)) = Len(q) + 1
      /\ \A i \in 1 .. Len(q) : Append(q, m)[i] = q[i]
      /\ Append(q, m)[Len(q) + 1] = m
  BY AppendProperties
<1>2. /\ DOMAIN Append(q, m) = 1 .. Len(q) + 1 /\ DOMAIN q = 1 .. Len(q)
      /\ Len(q) \in Nat
  BY <1>1, LenProperties
<1> QED
  BY <1>1, <1>2

(* A struct allocated: it is the last, the others are what they were. *)
LEMMA AppendStruct ==
  ASSUME NEW h \in Seq(Task), NEW t \in Task
  PROVE  /\ Append(h, t) \in Seq(Task)
         /\ Len(Append(h, t)) = Len(h) + 1 /\ Len(h) \in Nat
         /\ DOMAIN Append(h, t) = 1 .. Len(h) + 1 /\ DOMAIN h = 1 .. Len(h)
         /\ \A i \in DOMAIN h : Append(h, t)[i] = h[i]
         /\ Append(h, t)[Len(h) + 1] = t
<1>1. /\ Append(h, t) \in Seq(Task) /\ Len(Append(h, t)) = Len(h) + 1
      /\ \A i \in 1 .. Len(h) : Append(h, t)[i] = h[i]
      /\ Append(h, t)[Len(h) + 1] = t
  BY AppendProperties
<1>2. DOMAIN Append(h, t) = 1 .. Len(h) + 1 /\ DOMAIN h = 1 .. Len(h) /\ Len(h) \in Nat
  BY <1>1, LenProperties
<1> QED
  BY <1>1, <1>2

(* A struct overwritten. *)
LEMMA ExceptStruct ==
  ASSUME NEW h \in Seq(Task), NEW r \in DOMAIN h, NEW t \in Task
  PROVE  /\ [h EXCEPT ![r] = t] \in Seq(Task)
         /\ Len([h EXCEPT ![r] = t]) = Len(h)
         /\ DOMAIN [h EXCEPT ![r] = t] = DOMAIN h
<1>1. r \in 1 .. Len(h)
  BY LenProperties
<1> QED
  BY <1>1, ExceptSeq, LenProperties

-----------------------------------------------------------------------------
(* Starting a call keeps the types. *)
LEMMA StartTypes ==
  ASSUME TypeInv, NEW h \in Seq(Task), NEW r \in DOMAIN h,
         Len(heap) <= Len(h), Start(r, h)
  PROVE  TypeInv'
<1> USE QuorumAssumption
<1>0. LocalTypes /\ SharedTypes /\ OtherTypes
  BY TypeParts
<1>1. h \in Seq(Task) /\ heap \in Seq(Task) /\ DOMAIN heap \subseteq DOMAIN h
  BY <1>0, LenProperties DEF SharedTypes
<1>2. [id |-> PROBE, call |-> 0] \in Task
  BY DEF Task, PROBE
<1>3. /\ heap' \in Seq(Task) /\ DOMAIN h \subseteq DOMAIN heap'
      /\ Len(heap) <= Len(heap')
      /\ mustForm => Len(h) + 1 \in DOMAIN heap'
  <2> DEFINE g == Append(h, [id |-> PROBE, call |-> 0])
  <2>1. /\ g \in Seq(Task) /\ DOMAIN h \subseteq DOMAIN g
        /\ Len(heap) <= Len(g) /\ Len(h) + 1 \in DOMAIN g
    <3>1. /\ g \in Seq(Task) /\ Len(g) = Len(h) + 1 /\ Len(h) \in Nat
          /\ DOMAIN g = 1 .. Len(h) + 1 /\ DOMAIN h = 1 .. Len(h)
      BY <1>2, AppendStruct
    <3>2. Len(heap) \in Nat
      BY <1>1, LenProperties
    <3> QED
      BY <3>1, <3>2
  <2>2. heap' = IF mustForm THEN g ELSE h
    BY DEF Start
  <2> QED
    BY <1>1, <2>1, <2>2
<1>4. \A s \in Server : queue[s] \in Seq(DOMAIN heap')
  BY <1>0, <1>1, <1>3, MoreStructs DEF SharedTypes
<1>5. queue' \in [Server -> Seq(DOMAIN heap')]
  <2>1. CASE mustForm
    <3>1. \A s \in Server : Append(queue[s], Len(h) + 1) \in Seq(DOMAIN heap')
      BY <1>3, <1>4, <2>1, AppendProperties
    <3> QED
      BY <3>1, <2>1 DEF Start
  <2>2. CASE ~ mustForm
    BY <1>0, <1>4, <2>2 DEF Start, SharedTypes
  <2> QED
    BY <2>1, <2>2
<1>6. SharedTypes'
  BY <1>0, <1>1, <1>3, <1>5 DEF SharedTypes, Start
<1>7. LocalTypes'
  BY <1>0 DEF LocalTypes, Start, globals, form, collected
<1>8. OtherTypes'
  BY <1>0, <1>1, <1>3 DEF OtherTypes, Start, network, collected
<1> QED
  BY <1>6, <1>7, <1>8, TypeParts DEF TypeInv, TypeOK, LocalTypes, SharedTypes, OtherTypes

LEMMA CallTypes ==
  ASSUME TypeInv, CallNew \/ CallAgain
  PROVE  TypeInv'
<1>0. LocalTypes /\ SharedTypes
  BY TypeParts
<1>1. CASE CallNew
  <2> DEFINE t == [id |-> 0, call |-> call + 1]
  <2>1. t \in Task
    BY <1>0 DEF Task, LocalTypes
  <2>2. /\ Append(heap, t) \in Seq(Task) /\ Len(heap) \in Nat
        /\ Len(Append(heap, t)) = Len(heap) + 1
        /\ Len(heap) + 1 \in DOMAIN Append(heap, t)
    BY <1>0, <2>1, AppendStruct DEF SharedTypes
  <2>3. Start(Len(heap) + 1, Append(heap, t))
    BY <1>1 DEF CallNew
  <2>4. Len(heap) <= Len(Append(heap, t))
    BY <2>2
  <2> QED
    BY <2>2, <2>3, <2>4, StartTypes
<1>2. CASE CallAgain
  <2> DEFINE t == [heap[request] EXCEPT !.call = call + 1]
             g == [heap EXCEPT ![request] = t]
  <2>1. request \in DOMAIN heap /\ heap \in Seq(Task)
    BY <1>0, <1>2 DEF CallAgain, SharedTypes
  <2>2. heap[request] \in Task
    BY <2>1, LenProperties, ElementOfSeq
  <2>3. t \in Task
    BY <1>0, <2>2 DEF Task, LocalTypes
  <2>4. g \in Seq(Task) /\ Len(g) = Len(heap) /\ DOMAIN g = DOMAIN heap
    BY <2>1, <2>3, ExceptStruct
  <2>5. Start(request, g)
    BY <1>2 DEF CallAgain
  <2>6. Len(heap) <= Len(g)
    BY <2>1, <2>4, LenProperties
  <2> QED
    BY <2>1, <2>4, <2>5, <2>6, StartTypes
<1> QED
  BY <1>1, <1>2

(* Sending the request to the first K servers keeps the types. *)
LEMMA SendTypes ==
  ASSUME TypeInv, Send
  PROVE  TypeInv'
<1>0. LocalTypes /\ SharedTypes /\ OtherTypes
  BY TypeParts
<1>1. request \in DOMAIN heap /\ heap \in Seq(Task)
  BY <1>0 DEF Send, SharedTypes, OtherTypes
<1>2. heap' \in Seq(Task) /\ DOMAIN heap' = DOMAIN heap
  <2> DEFINE t == [heap[request] EXCEPT !.id = idCounter]
  <2>1. heap[request] \in Task
    BY <1>1, LenProperties, ElementOfSeq
  <2>2. t \in Task
    BY <1>0, <2>1 DEF Task, LocalTypes
  <2>3. heap' = [heap EXCEPT ![request] = t]
    BY DEF Send
  <2> QED
    BY <1>1, <2>2, <2>3, ExceptStruct
<1>3. queue' \in [Server -> Seq(DOMAIN heap)]
  <2>1. ASSUME NEW s \in Server
        PROVE  queue[s] \o [i \in 1 .. Copies(s) |-> request] \in Seq(DOMAIN heap)
    <3>1. [i \in 1 .. Copies(s) |-> request] \in Seq(DOMAIN heap)
      BY <1>1, CopiesType, SeqOf
    <3> QED
      BY <1>0, <3>1, ConcatProperties DEF SharedTypes
  <2> QED
    BY <2>1 DEF Send
<1>4. SharedTypes'
  BY <1>0, <1>2, <1>3 DEF SharedTypes, Send
<1>5. LocalTypes'
  BY <1>0 DEF LocalTypes, Send, globals, form, collected
<1>6. OtherTypes'
  BY <1>0, <1>1, <1>2 DEF OtherTypes, Send, network, collected
<1> QED
  BY <1>4, <1>5, <1>6, TypeParts DEF TypeInv, TypeOK, LocalTypes, SharedTypes, OtherTypes

(* Forming a quorum keeps the types. *)
LEMMA FormTypes ==
  ASSUME TypeInv, FormProbe \/ FormOther \/ FormTimeout
  PROVE  TypeInv'
<1> USE QuorumAssumption
<1>0. LocalTypes /\ SharedTypes /\ OtherTypes
  BY TypeParts
<1>1. 1 \in Nat /\ Len(heap) \in Nat /\ DOMAIN heap = 1 .. Len(heap)
  BY <1>0, LenProperties DEF SharedTypes
<1>2. pc = "form" /\ request \in DOMAIN heap /\ Len(heap) \in DOMAIN heap
  BY <1>0, <1>1 DEF FormProbe, FormOther, FormTimeout, OtherTypes
<1>3. ASSUME NEW n \in 0 .. K - 1, NEW R \in SUBSET Server, NextIndex(n, R),
             UNCHANGED heap
      PROVE  /\ formIndex' \in Server /\ formCount' \in 0 .. K - 1
             /\ responders' \subseteq Server /\ doneBy' \subseteq Server
             /\ count' \in 0 .. K - 1 /\ answers' \in [Server -> Nat \cup {NoAnswer}]
             /\ failed' \in BOOLEAN /\ call' \in Nat /\ pc' \in {"form", "idle"}
             /\ freed' \subseteq DOMAIN heap
             /\ request' \in {0} \cup DOMAIN heap
             /\ pc' = "form" => request' \in DOMAIN heap
  <2>1. CASE formIndex + 1 < N
    <3>1. /\ formIndex' = formIndex + 1 /\ formCount' = n /\ responders' = R
          /\ UNCHANGED <<pc, freed, request, collected, call, doneBy, failed>>
      BY <1>3, <2>1 DEF NextIndex
    <3>2. /\ formIndex' \in Server /\ formCount' \in 0 .. K - 1
          /\ count' \in 0 .. K - 1
      BY <1>0, <1>2, <2>1, <3>1 DEF collected, LocalTypes, OtherTypes, Server
    <3>3. answers' \in [Server -> Nat \cup {NoAnswer}] /\ failed' \in BOOLEAN
      BY <1>0, <3>1 DEF collected, LocalTypes
    <3>4. /\ responders' \subseteq Server /\ doneBy' \subseteq Server
          /\ call' \in Nat
      BY <1>0, <3>1 DEF LocalTypes
    <3>5. freed' \subseteq DOMAIN heap /\ request' \in DOMAIN heap /\ pc' = "form"
      BY <1>0, <1>2, <3>1 DEF SharedTypes
    <3> QED
      BY <3>2, <3>3, <3>4, <3>5
  <2>2. CASE ~ (formIndex + 1 < N)
    <3>1. /\ formIndex' = 0 /\ formCount' = 0
          /\ freed' = freed \cup {Len(heap)}
          /\ pc' = "idle" /\ count' = 0 /\ answers' = NoAnswers
          /\ doneBy' = {} /\ responders' = {} /\ call' = call
          /\ failed' = TRUE /\ request' = 0
      BY <1>3, <2>2 DEF NextIndex, Fail, EndCall
    <3>2. answers' \in [Server -> Nat \cup {NoAnswer}]
      BY <3>1 DEF NoAnswers
    <3>3. /\ formIndex' \in Server /\ formCount' \in 0 .. K - 1
          /\ count' \in 0 .. K - 1 /\ call' \in Nat
      BY <1>0, <3>1 DEF LocalTypes, Server
    <3>4. freed' \subseteq DOMAIN heap
      BY <1>0, <1>2, <3>1 DEF SharedTypes
    <3> QED
      BY <3>1, <3>2, <3>3, <3>4
  <2> QED
    BY <2>1, <2>2
<1>4. ASSUME mainQueue # <<>>
      PROVE  Head(mainQueue) \in Message /\ Tail(mainQueue) \in Seq(Message)
  BY <1>0, <1>4, HeadMessage DEF SharedTypes
<1>5. CASE FormProbe
  <2> DEFINE sender == Head(mainQueue).sender
             counted == responders \cup {sender}
  <2>1. sender \in Server /\ counted \in SUBSET Server
    BY <1>0, <1>4, <1>5 DEF FormProbe, Message, LocalTypes
  <2>2. quorum' \in [Server -> Server] /\ position' \in [Server -> Server]
    BY <1>0, <1>5, <2>1 DEF FormProbe, Swap, LocalTypes
  <2>3. UNCHANGED <<pointer, idCounter, heap, queue, worker, network>>
    BY <1>5 DEF FormProbe
  <2>4. mainQueue' \in Seq(Message)
    BY <1>4, <1>5 DEF FormProbe
  <2>5. CASE formCount + 1 = K
    <3>1. Formed(counted)
      BY <1>5, <2>5 DEF FormProbe
    <3>2. LocalTypes'
      <4>1. /\ formIndex' = 0 /\ formCount' = 0 /\ mustForm' = FALSE
            /\ responders' = counted
            /\ UNCHANGED <<pointer, idCounter, count, answers, call, doneBy, failed>>
        BY <2>3, <3>1 DEF Formed, collected
      <4>2. formIndex' \in Server /\ formCount' \in 0 .. K - 1
        BY <4>1 DEF Server
      <4> QED
        BY <1>0, <2>1, <2>2, <4>1, <4>2 DEF LocalTypes
    <3>3. SharedTypes'
      BY <1>0, <2>3, <2>4, <3>1 DEF Formed, SharedTypes
    <3>4. OtherTypes'
      BY <1>0, <1>2, <2>3, <3>1 DEF Formed, OtherTypes, network, collected
    <3> QED
      BY <3>2, <3>3, <3>4
         DEF TypeInv, TypeOK, LocalTypes, SharedTypes, OtherTypes
  <2>6. CASE formCount + 1 # K
    <3>1. NextIndex(formCount + 1, counted) /\ UNCHANGED mustForm
      BY <1>5, <2>6 DEF FormProbe
    <3>2. formCount + 1 \in 0 .. K - 1
      BY <1>0, <2>6 DEF LocalTypes
    <3>3. LocalTypes'
      BY <1>0, <1>3, <2>1, <2>2, <2>3, <3>1, <3>2 DEF LocalTypes
    <3>4. SharedTypes'
      BY <1>0, <1>3, <2>1, <2>3, <2>4, <3>1, <3>2 DEF SharedTypes
    <3>5. OtherTypes'
      BY <1>0, <1>3, <2>1, <2>3, <3>1, <3>2 DEF OtherTypes, network
    <3> QED
      BY <3>3, <3>4, <3>5
         DEF TypeInv, TypeOK, LocalTypes, SharedTypes, OtherTypes
  <2> QED
    BY <2>5, <2>6
<1>6. CASE FormOther \/ FormTimeout
  <2>1. /\ NextIndex(formCount, responders)
        /\ UNCHANGED <<globals, heap, queue, worker, network>>
    BY <1>6 DEF FormOther, FormTimeout
  <2>2. mainQueue' \in Seq(Message)
    BY <1>0, <1>4, <1>6 DEF FormOther, FormTimeout, SharedTypes
  <2>3. formCount \in 0 .. K - 1 /\ responders \in SUBSET Server
    BY <1>0 DEF LocalTypes
  <2>4. LocalTypes'
    BY <1>0, <1>3, <2>1, <2>3 DEF LocalTypes, globals
  <2>5. SharedTypes'
    BY <1>0, <1>3, <2>1, <2>2, <2>3 DEF SharedTypes
  <2>6. OtherTypes'
    BY <1>0, <1>3, <2>1, <2>3 DEF OtherTypes, network
  <2> QED
    BY <2>4, <2>5, <2>6
       DEF TypeInv, TypeOK, LocalTypes, SharedTypes, OtherTypes
<1> QED
  BY <1>5, <1>6

(* Collecting an answer keeps the types. *)
LEMMA ReceiveTypes ==
  ASSUME TypeInv, Receive \/ RetryReceive
  PROVE  TypeInv'
<1> USE QuorumAssumption
<1>0. LocalTypes /\ SharedTypes /\ OtherTypes
  BY TypeParts
<1>1. /\ Head(mainQueue) \in Message /\ Tail(mainQueue) \in Seq(Message)
      /\ request \in DOMAIN heap /\ count \in 0 .. K - 1
  BY <1>0, HeadMessage
     DEF Receive, RetryReceive, LocalTypes, SharedTypes, OtherTypes
<1>2. Collect(Head(mainQueue)) /\ mainQueue' = Tail(mainQueue)
  BY DEF Receive, RetryReceive
<1>3. /\ count' \in 0 .. K /\ answers' \in [Server -> Nat \cup {NoAnswer}]
      /\ pc' \in {"wait", "return"}
      /\ pc' = "wait" => count' < K
  <2>1. CASE Head(mainQueue).id = idCounter
    <3>1. Head(mainQueue).sender \in Server /\ Head(mainQueue).call \in Nat
      BY <1>1 DEF Message
    <3>2. /\ count' = count + 1
          /\ answers' = [answers EXCEPT ![Head(mainQueue).sender] =
                                         Head(mainQueue).call]
          /\ pc' = IF count + 1 = K THEN "return" ELSE "wait"
      BY <1>2, <2>1 DEF Collect
    <3>3. answers' \in [Server -> Nat \cup {NoAnswer}]
      BY <1>0, <3>1, <3>2 DEF LocalTypes
    <3> QED
      BY <1>1, <3>2, <3>3
  <2>2. CASE Head(mainQueue).id # idCounter
    BY <1>0, <1>1, <1>2, <2>2 DEF Collect, collected, LocalTypes
  <2> QED
    BY <2>1, <2>2
<1>4. /\ UNCHANGED <<quorum, position, pointer, idCounter, memory, queue,
                     worker, form, network, history>>
      /\ mustForm' \in BOOLEAN
  BY <1>0 DEF Receive, RetryReceive, globals, LocalTypes
<1>5. LocalTypes'
  BY <1>0, <1>3, <1>4 DEF LocalTypes, form, history
<1>6. SharedTypes'
  BY <1>0, <1>1, <1>2, <1>4 DEF SharedTypes, memory
<1>7. OtherTypes'
  BY <1>0, <1>1, <1>3, <1>4 DEF OtherTypes, memory, network
<1> QED
  BY <1>5, <1>6, <1>7
     DEF TypeInv, TypeOK, LocalTypes, SharedTypes, OtherTypes

(* Asking one more server keeps the types, inside the array or not. *)
LEMMA AskTypes ==
  ASSUME SharedTypes, request \in DOMAIN heap, NEW p \in Nat, Ask(p),
         quorum \in [Server -> Server]
  PROVE  /\ queue' \in [Server -> Seq(DOMAIN heap)]
         /\ pc' \in {"retry", "undefined"}
<1>1. CASE p \in Server
  <2>1. quorum[p] \in Server /\ queue[quorum[p]] \in Seq(DOMAIN heap)
    BY <1>1 DEF SharedTypes
  <2>2. Append(queue[quorum[p]], request) \in Seq(DOMAIN heap)
    BY <2>1, AppendProperties
  <2>3. /\ queue' = [queue EXCEPT ![quorum[p]] = Append(@, request)]
        /\ pc' = "retry"
    BY <1>1 DEF Ask
  <2>4. queue \in [Server -> Seq(DOMAIN heap)]
    BY DEF SharedTypes
  <2> QED
    BY <2>1, <2>2, <2>3, <2>4
<1>2. CASE p \notin Server
  BY <1>2 DEF Ask, SharedTypes
<1> QED
  BY <1>1, <1>2

(* A wait that ends without an answer keeps the types. *)
LEMMA TimeoutTypes ==
  ASSUME TypeInv, Timeout \/ RetryTimeout
  PROVE  TypeInv'
<1> USE QuorumAssumption
<1>0. LocalTypes /\ SharedTypes /\ OtherTypes
  BY TypeParts
<1>1. request \in DOMAIN heap /\ count \in 0 .. K - 1
  BY <1>0 DEF Timeout, RetryTimeout, OtherTypes, LocalTypes
<1>2. CASE Timeout
  <2>1. queue' \in [Server -> Seq(DOMAIN heap)] /\ pc' \in {"retry", "undefined"}
    BY <1>0, <1>1, <1>2, AskTypes DEF Timeout, LocalTypes
  <2> QED
    BY <1>0, <1>1, <1>2, <2>1
       DEF Timeout, LocalTypes, SharedTypes, OtherTypes, globals, memory, form,
           collected, network, history, TypeInv, TypeOK
<1>3. CASE RetryTimeout
  <2>1. pointer' = pointer + 1 /\ pointer' \in Nat
    BY <1>0, <1>3 DEF RetryTimeout, LocalTypes
  <2>2. UNCHANGED <<quorum, position, idCounter, heap, freed, mainQueue, worker,
                    form, network>>
    BY <1>3 DEF RetryTimeout
  <2>3. CASE pointer' = N
    <3>1. Fail /\ UNCHANGED <<queue, mustForm>>
      BY <1>3, <2>3 DEF RetryTimeout
    <3> QED
      BY <1>0, <2>1, <2>2, <3>1
         DEF Fail, EndCall, NoAnswers, LocalTypes, SharedTypes, OtherTypes,
             form, network, TypeInv, TypeOK
  <2>4. CASE pointer' # N
    <3>1. Ask(pointer') /\ mustForm' = TRUE
          /\ UNCHANGED <<request, collected, history>>
      BY <1>3, <2>4 DEF RetryTimeout
    <3>2. queue' \in [Server -> Seq(DOMAIN heap)] /\ pc' \in {"retry", "undefined"}
      BY <1>0, <1>1, <2>1, <3>1, AskTypes DEF LocalTypes
    <3> QED
      BY <1>0, <1>1, <2>1, <2>2, <3>1, <3>2
         DEF LocalTypes, SharedTypes, OtherTypes, form, collected, network,
             history, TypeInv, TypeOK
  <2> QED
    BY <2>3, <2>4
<1> QED
  BY <1>2, <1>3

(* Returning the answers, with write-backs or without, keeps the types. *)
LEMMA ReturnTypes ==
  ASSUME TypeInv, NEW w \in 0 .. MaxWriteBacks, Return(w)
  PROVE  TypeInv'
<1> USE QuorumAssumption
<1>0. LocalTypes /\ SharedTypes /\ OtherTypes
  BY TypeParts
<1>1. request \in DOMAIN heap /\ 0 \in Server
  BY <1>0 DEF Return, OtherTypes, Server
<1>2. /\ idCounter' = idCounter + 1 + w /\ idCounter' \in Nat
      /\ pc' = "idle" /\ count' = 0 /\ answers' = NoAnswers
      /\ doneBy' = {} /\ responders' = {} /\ call' = call
      /\ UNCHANGED <<quorum, position, pointer, mustForm, freed, queue, worker,
                     form, network, failed>>
  BY <1>0 DEF Return, EndCall, LocalTypes
<1>3. answers' \in [Server -> Nat \cup {NoAnswer}]
  BY <1>2 DEF NoAnswers
<1>4. LocalTypes'
  BY <1>0, <1>2, <1>3 DEF LocalTypes, form
<1>5. OtherTypes'
  BY <1>0, <1>2 DEF OtherTypes, network
<1>6. SharedTypes'
  <2>1. CASE w = 0
    BY <1>0, <1>2, <2>1 DEF Return, SharedTypes
  <2>2. CASE w # 0
    <3> DEFINE t == [id |-> idCounter + w, call |-> 0]
               m == [id |-> idCounter + w, sender |-> 0, call |-> 0]
               back == [i \in 1 .. w |-> m]
    <3>1. t \in Task /\ m \in Message
      BY <1>0, <1>1 DEF Task, Message, LocalTypes
    <3>2. /\ heap' = [heap EXCEPT ![request] = t] /\ request' = 0
          /\ mainQueue' = mainQueue \o back
      BY <2>2 DEF Return
    <3>3. heap' \in Seq(Task) /\ DOMAIN heap' = DOMAIN heap
      BY <1>0, <1>1, <3>1, <3>2, ExceptStruct DEF SharedTypes
    <3>4. back \in Seq(Message)
      BY <3>1, SeqOf
    <3>5. mainQueue' \in Seq(Message)
      BY <1>0, <3>2, <3>4, ConcatProperties DEF SharedTypes
    <3> QED
      BY <1>0, <1>2, <3>2, <3>3, <3>5 DEF SharedTypes
  <2> QED
    BY <2>1, <2>2
<1> QED
  BY <1>4, <1>5, <1>6
     DEF TypeInv, TypeOK, LocalTypes, SharedTypes, OtherTypes

(* Putting an answer in the queue of the main thread. *)
LEMMA ReplyTypes ==
  ASSUME SharedTypes, NEW s \in Server, Reply(s),
         UNCHANGED <<memory, queue>>
  PROVE  SharedTypes'
<1>1. [id |-> worker[s].id, sender |-> s, call |-> worker[s].call] \in Message
  BY DEF SharedTypes, Thinking, Message
<1>2. mainQueue' \in Seq(Message)
  BY <1>1, AppendMessage DEF Reply, SharedTypes
<1>3. worker' \in [Server -> Thinking]
      /\ \A t \in Server : worker'[t].at = "taken" => worker[t].at = "taken"
                                            /\ worker'[t].task = worker[t].task
  BY DEF Reply, SharedTypes, Idle, Thinking
<1> QED
  BY <1>2, <1>3 DEF SharedTypes, memory

(* The threads keep the types. *)
LEMMA ThreadTypes ==
  ASSUME TypeInv, NEW s \in Server, Thread(s)
  PROVE  TypeInv'
<1>0. LocalTypes /\ SharedTypes /\ OtherTypes
  BY TypeParts
<1>1. CASE Take(s)
  <2>1. Head(queue[s]) \in DOMAIN heap /\ Tail(queue[s]) \in Seq(DOMAIN heap)
    BY <1>0, <1>1, HeadTailProperties DEF Take, SharedTypes
  <2>2. heap[Head(queue[s])] \in Task
    BY <1>0, <2>1, LenProperties, ElementOfSeq DEF SharedTypes
  <2>3. DOMAIN heap \subseteq Nat
    BY <1>0, LenProperties DEF SharedTypes
  <2>4. queue' \in [Server -> Seq(DOMAIN heap)]
    BY <1>0, <1>1, <2>1 DEF Take, SharedTypes
  <2>5. UNCHANGED <<globals, memory, mainQueue, form, collected, network, history>>
    BY <1>1 DEF Take
  <2>6. /\ worker' \in [Server -> Thinking]
        /\ \A t \in Server : worker'[t].at = "taken" => worker'[t].task \in DOMAIN heap
        /\ pc' \in {pc, "undefined"}
    <3> DEFINE r == Head(queue[s])
               new == [at |-> "taken", task |-> r, call |-> heap[r].call, id |-> 0]
    <3>1. new \in Thinking
      BY <2>1, <2>2, <2>3 DEF Thinking, Task
    <3>2. \/ pc' = "undefined" /\ UNCHANGED worker
          \/ worker' = [worker EXCEPT ![s] = new] /\ UNCHANGED pc
      BY <1>1 DEF Take
    <3>3. CASE worker' = [worker EXCEPT ![s] = new] /\ UNCHANGED pc
      BY <1>0, <2>1, <3>1, <3>3 DEF SharedTypes
    <3>4. CASE pc' = "undefined" /\ UNCHANGED worker
      BY <1>0, <3>4 DEF SharedTypes
    <3> QED
      BY <3>2, <3>3, <3>4
  <2>7. LocalTypes'
    BY <1>0, <2>5 DEF LocalTypes, globals, form, collected, history
  <2>8. SharedTypes'
    BY <1>0, <2>4, <2>5, <2>6 DEF SharedTypes, memory
  <2>9. OtherTypes'
    BY <1>0, <2>5, <2>6 DEF OtherTypes, memory, collected, network
  <2> QED
    BY <2>7, <2>8, <2>9
       DEF TypeInv, TypeOK, LocalTypes, SharedTypes, OtherTypes
<1>2. CASE ReadId(s)
  <2>1. UNCHANGED <<globals, memory, queue, mainQueue, form, collected, network, history>>
    BY <1>2 DEF ReadId
  <2>2. /\ worker' \in [Server -> Thinking]
        /\ \A t \in Server : worker'[t].at = "taken" => worker'[t].task \in DOMAIN heap
        /\ pc' \in {pc, "undefined"}
    <3> DEFINE id == heap[worker[s].task].id
               new == [worker[s] EXCEPT !.at = "rpc", !.task = 0, !.id = id]
    <3>1. heap[worker[s].task] \in Task
      BY <1>0, <1>2, LenProperties, ElementOfSeq DEF ReadId, SharedTypes
    <3>2. new \in Thinking /\ new.at = "rpc"
      BY <1>0, <3>1 DEF SharedTypes, Thinking, Task
    <3>3. \/ pc' = "undefined" /\ UNCHANGED worker
          \/ worker' = [worker EXCEPT ![s] = new] /\ UNCHANGED pc
      BY <1>0, <1>2 DEF ReadId, SharedTypes, Thinking
    <3> QED
      BY <1>0, <3>2, <3>3 DEF SharedTypes
  <2>3. LocalTypes'
    BY <1>0, <2>1 DEF LocalTypes, globals, form, collected, history
  <2>4. SharedTypes'
    BY <1>0, <2>1, <2>2 DEF SharedTypes, memory
  <2>5. OtherTypes'
    BY <1>0, <2>1, <2>2 DEF OtherTypes, memory, collected, network
  <2> QED
    BY <2>3, <2>4, <2>5
       DEF TypeInv, TypeOK, LocalTypes, SharedTypes, OtherTypes
<1>3. CASE Serve(s) \/ DieServing(s) \/ ReadFails(s)
  <2>1. Reply(s) /\ UNCHANGED <<pc, globals, memory, queue, form, collected,
                               call, responders, failed>>
    BY <1>3 DEF Serve, DieServing, ReadFails, history
  <2>2. doneBy' \subseteq Server
    BY <1>0, <1>3 DEF Serve, DieServing, ReadFails, Executed, LocalTypes, history
  <2>3. /\ alive' \in [Server -> BOOLEAN]
        /\ link' \in [Server -> {"up", "stale", "broken"}] /\ crashes' \in Nat
    <3>1. CASE Serve(s)
      BY <1>0, <3>1 DEF Serve, OtherTypes, network
    <3>2. CASE DieServing(s)
      BY <1>0, <3>2 DEF DieServing, OtherTypes
    <3>3. CASE ReadFails(s)
      BY <1>0, <3>3 DEF ReadFails, OtherTypes
    <3> QED
      BY <1>3, <3>1, <3>2, <3>3
  <2>4. LocalTypes'
    BY <1>0, <2>1, <2>2 DEF LocalTypes, globals, form, collected
  <2>5. SharedTypes'
    BY <1>0, <2>1, ReplyTypes
  <2>6. OtherTypes'
    BY <1>0, <2>1, <2>3 DEF OtherTypes, memory, collected
  <2> QED
    BY <2>4, <2>5, <2>6
       DEF TypeInv, TypeOK, LocalTypes, SharedTypes, OtherTypes
<1>4. CASE WriteFails(s) \/ Reconnect(s)
  <2>1. UNCHANGED <<pc, globals, memory, queue, mainQueue, worker, form,
                    collected, alive, crashes, history>>
    BY <1>4 DEF WriteFails, Reconnect
  <2>2. link' \in [Server -> {"up", "stale", "broken"}]
    BY <1>0, <1>4 DEF WriteFails, Reconnect, OtherTypes
  <2>3. LocalTypes'
    BY <1>0, <2>1 DEF LocalTypes, globals, form, collected, history
  <2>4. SharedTypes'
    BY <1>0, <2>1 DEF SharedTypes, memory
  <2>5. OtherTypes'
    BY <1>0, <2>1, <2>2 DEF OtherTypes, memory, collected
  <2> QED
    BY <2>3, <2>4, <2>5
       DEF TypeInv, TypeOK, LocalTypes, SharedTypes, OtherTypes
<1> QED
  BY <1>1, <1>2, <1>3, <1>4 DEF Thread

(* Servers that stop and start keep the types. *)
LEMMA EnvironmentTypes ==
  ASSUME TypeInv, NEW s \in Server, Environment(s)
  PROVE  TypeInv'
<1>0. LocalTypes /\ SharedTypes /\ OtherTypes
  BY TypeParts
<1>1. UNCHANGED <<pc, globals, memory, queue, mainQueue, worker, form,
                  collected, history>>
  BY DEF Environment, Crash, Restart
<1>2. /\ alive' \in [Server -> BOOLEAN]
      /\ link' \in [Server -> {"up", "stale", "broken"}] /\ crashes' \in Nat
  <2>1. CASE Crash(s)
    BY <1>0, <2>1 DEF Crash, OtherTypes
  <2>2. CASE Restart(s)
    BY <1>0, <2>2 DEF Restart, OtherTypes
  <2> QED
    BY <2>1, <2>2 DEF Environment
<1>3. LocalTypes'
  BY <1>0, <1>1 DEF LocalTypes, globals, form, collected, history
<1>4. SharedTypes'
  BY <1>0, <1>1 DEF SharedTypes, memory
<1>5. OtherTypes'
  BY <1>0, <1>1, <1>2 DEF OtherTypes, memory, collected
<1> QED
  BY <1>3, <1>4, <1>5
     DEF TypeInv, TypeOK, LocalTypes, SharedTypes, OtherTypes

(* The types hold in every reachable state, also after a failed call. *)
THEOREM TypeCorrect == Spec => []TypeInv
<1>1. Init => TypeInv
  <2> SUFFICES ASSUME Init PROVE TypeInv
    OBVIOUS
  <2>1. /\ 0 \in Server /\ (N + 1) \div 2 \in Nat /\ 0 \in 0 .. K - 1 /\ 0 < K
    BY QuorumAssumption DEF Server
  <2>2. LocalTypes
    BY <2>1, QuorumAssumption DEF Init, LocalTypes, NoAnswers
  <2>3. SharedTypes
    BY EmptySeq DEF Init, SharedTypes, Idle, Thinking
  <2>4. OtherTypes
    BY <2>1 DEF Init, OtherTypes
  <2> QED
    BY <2>2, <2>3, <2>4, TypeParts
<1>2. TypeInv /\ [Next]_vars => TypeInv'
  <2> SUFFICES ASSUME TypeInv, [Next]_vars PROVE TypeInv'
    OBVIOUS
  <2>1. CASE CallNew \/ CallAgain
    BY <2>1, CallTypes
  <2>2. CASE Send
    BY <2>2, SendTypes
  <2>3. CASE FormProbe \/ FormOther \/ FormTimeout
    BY <2>3, FormTypes
  <2>4. CASE Receive \/ RetryReceive
    BY <2>4, ReceiveTypes
  <2>5. CASE Timeout \/ RetryTimeout
    BY <2>5, TimeoutTypes
  <2>6. ASSUME NEW w \in 0 .. MaxWriteBacks, Return(w) PROVE TypeInv'
    BY <2>6, ReturnTypes
  <2>7. ASSUME NEW s \in Server, Thread(s) PROVE TypeInv'
    BY <2>7, ThreadTypes
  <2>8. ASSUME NEW s \in Server, Environment(s) PROVE TypeInv'
    BY <2>8, EnvironmentTypes
  <2>9. CASE UNCHANGED vars
    BY <2>9 DEF vars, globals, memory, form, collected, network, history,
                TypeInv, TypeOK
  <2> QED
    BY <2>1, <2>2, <2>3, <2>4, <2>5, <2>6, <2>7, <2>8, <2>9 DEF Next, Main
<1> QED
  BY <1>1, <1>2, PTL DEF Spec

-----------------------------------------------------------------------------
(***************************************************************************)
(* Why the answers of a call belong to it.  An id that equals id_counter   *)
(* is found nowhere before the request of the call is sent; after that,    *)
(* only in its own struct, in the threads that took that struct, and in    *)
(* their answers.  A thread reads what to do and the id at two moments:    *)
(* TakenInTime says that both belong to the same call.                     *)
(***************************************************************************)
HeapFresh ==
  \A r \in DOMAIN heap :
    Fresh(heap[r].id, heap[r].call) /\ (heap[r].id = idCounter => r = request)

QueueFresh == \A i \in DOMAIN mainQueue : Fresh(mainQueue[i].id, mainQueue[i].call)

ThreadsFresh ==
  \A s \in Server :
    /\ worker[s].at = "rpc" => Fresh(worker[s].id, worker[s].call)
    /\ worker[s].at = "taken" => Fresh(heap[worker[s].task].id, worker[s].call)

TakenInTime ==
  \A s \in Server :
    worker[s].at = "taken" /\ worker[s].task = request =>
      worker[s].call = heap[request].call

RequestOfCall == pc # "idle" => heap[request].call = call

(* Between two calls, and until the request is sent, nothing is collected. *)
NothingCollected == ~ Asking => answers = NoAnswers

(* Nothing undefined is reached: the next position to ask is in the array, *)
(* and no struct has been freed.                                           *)
Defined == pc # "undefined" /\ pointer < N /\ freed = {} /\ idCounter > 0

Safe ==
  /\ HeapFresh /\ QueueFresh /\ ThreadsFresh
  /\ TakenInTime /\ RequestOfCall
  /\ AnswersOfCall /\ NothingCollected
  /\ Defined

SafeUntilFailure == ~ failed => Safe

(* What must hold of the constants: a second server to ask, and callers    *)
(* that give every call a struct of its own.                               *)
OwnRequests == N > 1 /\ ReuseRequest = FALSE

(* A state in which the parts of Safe read the same. *)
LEMMA SafeStutter ==
  ASSUME Safe,
         UNCHANGED <<pc, pointer, idCounter, heap, freed, request, mainQueue,
                     worker, answers, call>>
  PROVE  Safe'
BY DEF Safe, HeapFresh, QueueFresh, ThreadsFresh, TakenInTime, RequestOfCall,
       AnswersOfCall, NothingCollected, Defined, Fresh, Asking

(* Starting a call: the new struct, and the probe, have ids of no call. *)
LEMMA CallSafe ==
  ASSUME TypeInv, Safe, CallNew
  PROVE  Safe'
<1> DEFINE t == [id |-> 0, call |-> call + 1]
           probe == [id |-> PROBE, call |-> 0]
           h == Append(heap, t)
<1>1. /\ pc = "idle" /\ pc' \in {"form", "send"}
      /\ idCounter \in Nat \ {0} /\ call \in Nat /\ heap \in Seq(Task)
      /\ request' = Len(heap) + 1 /\ call' = call + 1
      /\ heap' = IF mustForm THEN Append(h, probe) ELSE h
      /\ UNCHANGED <<pointer, idCounter, freed, mainQueue, worker, answers>>
  <2>1. /\ idCounter \in Nat \ {0} /\ call \in Nat /\ heap \in Seq(Task)
    BY DEF TypeInv, TypeOK, Safe, Defined
  <2>2. Start(Len(heap) + 1, h)
    BY DEF CallNew
  <2>3. /\ pc = "idle" /\ pc' \in {"form", "send"}
        /\ request' = Len(heap) + 1 /\ call' = call + 1
        /\ heap' = IF mustForm THEN Append(h, probe) ELSE h
    BY <2>2 DEF Start
  <2>4. UNCHANGED <<pointer, idCounter, freed, mainQueue, worker, answers>>
    BY <2>2 DEF Start, globals, collected
  <2> QED
    BY <2>1, <2>3, <2>4
<1>2. t \in Task /\ probe \in Task
  BY <1>1 DEF Task, PROBE
<1>3. /\ h \in Seq(Task) /\ Len(heap) \in Nat /\ DOMAIN heap = 1 .. Len(heap)
      /\ DOMAIN h = 1 .. Len(heap) + 1 /\ Len(h) = Len(heap) + 1
      /\ \A i \in DOMAIN heap : h[i] = heap[i]
      /\ h[Len(heap) + 1] = t
  BY <1>1, <1>2, AppendStruct
<1>4. /\ DOMAIN Append(h, probe) = 1 .. Len(heap) + 2
      /\ \A i \in DOMAIN h : Append(h, probe)[i] = h[i]
      /\ Append(h, probe)[Len(heap) + 2] = probe
  <2>1. Len(h) + 1 = Len(heap) + 2
    BY <1>3
  <2> QED
    BY <1>2, <1>3, <2>1, AppendStruct
<1>5. /\ \A i \in DOMAIN heap : i \in DOMAIN heap' /\ heap'[i] = heap[i]
      /\ heap'[request'] = t
      /\ \A r \in DOMAIN heap' :
           r \in DOMAIN heap \/ heap'[r] = t \/ heap'[r] = probe
  <2>1. CASE mustForm
    <3>1. heap' = Append(h, probe)
      BY <1>1, <2>1
    <3>2. \A r \in DOMAIN heap' : r \in DOMAIN heap \/ r = Len(heap) + 1 \/ r = Len(heap) + 2
      BY <1>3, <1>4, <3>1
    <3> QED
      BY <1>1, <1>3, <1>4, <3>1, <3>2
  <2>2. CASE ~ mustForm
    BY <1>1, <1>3, <2>2
  <2> QED
    BY <2>1, <2>2
<1>6. ~ Asking /\ ~ Asking'
  BY <1>1 DEF Asking
<1>7. HeapFresh'
  <2>1. \A r \in DOMAIN heap : heap[r].id < idCounter
    BY <1>6 DEF Safe, HeapFresh, Fresh
  <2>2. \A r \in DOMAIN heap' : heap'[r].id < idCounter
    BY <1>1, <1>5, <2>1 DEF PROBE
  <2>3. \A r \in DOMAIN heap' : heap'[r].id # idCounter
    <3> TAKE r \in DOMAIN heap'
    <3>1. heap'[r].id < idCounter /\ idCounter \in Nat
      BY <1>1, <2>2
    <3>2. heap'[r].id \in Int
      <4>1. r \in DOMAIN heap => heap[r] \in Task
        BY <1>1, LenProperties, ElementOfSeq
      <4> QED
        BY <1>2, <1>5, <4>1 DEF Task
    <3> QED
      BY <3>1, <3>2
  <2> QED
    BY <1>1, <2>2, <2>3 DEF HeapFresh, Fresh
<1>8. QueueFresh'
  BY <1>1, <1>6 DEF Safe, QueueFresh, Fresh
<1>9. \A s \in Server : worker[s].at = "taken" => worker[s].task \in DOMAIN heap
  BY DEF TypeInv, TypeOK
<1>10. ThreadsFresh'
  BY <1>1, <1>5, <1>6, <1>9 DEF Safe, ThreadsFresh, Fresh
<1>11. TakenInTime'
  <2>1. request' \notin DOMAIN heap
    BY <1>1, <1>3
  <2> QED
    BY <1>1, <1>9, <2>1 DEF TakenInTime
<1>12. RequestOfCall'
  BY <1>1, <1>5 DEF RequestOfCall
<1>13. AnswersOfCall' /\ NothingCollected'
  BY <1>1, <1>6 DEF Safe, NothingCollected, AnswersOfCall, NoAnswers, NoAnswer
<1>14. Defined'
  BY <1>1 DEF Safe, Defined
<1> QED
  BY <1>7, <1>8, <1>10, <1>11, <1>12, <1>13, <1>14 DEF Safe

(* Sending: from here on the id of the call is in use, in its struct only. *)
LEMMA SendSafe ==
  ASSUME TypeInv, Safe, Send
  PROVE  Safe'
<1> DEFINE t == [heap[request] EXCEPT !.id = idCounter]
<1>1. /\ pc = "send" /\ pc' = "wait" /\ request \in DOMAIN heap
      /\ heap \in Seq(Task) /\ idCounter \in Nat
      /\ heap' = [heap EXCEPT ![request] = t]
      /\ UNCHANGED <<pointer, idCounter, freed, request, mainQueue, worker,
                     answers, call>>
  BY DEF Send, TypeInv, TypeOK, globals, collected
<1>2. heap[request] \in Task /\ heap[request].call = call
  BY <1>1, LenProperties, ElementOfSeq DEF Safe, RequestOfCall
<1>3. t.id = idCounter /\ t.call = call /\ t.call = heap[request].call
  BY <1>2 DEF Task
<1>4. /\ DOMAIN heap' = DOMAIN heap
      /\ heap'[request] = t
      /\ \A r \in DOMAIN heap : r # request => heap'[r] = heap[r]
  BY <1>1
<1>5. ~ Asking /\ Asking'
  BY <1>1 DEF Asking
<1>6. HeapFresh'
  <2>1. \A r \in DOMAIN heap : r # request => heap'[r].id < idCounter
                                              /\ heap'[r].id # idCounter
    <3> TAKE r \in DOMAIN heap
    <3>1. heap[r].id < idCounter
      BY <1>5 DEF Safe, HeapFresh, Fresh
    <3>2. heap[r] \in Task
      BY <1>1, LenProperties, ElementOfSeq
    <3> QED
      BY <1>1, <1>4, <3>1, <3>2 DEF Task
  <2> QED
    BY <1>1, <1>3, <1>4, <1>5, <2>1 DEF HeapFresh, Fresh
<1>7. QueueFresh'
  BY <1>1, <1>5 DEF Safe, QueueFresh, Fresh
<1>8. \A s \in Server : worker[s].at = "taken" => worker[s].task \in DOMAIN heap
  BY DEF TypeInv, TypeOK
<1>9. ThreadsFresh'
  <2> SUFFICES ASSUME NEW s \in Server
               PROVE  /\ worker[s].at = "rpc" => Fresh(worker[s].id, worker[s].call)'
                      /\ worker[s].at = "taken" =>
                           Fresh(heap[worker[s].task].id, worker[s].call)'
    BY <1>1 DEF ThreadsFresh
  <2>1. worker[s].at = "rpc" => Fresh(worker[s].id, worker[s].call)'
    BY <1>1, <1>5 DEF Safe, ThreadsFresh, Fresh
  <2>2. CASE worker[s].at = "taken" /\ worker[s].task = request
    <3>1. worker[s].call = call
      BY <1>2, <2>2 DEF Safe, TakenInTime
    <3> QED
      BY <1>1, <1>3, <1>4, <1>5, <2>1, <2>2, <3>1 DEF Fresh
  <2>3. CASE worker[s].at = "taken" /\ worker[s].task # request
    BY <1>1, <1>4, <1>5, <1>8, <2>1, <2>3 DEF Safe, ThreadsFresh, Fresh
  <2> QED
    BY <2>1, <2>2, <2>3
<1>10. TakenInTime' /\ RequestOfCall'
  BY <1>1, <1>2, <1>3, <1>4 DEF Safe, TakenInTime, RequestOfCall
<1>11. AnswersOfCall' /\ NothingCollected'
  BY <1>1, <1>5 DEF Safe, AnswersOfCall, NothingCollected
<1>12. Defined'
  BY <1>1 DEF Safe, Defined
<1> QED
  BY <1>6, <1>7, <1>9, <1>10, <1>11, <1>12 DEF Safe

(* Messages that leave the queue, while the main thread stays on the same  *)
(* side of Asking.                                                         *)
LEMMA TailSafe ==
  ASSUME TypeInv, Safe, mainQueue # <<>>,
         mainQueue' \in {mainQueue, Tail(mainQueue)},
         UNCHANGED <<idCounter, call>>, Asking => Asking'
  PROVE  QueueFresh'
<1>1. \A i \in DOMAIN Tail(mainQueue) :
         i + 1 \in DOMAIN mainQueue /\ Tail(mainQueue)[i] = mainQueue[i + 1]
  BY HeadMessage DEF TypeInv, TypeOK
<1>2. \A id, c : Fresh(id, c) => Fresh(id, c)'
  BY DEF Fresh
<1> QED
  BY <1>1, <1>2 DEF Safe, QueueFresh

(* The parts of Safe that a step which only moves pc keeps. *)
LEMMA StepSafe ==
  ASSUME TypeInv, Safe, QueueFresh', pc # "idle",
         UNCHANGED <<idCounter, heap, freed, request, worker, call>>,
         Asking => Asking',
         AnswersOfCall', NothingCollected', pc' # "undefined", pointer' < N
  PROVE  Safe'
<1>1. \A id, c : Fresh(id, c) => Fresh(id, c)'
  BY DEF Fresh
<1>2. HeapFresh' /\ ThreadsFresh'
  BY <1>1 DEF Safe, HeapFresh, ThreadsFresh
<1>3. TakenInTime' /\ RequestOfCall'
  BY DEF Safe, TakenInTime, RequestOfCall
<1>4. Defined'
  BY DEF Safe, Defined
<1> QED
  BY <1>2, <1>3, <1>4 DEF Safe

(* Forming a quorum. *)
LEMMA FormSafe ==
  ASSUME TypeInv, Safe, ~ failed', FormProbe \/ FormOther \/ FormTimeout
  PROVE  Safe'
<1>1. \A n, R : NextIndex(n, R) =>
        pc' = pc /\ UNCHANGED <<freed, request, answers, call>>
  BY DEF NextIndex, Fail, collected
<1>2. \A R : Formed(R) =>
        pc' = "send" /\ UNCHANGED <<freed, request, answers, call>>
  BY DEF Formed, collected
<1>3. /\ pc = "form" /\ pc' \in {"form", "send"}
      /\ mainQueue # <<>> => mainQueue' \in {mainQueue, Tail(mainQueue)}
      /\ mainQueue = <<>> => mainQueue' = mainQueue
      /\ UNCHANGED <<pointer, idCounter, heap, freed, request, worker, answers, call>>
  <2>1. CASE FormProbe
    BY <1>1, <1>2, <2>1 DEF FormProbe
  <2>2. CASE FormOther \/ FormTimeout
    BY <1>1, <2>2 DEF FormOther, FormTimeout, globals
  <2> QED
    BY <2>1, <2>2
<1>4. ~ Asking /\ ~ Asking'
  BY <1>3 DEF Asking
<1>5. QueueFresh'
  <2>1. CASE mainQueue # <<>>
    BY <1>3, <1>4, <2>1, TailSafe
  <2>2. CASE mainQueue = <<>>
    BY <1>3, <1>4, <2>2 DEF Safe, QueueFresh, Fresh
  <2> QED
    BY <2>1, <2>2
<1>6. AnswersOfCall' /\ NothingCollected'
  BY <1>3, <1>4 DEF Safe, AnswersOfCall, NothingCollected
<1>7. pc' # "undefined" /\ pointer' < N
  BY <1>3 DEF Safe, Defined
<1> QED
  BY <1>3, <1>4, <1>5, <1>6, <1>7, StepSafe

(* Collecting: only a message of this call has its id. *)
LEMMA ReceiveSafe ==
  ASSUME TypeInv, Safe, Receive \/ RetryReceive
  PROVE  Safe'
<1> DEFINE m == Head(mainQueue)
<1>1. /\ pc \in {"wait", "retry"} /\ mainQueue # <<>> /\ Collect(m)
      /\ mainQueue' = Tail(mainQueue)
      /\ UNCHANGED <<pointer, idCounter, heap, freed, request, worker, call>>
  BY DEF Receive, RetryReceive, globals, memory, history
<1>2. pc' \in {"wait", "return"}
  BY <1>1 DEF Collect
<1>3. Asking /\ Asking'
  BY <1>1, <1>2 DEF Asking
<1>4. QueueFresh'
  BY <1>1, <1>3, TailSafe
<1>5. m \in Message /\ Fresh(m.id, m.call)
  BY <1>1, HeadMessage DEF Safe, QueueFresh, TypeInv, TypeOK
<1>6. AnswersOfCall'
  <2>1. answers \in [Server -> Nat \cup {NoAnswer}] /\ idCounter \in Nat
    BY DEF TypeInv, TypeOK
  <2>2. CASE m.id = idCounter
    <3>1. m.call = call
      BY <1>5, <2>1, <2>2 DEF Fresh
    <3>2. answers' = [answers EXCEPT ![m.sender] = m.call]
      BY <1>1, <2>2 DEF Collect
    <3> QED
      BY <1>1, <2>1, <3>1, <3>2 DEF Safe, AnswersOfCall
  <2>3. CASE m.id # idCounter
    BY <1>1, <2>3 DEF Collect, collected, Safe, AnswersOfCall
  <2> QED
    BY <2>2, <2>3
<1>7. NothingCollected'
  BY <1>3 DEF NothingCollected
<1>8. pc' # "undefined" /\ pointer' < N /\ pc # "idle"
  BY <1>1, <1>2 DEF Safe, Defined
<1> QED
  BY <1>1, <1>3, <1>4, <1>6, <1>7, <1>8, StepSafe

(* A wait that ends: the pointer stays in the array, or the call fails. *)
LEMMA TimeoutSafe ==
  ASSUME TypeInv, Safe, ~ failed', Timeout \/ RetryTimeout
  PROVE  Safe'
<1>1. /\ pc \in {"wait", "retry"} /\ Ask(pointer')
      /\ pointer' \in Nat /\ pointer' < N
      /\ UNCHANGED <<idCounter, heap, freed, request, mainQueue, worker, answers, call>>
  <2>1. pointer \in Nat /\ pointer < N /\ N \in Nat
    BY QuorumAssumption DEF TypeInv, TypeOK, Safe, Defined
  <2>2. CASE Timeout
    BY <2>1, <2>2 DEF Timeout, globals, memory, collected, history
  <2>3. CASE RetryTimeout
    <3>1. pointer' # N
      BY <2>3 DEF RetryTimeout, Fail
    <3> QED
      BY <2>1, <2>3, <3>1 DEF RetryTimeout, collected, history
  <2> QED
    BY <2>2, <2>3
<1>2. pc' = "retry"
  <2>1. pointer' \in Server
    BY <1>1, QuorumAssumption DEF Server
  <2> QED
    BY <1>1, <2>1 DEF Ask
<1>3. Asking /\ Asking'
  BY <1>1, <1>2 DEF Asking
<1>4. QueueFresh'
  BY <1>1, <1>3 DEF Safe, QueueFresh, Fresh
<1>5. AnswersOfCall' /\ NothingCollected'
  BY <1>1, <1>3 DEF Safe, AnswersOfCall, NothingCollected
<1> QED
  BY <1>1, <1>2, <1>3, <1>4, <1>5, StepSafe

(* Returning: id_counter passes every id there is, write-backs included. *)
LEMMA ReturnSafe ==
  ASSUME TypeInv, Safe, NEW w \in 0 .. MaxWriteBacks, Return(w)
  PROVE  Safe'
<1> DEFINE t == [id |-> idCounter + w, call |-> 0]
           m == [id |-> idCounter + w, sender |-> 0, call |-> 0]
           back == [i \in 1 .. w |-> m]
<1>1. /\ pc = "return" /\ pc' = "idle" /\ w \in Nat
      /\ idCounter \in Nat /\ idCounter' = idCounter + 1 + w
      /\ heap \in Seq(Task) /\ mainQueue \in Seq(Message)
      /\ request \in DOMAIN heap /\ 0 \in Server
      /\ answers' = NoAnswers
      /\ UNCHANGED <<pointer, freed, worker, call>>
  BY QuorumAssumption DEF Return, EndCall, TypeInv, TypeOK, Server
<1>2. ~ Asking'
  BY <1>1 DEF Asking
<1>3. \A id \in Int : \A c : Fresh(id, c) => id < idCounter'
  BY <1>1 DEF Fresh
<1>4. \A r \in DOMAIN heap : heap[r] \in Task
  BY <1>1, LenProperties, ElementOfSeq
<1>5. \A i \in DOMAIN mainQueue : mainQueue[i] \in Message
  BY <1>1, LenProperties, ElementOfSeq
<1>6. /\ DOMAIN heap' = DOMAIN heap
      /\ \A r \in DOMAIN heap : heap'[r] = heap[r] \/ heap'[r] = t
      /\ \A r \in DOMAIN heap : r # request => heap'[r] = heap[r]
      /\ request' = 0 \/ (request' = request /\ heap' = heap)
  BY <1>1 DEF Return
<1>7. \A r \in DOMAIN heap : heap'[r].id \in Int /\ heap'[r].id < idCounter'
  <2> TAKE r \in DOMAIN heap
  <2>1. heap[r].id \in Int /\ heap[r].id < idCounter'
    BY <1>3, <1>4 DEF Safe, HeapFresh, Task
  <2> QED
    BY <1>1, <1>6, <2>1
<1>8. HeapFresh'
  <2>1. \A r \in DOMAIN heap : heap'[r].id # idCounter'
    BY <1>1, <1>7
  <2> QED
    BY <1>6, <1>7, <2>1 DEF HeapFresh, Fresh
<1>9. QueueFresh'
  <2>1. \A i \in DOMAIN mainQueue : mainQueue[i].id < idCounter'
    BY <1>3, <1>5 DEF Safe, QueueFresh, Message
  <2>2. CASE w = 0
    BY <2>1, <2>2 DEF Return, QueueFresh, Fresh
  <2>3. CASE w # 0
    <3>1. m \in Message
      BY <1>1 DEF Message
    <3>2. back \in Seq(Message) /\ mainQueue' = mainQueue \o back
      BY <1>1, <2>3, <3>1, SeqOf DEF Return
    <3>3. /\ mainQueue' \in Seq(Message)
          /\ DOMAIN mainQueue' = 1 .. Len(mainQueue) + Len(back)
          /\ \A i \in 1 .. Len(mainQueue) + Len(back) : mainQueue'[i] =
               IF i <= Len(mainQueue) THEN mainQueue[i] ELSE back[i - Len(mainQueue)]
      <4> HIDE DEF back
      <4> QED
        BY <1>1, <3>2, ConcatProperties, LenProperties
    <3>4. /\ Len(mainQueue) \in Nat /\ DOMAIN mainQueue = 1 .. Len(mainQueue)
          /\ Len(back) \in Nat /\ DOMAIN back = 1 .. Len(back)
      BY <1>1, <3>2, LenProperties
    <3>5. \A j \in DOMAIN back : back[j].id < idCounter'
      <4>1. m.id = idCounter + w
        OBVIOUS
      <4>2. \A j \in DOMAIN back : back[j] = m
        OBVIOUS
      <4> HIDE DEF m, back
      <4> QED
        BY <1>1, <4>1, <4>2
    <3>6. ASSUME NEW i \in DOMAIN mainQueue'
          PROVE  mainQueue'[i].id < idCounter'
      <4>1. CASE i <= Len(mainQueue)
        <5>1. i \in DOMAIN mainQueue /\ mainQueue'[i] = mainQueue[i]
          BY <3>3, <3>4, <4>1
        <5> QED
          BY <2>1, <5>1
      <4>2. CASE ~ (i <= Len(mainQueue))
        <5> HIDE DEF back
        <5>1. i - Len(mainQueue) \in DOMAIN back
              /\ mainQueue'[i] = back[i - Len(mainQueue)]
          BY <3>3, <3>4, <4>2
        <5> QED
          BY <3>5, <5>1
      <4> QED
        BY <4>1, <4>2
    <3> QED
      BY <3>6 DEF QueueFresh, Fresh
  <2> QED
    BY <2>2, <2>3
<1>10. ASSUME NEW s \in Server
       PROVE  /\ worker[s] \in Thinking
              /\ worker[s].at = "taken" => worker[s].task \in DOMAIN heap
  BY DEF TypeInv, TypeOK
<1>11. ThreadsFresh'
  <2>1. \A s \in Server : worker[s].at = "rpc" => worker[s].id < idCounter'
    BY <1>3, <1>10 DEF Safe, ThreadsFresh, Thinking
  <2>2. \A s \in Server :
          worker[s].at = "taken" => heap'[worker[s].task].id < idCounter'
    BY <1>7, <1>10
  <2> QED
    BY <1>1, <2>1, <2>2 DEF ThreadsFresh, Fresh
<1>12. TakenInTime'
  <2>1. 0 \notin DOMAIN heap
    BY <1>1, LenProperties
  <2> QED
    BY <1>1, <1>6, <1>10, <2>1 DEF Safe, TakenInTime
<1>13. RequestOfCall' /\ AnswersOfCall' /\ NothingCollected'
  BY <1>1 DEF RequestOfCall, AnswersOfCall, NothingCollected, NoAnswers, NoAnswer
<1>14. Defined'
  BY <1>1 DEF Safe, Defined
<1> QED
  BY <1>8, <1>9, <1>11, <1>12, <1>13, <1>14 DEF Safe

(* A thread puts its answer in the queue. *)
LEMMA ReplySafe ==
  ASSUME TypeInv, Safe, NEW s \in Server, worker[s].at = "rpc", Reply(s),
         UNCHANGED <<pc, pointer, idCounter, heap, freed, request, answers, call>>
  PROVE  Safe'
<1> DEFINE m == [id |-> worker[s].id, sender |-> s, call |-> worker[s].call]
<1>1. mainQueue \in Seq(Message) /\ worker \in [Server -> Thinking]
  BY DEF TypeInv, TypeOK
<1>2. m \in Message /\ Fresh(m.id, m.call)
  BY <1>1 DEF Message, Thinking, Safe, ThreadsFresh
<1>3. mainQueue' = Append(mainQueue, m) /\ worker' = [worker EXCEPT ![s] = Idle]
  BY DEF Reply
<1>4. \A id, c : Fresh(id, c)' <=> Fresh(id, c)
  BY DEF Fresh, Asking
<1>5. QueueFresh'
  <2>1. \A i \in DOMAIN mainQueue' :
           mainQueue'[i] = m \/ (i \in DOMAIN mainQueue /\ mainQueue'[i] = mainQueue[i])
    BY <1>1, <1>2, <1>3, AppendMessage
  <2> HIDE DEF m
  <2> QED
    BY <1>2, <1>4, <2>1 DEF Safe, QueueFresh
<1>6. HeapFresh'
  BY <1>4 DEF Safe, HeapFresh
<1>7. \A t \in Server : worker'[t].at # "idle" => worker'[t] = worker[t]
  BY <1>1, <1>3 DEF Idle
<1>8. ThreadsFresh' /\ TakenInTime'
  BY <1>4, <1>7 DEF Safe, ThreadsFresh, TakenInTime
<1>9. RequestOfCall' /\ AnswersOfCall' /\ NothingCollected' /\ Defined'
  BY DEF Safe, RequestOfCall, AnswersOfCall, NothingCollected, Defined, Asking
<1> QED
  BY <1>5, <1>6, <1>8, <1>9 DEF Safe

(* A thread takes a struct, reads its id, makes the remote call. *)
LEMMA ThreadSafe ==
  ASSUME TypeInv, Safe, NEW s \in Server, Thread(s)
  PROVE  Safe'
<1>0. /\ worker \in [Server -> Thinking] /\ heap \in Seq(Task) /\ freed = {}
      /\ queue \in [Server -> Seq(DOMAIN heap)]
      /\ \A t \in Server : worker[t].at = "taken" => worker[t].task \in DOMAIN heap
  BY DEF TypeInv, TypeOK, Safe, Defined
<1>1. ASSUME Take(s) \/ ReadId(s)
      PROVE  UNCHANGED <<pc, pointer, idCounter, heap, freed, request, mainQueue,
                         answers, call>>
  BY <1>0, <1>1 DEF Take, ReadId, globals, memory, collected, history
<1>2. ASSUME Take(s) \/ ReadId(s), ThreadsFresh', TakenInTime'
      PROVE  Safe'
  <2>1. \A id, c : Fresh(id, c)' <=> Fresh(id, c)
    BY <1>1, <1>2 DEF Fresh, Asking
  <2>2. HeapFresh' /\ QueueFresh'
    BY <1>1, <1>2, <2>1 DEF Safe, HeapFresh, QueueFresh
  <2>3. RequestOfCall' /\ AnswersOfCall' /\ NothingCollected' /\ Defined'
    BY <1>1, <1>2
       DEF Safe, RequestOfCall, AnswersOfCall, NothingCollected, Defined, Asking
  <2> QED
    BY <1>2, <2>2, <2>3 DEF Safe
<1>3. CASE Take(s)
  <2> DEFINE r == Head(queue[s])
             new == [at |-> "taken", task |-> r, call |-> heap[r].call, id |-> 0]
  <2>1. r \in DOMAIN heap
    BY <1>0, <1>3, HeadTailProperties DEF Take
  <2>2. worker' = [worker EXCEPT ![s] = new]
    BY <1>0, <1>3 DEF Take
  <2>3. Fresh(heap[r].id, heap[r].call)
    BY <2>1 DEF Safe, HeapFresh
  <2>4. UNCHANGED <<pc, idCounter, heap, request, call>>
    BY <1>1, <1>3
  <2>5. \A t \in Server : \/ t # s /\ worker'[t] = worker[t]
                          \/ t = s /\ worker'[t] = new
    BY <1>0, <2>2
  <2>6. \A id, c : Fresh(id, c)' <=> Fresh(id, c)
    BY <2>4 DEF Fresh, Asking
  <2>7. /\ new.at = "taken" /\ new.at # "rpc" /\ new.task = r
        /\ new.call = heap[r].call
    OBVIOUS
  <2> HIDE DEF new, r
  <2>8. ThreadsFresh'
    BY <2>3, <2>4, <2>5, <2>6, <2>7 DEF Safe, ThreadsFresh
  <2>9. TakenInTime'
    BY <2>4, <2>5, <2>7 DEF Safe, TakenInTime
  <2> QED
    BY <1>2, <1>3, <2>8, <2>9
<1>4. CASE ReadId(s)
  <2> DEFINE id0 == heap[worker[s].task].id
             new == [worker[s] EXCEPT !.at = "rpc", !.task = 0, !.id = id0]
  <2>1. worker' = [worker EXCEPT ![s] = new] /\ worker[s].at = "taken"
    BY <1>0, <1>4 DEF ReadId, Thinking
  <2>2. new.at = "rpc" /\ new.id = id0 /\ new.call = worker[s].call
    BY <1>0 DEF Thinking
  <2>3. Fresh(id0, worker[s].call)
    BY <2>1 DEF Safe, ThreadsFresh
  <2>4. UNCHANGED <<pc, idCounter, heap, request, call>>
    BY <1>1, <1>4
  <2>5. \A t \in Server : \/ t # s /\ worker'[t] = worker[t]
                          \/ t = s /\ worker'[t] = new
    BY <1>0, <2>1
  <2>6. \A id, c : Fresh(id, c)' <=> Fresh(id, c)
    BY <2>4 DEF Fresh, Asking
  <2> HIDE DEF new, id0
  <2>7. ThreadsFresh'
    BY <2>2, <2>3, <2>4, <2>5, <2>6 DEF Safe, ThreadsFresh
  <2>8. TakenInTime'
    BY <2>2, <2>4, <2>5 DEF Safe, TakenInTime
  <2> QED
    BY <1>2, <1>4, <2>7, <2>8
<1>5. CASE Serve(s) \/ DieServing(s) \/ ReadFails(s)
  BY <1>5, ReplySafe
     DEF Serve, DieServing, ReadFails, Connected, globals, memory, collected, history
<1>6. CASE WriteFails(s) \/ Reconnect(s)
  BY <1>6, SafeStutter
     DEF WriteFails, Reconnect, globals, memory, collected, history
<1> QED
  BY <1>3, <1>4, <1>5, <1>6 DEF Thread

(***************************************************************************)
(* With at least two servers, and callers that do not reuse their structs, *)
(* Safe holds until the first call that returns NULL.  (With one server    *)
(* the first timeout reads beyond the array; a reused struct lets a thread *)
(* answer for one call with the id of another; after NULL the next call    *)
(* has the same id.)                                                       *)
(***************************************************************************)
THEOREM SafetyHolds == OwnRequests => (Spec => []SafeUntilFailure)
<1> SUFFICES ASSUME OwnRequests PROVE Spec => []SafeUntilFailure
  OBVIOUS
<1>1. Init => SafeUntilFailure
  <2> SUFFICES ASSUME Init PROVE Safe
    BY DEF SafeUntilFailure
  <2>1. (N + 1) \div 2 < N
    BY QuorumAssumption DEF OwnRequests
  <2>2. HeapFresh /\ QueueFresh
    BY DEF Init, HeapFresh, QueueFresh
  <2>3. ThreadsFresh /\ TakenInTime /\ RequestOfCall
    BY DEF Init, ThreadsFresh, TakenInTime, RequestOfCall, Idle
  <2>4. AnswersOfCall /\ NothingCollected
    BY DEF Init, AnswersOfCall, NothingCollected, NoAnswers
  <2> QED
    BY <2>1, <2>2, <2>3, <2>4 DEF Init, Safe, Defined
<1>2. TypeInv /\ SafeUntilFailure /\ [Next]_vars => SafeUntilFailure'
  <2> SUFFICES ASSUME TypeInv, SafeUntilFailure, [Next]_vars, ~ failed'
               PROVE  Safe'
    BY DEF SafeUntilFailure
  <2>1. CASE CallNew
    <3>1. ~ failed
      BY <2>1 DEF CallNew, Start
    <3> QED
      BY <2>1, <3>1, CallSafe DEF SafeUntilFailure
  <2>2. ~ CallAgain
    BY DEF CallAgain, OwnRequests
  <2>3. CASE Send
    <3>1. ~ failed
      BY <2>3 DEF Send
    <3> QED
      BY <2>3, <3>1, SendSafe DEF SafeUntilFailure
  <2>4. CASE FormProbe \/ FormOther \/ FormTimeout
    <3>1. ~ failed
      BY <2>4 DEF FormProbe, FormOther, FormTimeout, NextIndex, Formed, Fail
    <3> QED
      BY <2>4, <3>1, FormSafe DEF SafeUntilFailure
  <2>5. CASE Receive \/ RetryReceive
    <3>1. ~ failed
      BY <2>5 DEF Receive, RetryReceive, history
    <3> QED
      BY <2>5, <3>1, ReceiveSafe DEF SafeUntilFailure
  <2>6. CASE Timeout \/ RetryTimeout
    <3>1. ~ failed
      BY <2>6 DEF Timeout, RetryTimeout, Fail, history
    <3> QED
      BY <2>6, <3>1, TimeoutSafe DEF SafeUntilFailure
  <2>7. ASSUME NEW w \in 0 .. MaxWriteBacks, Return(w) PROVE Safe'
    <3>1. ~ failed
      BY <2>7 DEF Return
    <3> QED
      BY <2>7, <3>1, ReturnSafe DEF SafeUntilFailure
  <2>8. ASSUME NEW s \in Server, Thread(s) PROVE Safe'
    <3>1. ~ failed
      BY <2>8 DEF Thread, Take, ReadId, Serve, DieServing, ReadFails, WriteFails,
                  Reconnect, history
    <3> QED
      BY <2>8, <3>1, ThreadSafe DEF SafeUntilFailure
  <2>9. ASSUME NEW s \in Server, Environment(s) PROVE Safe'
    BY <2>9, SafeStutter
       DEF Environment, Crash, Restart, SafeUntilFailure, globals, memory,
           collected, history
  <2>10. CASE UNCHANGED vars
    BY <2>10, SafeStutter
       DEF vars, SafeUntilFailure, globals, memory, collected, history
  <2> QED
    BY <2>1, <2>2, <2>3, <2>4, <2>5, <2>6, <2>7, <2>8, <2>9, <2>10 DEF Next, Main
<1> QED
  BY <1>1, <1>2, TypeCorrect, PTL DEF Spec

(* Every variable keeps its type, whatever the number of servers, the      *)
(* quorum size and the bounds.                                             *)
THEOREM TypeHolds == Spec => []TypeOK
<1>1. TypeInv => TypeOK
  BY DEF TypeInv
<1> QED
  BY <1>1, TypeCorrect, PTL

(* The answers of a call are answers to that call. *)
THEOREM AnswersBelong == OwnRequests => (Spec => []AnswersMatchCall)
<1>1. SafeUntilFailure => AnswersMatchCall
  BY DEF SafeUntilFailure, Safe, AnswersMatchCall
<1> QED
  BY <1>1, SafetyHolds, PTL

(* The id of the call is in use for that call only. *)
THEOREM IdsAreFresh == OwnRequests => (Spec => []IdsFresh)
<1>1. SafeUntilFailure => IdsFresh
  BY DEF SafeUntilFailure, Safe, HeapFresh, QueueFresh, ThreadsFresh, IdsFresh
<1> QED
  BY <1>1, SafetyHolds, PTL

(* Nothing undefined is reached before a call has failed. *)
THEOREM DefinedBefore == OwnRequests => (Spec => []DefinedUntilFailure)
<1>1. SafeUntilFailure => DefinedUntilFailure
  BY DEF SafeUntilFailure, Safe, Defined, DefinedUntilFailure
<1> QED
  BY <1>1, SafetyHolds, PTL

-----------------------------------------------------------------------------
(***************************************************************************)
(* What becomes of a request that a thread has: it is in its queue, in its *)
(* hands, or answered.  The three steps that move it, as the proofs below  *)
(* need them (nothing is freed, so no step is undefined).                  *)
(***************************************************************************)
Takes(s) ==
  /\ worker[s].at = "idle" /\ 1 \in DOMAIN queue[s]
  /\ worker'[s].at = "taken" /\ worker'[s].task = queue[s][1]
  /\ worker'[s].call = heap[queue[s][1]].call
  /\ \A t \in Server : t # s => worker'[t] = worker[t] /\ queue'[t] = queue[t]
  /\ \A i \in DOMAIN queue'[s] :
       i + 1 \in DOMAIN queue[s] /\ i + 1 # 1 /\ queue'[s][i] = queue[s][i + 1]
  /\ \A i, j \in DOMAIN queue'[s] : i + 1 = j + 1 => i = j
  /\ UNCHANGED <<mainQueue, doneBy>>

Reads(s) ==
  /\ worker[s].at = "taken"
  /\ worker'[s].at = "rpc" /\ worker'[s].id = heap[worker[s].task].id
  /\ worker'[s].call = worker[s].call
  /\ \A t \in Server : t # s => worker'[t] = worker[t]
  /\ UNCHANGED <<queue, mainQueue, doneBy>>

Answers(s) ==
  /\ worker[s].at = "rpc" /\ worker'[s].at = "idle"
  /\ \A t \in Server : t # s => worker'[t] = worker[t]
  /\ Len(mainQueue) + 1 \notin DOMAIN mainQueue
  /\ DOMAIN mainQueue' = DOMAIN mainQueue \cup {Len(mainQueue) + 1}
  /\ \A i \in DOMAIN mainQueue : mainQueue'[i] = mainQueue[i]
  /\ mainQueue'[Len(mainQueue) + 1] =
       [id |-> worker[s].id, sender |-> s, call |-> worker[s].call]
  /\ doneBy \subseteq doneBy'
  /\ UNCHANGED queue

(* A step of a thread is one of these, or changes only the connection. *)
LEMMA ThreadSteps ==
  ASSUME TypeInv, freed = {}, NEW s \in Server, Thread(s)
  PROVE  /\ UNCHANGED <<pc, globals, memory, form, collected, call, responders, failed>>
         /\ \/ Takes(s) \/ Reads(s) \/ Answers(s)
            \/ UNCHANGED <<queue, worker, mainQueue, doneBy>>
<1>0. /\ worker \in [Server -> Thinking] /\ heap \in Seq(Task)
      /\ queue \in [Server -> Seq(DOMAIN heap)] /\ mainQueue \in Seq(Message)
  BY DEF TypeInv, TypeOK
<1>1. CASE Take(s)
  <2> DEFINE q == queue[s]
  <2>1. /\ q \in Seq(DOMAIN heap) /\ q # <<>>
        /\ queue' = [queue EXCEPT ![s] = Tail(q)]
        /\ worker' = [worker EXCEPT ![s] =
             [at |-> "taken", task |-> Head(q), call |-> heap[Head(q)].call, id |-> 0]]
        /\ worker[s].at = "idle" /\ UNCHANGED pc
        /\ UNCHANGED <<globals, memory, mainQueue, form, collected, history>>
    BY <1>0, <1>1 DEF Take
  <2>2. /\ Len(Tail(q)) = Len(q) - 1 /\ Tail(q) \in Seq(DOMAIN heap)
        /\ \A i \in 1 .. Len(Tail(q)) : Tail(q)[i] = q[i + 1]
    BY <2>1, HeadTailProperties
  <2>3. /\ DOMAIN q = 1 .. Len(q) /\ Len(q) \in Nat \ {0}
        /\ DOMAIN Tail(q) = 1 .. Len(q) - 1
    BY <2>1, <2>2, LenProperties, EmptySeq
  <2>4. Head(q) = q[1]
    BY <2>1
  <2>5. /\ queue'[s] = Tail(q) /\ \A t \in Server : t # s => queue'[t] = queue[t]
        /\ worker'[s].at = "taken" /\ worker'[s].task = q[1]
        /\ worker'[s].call = heap[q[1]].call
        /\ \A t \in Server : t # s => worker'[t] = worker[t]
    BY <1>0, <2>1, <2>4
  <2>6. /\ \A i \in DOMAIN queue'[s] :
             i + 1 \in DOMAIN q /\ i + 1 # 1 /\ queue'[s][i] = q[i + 1]
        /\ \A i, j \in DOMAIN queue'[s] : i + 1 = j + 1 => i = j
        /\ 1 \in DOMAIN q
    BY <2>2, <2>3, <2>5
  <2>7. Takes(s)
    BY <2>1, <2>5, <2>6 DEF Takes, history
  <2> QED
    BY <2>1, <2>7 DEF history
<1>2. CASE ReadId(s)
  <2>1. /\ worker' = [worker EXCEPT ![s] = [worker[s] EXCEPT !.at = "rpc", !.task = 0,
                                     !.id = heap[worker[s].task].id]]
        /\ worker[s].at = "taken" /\ UNCHANGED pc
        /\ UNCHANGED <<globals, memory, queue, mainQueue, form, collected, history>>
    BY <1>0, <1>2 DEF ReadId
  <2>2. worker[s] \in Thinking
    BY <1>0
  <2>3. Reads(s)
    BY <1>0, <2>1, <2>2 DEF Reads, Thinking, history
  <2> QED
    BY <2>1, <2>3 DEF history
<1>3. ASSUME Reply(s), worker[s].at = "rpc", doneBy \subseteq doneBy', UNCHANGED queue
      PROVE  Answers(s)
  <2> DEFINE m == [id |-> worker[s].id, sender |-> s, call |-> worker[s].call]
  <2>1. m \in Message
    BY <1>0 DEF Thinking, Message
  <2>2. /\ mainQueue' = Append(mainQueue, m)
        /\ worker' = [worker EXCEPT ![s] = Idle]
    BY <1>3 DEF Reply
  <2>3. /\ Len(Append(mainQueue, m)) = Len(mainQueue) + 1
        /\ \A i \in 1 .. Len(mainQueue) : Append(mainQueue, m)[i] = mainQueue[i]
        /\ Append(mainQueue, m)[Len(mainQueue) + 1] = m
        /\ Append(mainQueue, m) \in Seq(Message)
    BY <1>0, <2>1, AppendProperties
  <2>4. /\ DOMAIN Append(mainQueue, m) = 1 .. Len(mainQueue) + 1
        /\ DOMAIN mainQueue = 1 .. Len(mainQueue) /\ Len(mainQueue) \in Nat
    BY <1>0, <2>3, LenProperties
  <2>5. worker'[s].at = "idle" /\ \A t \in Server : t # s => worker'[t] = worker[t]
    BY <1>0, <2>2 DEF Idle
  <2>6. /\ Len(mainQueue) + 1 \notin DOMAIN mainQueue
        /\ DOMAIN mainQueue' = DOMAIN mainQueue \cup {Len(mainQueue) + 1}
        /\ \A i \in DOMAIN mainQueue : mainQueue'[i] = mainQueue[i]
        /\ mainQueue'[Len(mainQueue) + 1] = m
    BY <2>2, <2>3, <2>4
  <2> QED
    BY <1>3, <2>5, <2>6 DEF Answers
<1>4. CASE Serve(s) \/ DieServing(s) \/ ReadFails(s)
  <2>1. /\ Reply(s) /\ worker[s].at = "rpc" /\ doneBy \subseteq doneBy'
        /\ UNCHANGED queue
        /\ UNCHANGED <<pc, globals, memory, form, collected, call, responders, failed>>
    BY <1>4 DEF Serve, DieServing, ReadFails, Connected, Executed, history
  <2> QED
    BY <1>3, <2>1
<1>5. CASE WriteFails(s) \/ Reconnect(s)
  BY <1>5 DEF WriteFails, Reconnect, history
<1> QED
  BY <1>1, <1>2, <1>4, <1>5 DEF Thread

-----------------------------------------------------------------------------
(* The ids of what the threads have to do, and of the messages, are in S. *)
HeldIds(S) ==
  \A s \in Server :
    /\ \A i \in DOMAIN queue[s] : heap[queue[s][i]].id \in S
    /\ worker[s].at = "taken" => heap[worker[s].task].id \in S
    /\ worker[s].at = "rpc" => worker[s].id \in S

SentIds(S) == \A i \in DOMAIN mainQueue : mainQueue[i].id \in S

(* The threads make no ids of their own. *)
LEMMA ThreadIds ==
  ASSUME TypeInv, freed = {}, NEW s \in Server, Thread(s),
         NEW S, NEW M, HeldIds(S), SentIds(M), S \subseteq M
  PROVE  HeldIds(S)' /\ SentIds(M)'
<1>1. /\ UNCHANGED heap
      /\ \/ Takes(s) \/ Reads(s) \/ Answers(s)
         \/ UNCHANGED <<queue, worker, mainQueue>>
  BY ThreadSteps DEF memory
<1>2. CASE Takes(s)
  <2>1. ASSUME NEW t \in Server
        PROVE  /\ \A i \in DOMAIN queue'[t] : heap[queue'[t][i]].id \in S
               /\ worker'[t].at = "taken" => heap[worker'[t].task].id \in S
               /\ worker'[t].at = "rpc" => worker'[t].id \in S
    <3>1. CASE t = s
      BY <1>2, <3>1 DEF Takes, HeldIds
    <3>2. CASE t # s
      BY <1>2, <3>2 DEF Takes, HeldIds
    <3> QED
      BY <3>1, <3>2
  <2> QED
    BY <1>1, <1>2, <2>1 DEF Takes, HeldIds, SentIds
<1>3. CASE Reads(s)
  <2>1. ASSUME NEW t \in Server
        PROVE  /\ worker'[t].at = "taken" => heap[worker'[t].task].id \in S
               /\ worker'[t].at = "rpc" => worker'[t].id \in S
    BY <1>3 DEF Reads, HeldIds
  <2> QED
    BY <1>1, <1>3, <2>1 DEF Reads, HeldIds, SentIds
<1>4. CASE Answers(s)
  <2>1. ASSUME NEW t \in Server
        PROVE  /\ worker'[t].at = "taken" => heap[worker'[t].task].id \in S
               /\ worker'[t].at = "rpc" => worker'[t].id \in S
    BY <1>4 DEF Answers, HeldIds
  <2>2. worker[s].id \in M
    BY <1>4 DEF Answers, HeldIds
  <2>3. SentIds(M)'
    BY <1>4, <2>2 DEF Answers, SentIds
  <2> QED
    BY <1>1, <1>4, <2>1, <2>3 DEF Answers, HeldIds
<1>5. CASE UNCHANGED <<queue, worker, mainQueue>>
  BY <1>1, <1>5 DEF HeldIds, SentIds
<1> QED
  BY <1>1, <1>2, <1>3, <1>4, <1>5

-----------------------------------------------------------------------------
(***************************************************************************)
(* When no wait times out, the quorum is formed once, in the first call,   *)
(* and nobody has been asked anything before: every message that           *)
(* formar_quorum takes is an answer to a probe, its counter keeps pace     *)
(* with its index, and it never gives up.                                  *)
(***************************************************************************)
QuietInv ==
  /\ pc \notin {"retry", "undefined"} /\ freed = {} /\ ~ failed
  /\ mustForm => pc \in {"idle", "form"}
  /\ pc = "form" => mustForm
  /\ formIndex = formCount
  /\ mustForm => HeldIds({PROBE}) /\ SentIds({PROBE})

(* What a call starts with: the structs there were keep their ids, and     *)
(* only a probe is queued.                                                 *)
Started ==
  /\ pc = "idle" /\ call' = call + 1 /\ request' # 0
  /\ \A r \in DOMAIN heap : r \in DOMAIN heap' /\ heap'[r].id = heap[r].id
  /\ heap'[request'].call = call + 1
  /\ heap'[request'].id = 0 \/ (request # 0 /\ heap'[request'].id = heap[request].id)
  /\ \A r \in DOMAIN heap' : r \in DOMAIN heap \/ heap'[r].id \in {0, PROBE}
  /\ IF mustForm
     THEN /\ pc' = "form" /\ Len(heap') \in DOMAIN heap'
          /\ heap'[Len(heap')].id = PROBE /\ Len(heap') # request'
          /\ queue' = [s \in Server |-> Append(queue[s], Len(heap'))]
     ELSE pc' = "send" /\ UNCHANGED queue
  /\ UNCHANGED <<globals, freed, mainQueue, worker, form, collected, network,
                 doneBy, responders, failed>>

(* Both ways of starting a call do that.                                   *)
LEMMA StartStep ==
  ASSUME TypeInv, CallNew \/ CallAgain
  PROVE  Started
<1>0. heap \in Seq(Task) /\ request \in {0} \cup DOMAIN heap /\ call \in Nat
  BY DEF TypeInv, TypeOK
<1> DEFINE probe == [id |-> PROBE, call |-> 0]
<1>1. probe \in Task
  BY DEF Task, PROBE
<1>2. ASSUME NEW h \in Seq(Task), NEW r \in DOMAIN h, r # 0, Start(r, h),
             \A i \in DOMAIN heap : i \in DOMAIN h /\ h[i].id = heap[i].id,
             h[r].call = call + 1,
             h[r].id = 0 \/ (request # 0 /\ h[r].id = heap[request].id),
             \A i \in DOMAIN h : i \in DOMAIN heap \/ h[i].id \in {0, PROBE}
      PROVE  Started
  <2>1. /\ Len(Append(h, probe)) = Len(h) + 1 /\ Len(h) \in Nat
        /\ DOMAIN Append(h, probe) = 1 .. Len(h) + 1 /\ DOMAIN h = 1 .. Len(h)
        /\ \A i \in DOMAIN h : Append(h, probe)[i] = h[i]
        /\ Append(h, probe)[Len(h) + 1] = probe
    BY <1>1, AppendStruct
  <2>2. /\ pc = "idle" /\ call' = call + 1 /\ request' = r
        /\ heap' = IF mustForm THEN Append(h, probe) ELSE h
        /\ IF mustForm
           THEN /\ pc' = "form"
                /\ queue' = [s \in Server |-> Append(queue[s], Len(h) + 1)]
           ELSE pc' = "send" /\ UNCHANGED queue
        /\ UNCHANGED <<globals, freed, mainQueue, worker, form, collected, network,
                       doneBy, responders, failed>>
    BY <1>2 DEF Start
  <2>3. CASE mustForm
    <3>1. /\ heap' = Append(h, probe) /\ Len(heap') = Len(h) + 1
          /\ Len(heap') \in DOMAIN heap' /\ heap'[Len(heap')].id = PROBE
          /\ \A i \in DOMAIN heap' : i \in DOMAIN h \/ heap'[i].id = PROBE
          /\ \A i \in DOMAIN h : i \in DOMAIN heap' /\ heap'[i] = h[i]
          /\ Len(heap') # r
      BY <2>1, <2>2, <2>3
    <3> QED
      BY <1>2, <2>2, <2>3, <3>1 DEF Started
  <2>4. CASE ~ mustForm
    BY <1>2, <2>2, <2>4 DEF Started
  <2> QED
    BY <2>3, <2>4
<1>3. CASE CallNew
  <2> DEFINE t == [id |-> 0, call |-> call + 1]
             h == Append(heap, t)
  <2>1. t \in Task
    BY <1>0 DEF Task
  <2>2. /\ h \in Seq(Task) /\ Len(heap) \in Nat
        /\ DOMAIN h = 1 .. Len(heap) + 1 /\ DOMAIN heap = 1 .. Len(heap)
        /\ \A i \in DOMAIN heap : h[i] = heap[i]
        /\ h[Len(heap) + 1] = t
    BY <1>0, <2>1, AppendStruct
  <2>3. Start(Len(heap) + 1, h)
    BY <1>3 DEF CallNew
  <2>4. /\ Len(heap) + 1 \in DOMAIN h /\ Len(heap) + 1 # 0
        /\ \A i \in DOMAIN heap : i \in DOMAIN h /\ h[i].id = heap[i].id
        /\ h[Len(heap) + 1].call = call + 1
        /\ h[Len(heap) + 1].id = 0
        /\ \A i \in DOMAIN h : i \in DOMAIN heap \/ h[i].id \in {0, PROBE}
    BY <2>2
  <2> HIDE DEF h
  <2> QED
    BY <1>2, <2>2, <2>3, <2>4
<1>4. CASE CallAgain
  <2> DEFINE t == [heap[request] EXCEPT !.call = call + 1]
             h == [heap EXCEPT ![request] = t]
  <2>1. request \in DOMAIN heap /\ request # 0
    BY <1>0, <1>4 DEF CallAgain
  <2>2. heap[request] \in Task
    BY <1>0, <2>1, LenProperties, ElementOfSeq
  <2>3. t \in Task /\ t.id = heap[request].id /\ t.call = call + 1
    <3>1. PICK e \in Task : e = heap[request]
      BY <2>2
    <3>2. t = [e EXCEPT !.call = call + 1]
      BY <3>1
    <3>3. [e EXCEPT !.call = call + 1] = [id |-> e.id, call |-> call + 1]
          /\ e.id \in Int
      BY DEF Task
    <3>4. t = [id |-> e.id, call |-> call + 1]
      BY <3>2, <3>3
    <3> HIDE DEF t
    <3> QED
      BY <1>0, <3>1, <3>3, <3>4 DEF Task
  <2>4. /\ h \in Seq(Task) /\ DOMAIN h = DOMAIN heap
        /\ h[request] = t /\ \A i \in DOMAIN heap : i # request => h[i] = heap[i]
    <3> HIDE DEF t
    <3>1. h \in Seq(Task) /\ DOMAIN h = DOMAIN heap
      BY <1>0, <2>1, <2>3, ExceptStruct
    <3>2. h[request] = t /\ \A i \in DOMAIN heap : i # request => h[i] = heap[i]
      BY <2>1
    <3> QED
      BY <3>1, <3>2
  <2>5. Start(request, h)
    BY <1>4 DEF CallAgain
  <2>6. /\ \A i \in DOMAIN heap : i \in DOMAIN h /\ h[i].id = heap[i].id
        /\ h[request].call = call + 1
        /\ h[request].id = heap[request].id
        /\ \A i \in DOMAIN h : i \in DOMAIN heap \/ h[i].id \in {0, PROBE}
    <3> HIDE DEF t, h
    <3> QED
      BY <2>1, <2>3, <2>4
  <2> HIDE DEF h
  <2> QED
    BY <1>2, <2>1, <2>4, <2>5, <2>6
<1> QED
  BY <1>3, <1>4

(* A call that starts queues nothing but a probe. *)
LEMMA StartIds ==
  ASSUME TypeInv, CallNew \/ CallAgain, NEW S, HeldIds(S), PROBE \in S
  PROVE  HeldIds(S)'
<1>1. /\ \A r \in DOMAIN heap : heap'[r].id = heap[r].id
      /\ UNCHANGED worker
      /\ IF mustForm THEN /\ Len(heap') \in DOMAIN heap' /\ heap'[Len(heap')].id = PROBE
                          /\ queue' = [s \in Server |-> Append(queue[s], Len(heap'))]
                     ELSE UNCHANGED queue
  BY StartStep DEF Started
<1>2. TypeOK
  BY DEF TypeInv
<1>3. ASSUME NEW s \in Server
      PROVE  /\ worker'[s].at = "taken" => heap'[worker'[s].task].id \in S
             /\ worker'[s].at = "rpc" => worker'[s].id \in S
  BY <1>1, <1>2 DEF HeldIds, TypeOK
<1>4. ASSUME NEW s \in Server, NEW i \in DOMAIN queue'[s]
      PROVE  heap'[queue'[s][i]].id \in S
  <2>1. /\ queue[s] \in Seq(DOMAIN heap)
        /\ \A j \in DOMAIN queue[s] : queue[s][j] \in DOMAIN heap
    BY <1>2, LenProperties, ElementOfSeq DEF TypeOK
  <2>2. CASE mustForm
    <3> DEFINE n == Len(heap')
    <3>1. queue[s] \in Seq(Nat)
      <4>1. DOMAIN heap \subseteq Nat
        BY <1>2, LenProperties DEF TypeOK
      <4> QED
        BY <2>1, <4>1, SeqMonotonic
    <3>2. n \in Nat
      BY CallTypes, LenProperties DEF TypeInv, TypeOK
    <3>3. /\ Len(Append(queue[s], n)) = Len(queue[s]) + 1
          /\ \A j \in 1 .. Len(queue[s]) : Append(queue[s], n)[j] = queue[s][j]
          /\ Append(queue[s], n)[Len(queue[s]) + 1] = n
          /\ Append(queue[s], n) \in Seq(Nat)
      BY <3>1, <3>2, AppendProperties
    <3>4. /\ DOMAIN Append(queue[s], n) = 1 .. Len(queue[s]) + 1
          /\ DOMAIN queue[s] = 1 .. Len(queue[s]) /\ Len(queue[s]) \in Nat
      BY <3>1, <3>3, LenProperties
    <3>5. queue'[s] = Append(queue[s], n)
      BY <1>1, <2>2
    <3> QED
      BY <1>1, <2>1, <2>2, <3>3, <3>4, <3>5 DEF HeldIds
  <2>3. CASE ~ mustForm
    BY <1>1, <2>1, <2>3 DEF HeldIds
  <2> QED
    BY <2>2, <2>3
<1> QED
  BY <1>3, <1>4 DEF HeldIds

(* What formar_quorum does then: it takes an answer to a probe, and goes   *)
(* on to the next index or, with the K-th, to the request.                 *)
LEMMA QuietForm ==
  ASSUME ~ Timeouts, TypeInv, QuietInv, FormProbe \/ FormOther \/ FormTimeout
  PROVE  /\ FormProbe /\ pc = "form" /\ mainQueue # <<>>
         /\ Swap(Head(mainQueue).sender, formIndex)
         /\ responders' = responders \cup {Head(mainQueue).sender}
         /\ IF formCount + 1 = K
            THEN /\ pc' = "send" /\ mustForm' = FALSE
                 /\ formIndex' = 0 /\ formCount' = 0
            ELSE /\ pc' = "form" /\ mustForm' = TRUE
                 /\ formIndex' = formIndex + 1 /\ formCount' = formCount + 1
         /\ mainQueue' = Tail(mainQueue)
         /\ UNCHANGED <<pointer, idCounter, memory, queue, worker, network,
                        collected, call, doneBy, failed>>
<1>1. pc = "form" /\ mustForm /\ mainQueue \in Seq(Message)
  BY DEF QuietInv, FormProbe, FormOther, FormTimeout, TypeInv, TypeOK
<1>2. ~ FormOther
  <2>1. mainQueue # <<>> => 1 \in DOMAIN mainQueue /\ Head(mainQueue) = mainQueue[1]
    BY <1>1, HeadMessage
  <2>2. SentIds({PROBE})
    BY <1>1 DEF QuietInv
  <2> QED
    BY <2>1, <2>2 DEF FormOther, SentIds
<1>3. FormProbe
  BY <1>2 DEF FormTimeout
<1>4. formCount \in 0 .. K - 1 /\ formIndex = formCount /\ K \in 1 .. N /\ N \in Nat
  BY QuorumAssumption DEF TypeInv, TypeOK, QuietInv
<1>5. CASE formCount + 1 = K
  BY <1>1, <1>3, <1>5 DEF FormProbe, Formed, memory
<1>6. CASE formCount + 1 # K
  <2>1. formIndex + 1 < N
    BY <1>4, <1>6
  <2> QED
    BY <1>1, <1>3, <1>6, <2>1 DEF FormProbe, NextIndex, memory
<1> QED
  BY <1>5, <1>6

(* A message taken from the queue: the others are where they were. *)
LEMMA TailIds ==
  ASSUME TypeInv, mainQueue # <<>>, mainQueue' = Tail(mainQueue),
         NEW S, SentIds(S)
  PROVE  SentIds(S)'
<1>1. \A i \in DOMAIN Tail(mainQueue) :
         i + 1 \in DOMAIN mainQueue /\ Tail(mainQueue)[i] = mainQueue[i + 1]
  BY HeadMessage DEF TypeInv, TypeOK
<1> QED
  BY <1>1 DEF SentIds

(* Every step keeps it. *)
LEMMA QuietStep ==
  ASSUME ~ Timeouts, TypeInv, QuietInv, [Next]_vars
  PROVE  QuietInv'
<1>0. freed = {} /\ pc \notin {"retry", "undefined"} /\ ~ failed
  BY DEF QuietInv
<1>1. CASE CallNew \/ CallAgain
  <2>1. Started
    BY <1>1, StartStep
  <2>2. CASE mustForm
    <3>1. HeldIds({PROBE}) /\ SentIds({PROBE})
      BY <2>2 DEF QuietInv
    <3>2. HeldIds({PROBE})'
      BY <1>1, <3>1, StartIds
    <3>3. SentIds({PROBE})'
      BY <2>1, <3>1 DEF Started, SentIds
    <3> QED
      BY <2>1, <2>2, <3>2, <3>3 DEF QuietInv, Started, globals, form
  <2>3. CASE ~ mustForm
    BY <2>1, <2>3 DEF QuietInv, Started, globals, form
  <2> QED
    BY <2>2, <2>3
<1>2. CASE Send
  BY <1>2 DEF QuietInv, Send, globals, form
<1>3. CASE FormProbe \/ FormOther \/ FormTimeout
  <2>1. /\ mainQueue # <<>> /\ mainQueue' = Tail(mainQueue)
        /\ UNCHANGED <<memory, queue, worker, failed>>
        /\ IF formCount + 1 = K
           THEN /\ pc' = "send" /\ mustForm' = FALSE
                /\ formIndex' = 0 /\ formCount' = 0
           ELSE /\ pc' = "form" /\ mustForm' = TRUE
                /\ formIndex' = formIndex + 1 /\ formCount' = formCount + 1
        /\ pc = "form"
    BY <1>3, QuietForm
  <2>2. HeldIds({PROBE}) /\ SentIds({PROBE}) /\ formIndex = formCount
    BY <2>1 DEF QuietInv
  <2>3. SentIds({PROBE})'
    BY <2>1, <2>2, TailIds
  <2>4. HeldIds({PROBE})'
    BY <2>1, <2>2 DEF HeldIds, memory
  <2> QED
    BY <1>0, <2>1, <2>2, <2>3, <2>4 DEF QuietInv, memory
<1>4. CASE Receive
  BY <1>0, <1>4 DEF QuietInv, Receive, Collect, globals, memory, form, history
<1>5. ~ RetryReceive /\ ~ Timeout /\ ~ RetryTimeout
  BY <1>0 DEF RetryReceive, Timeout, RetryTimeout
<1>6. ASSUME NEW w \in 0 .. MaxWriteBacks, Return(w) PROVE QuietInv'
  BY <1>0, <1>6 DEF QuietInv, Return, EndCall, form
<1>7. ASSUME NEW s \in Server, Thread(s) PROVE QuietInv'
  <2>1. UNCHANGED <<pc, globals, memory, form, failed>>
    BY <1>0, <1>7, ThreadSteps
  <2>2. mustForm => HeldIds({PROBE}) /\ SentIds({PROBE})
    BY DEF QuietInv
  <2>3. mustForm => HeldIds({PROBE})' /\ SentIds({PROBE})'
    BY <1>0, <1>7, <2>2, ThreadIds
  <2> QED
    BY <1>0, <2>1, <2>3 DEF QuietInv, globals, memory, form
<1>8. ASSUME NEW s \in Server, Environment(s) PROVE QuietInv'
  BY <1>8 DEF Environment, Crash, Restart, QuietInv, HeldIds, SentIds, globals,
              memory, form, history
<1>9. CASE UNCHANGED vars
  BY <1>9 DEF vars, QuietInv, HeldIds, SentIds, globals, memory, form, history
<1> QED
  BY <1>1, <1>2, <1>3, <1>4, <1>5, <1>6, <1>7, <1>8, <1>9 DEF Next, Main

(* It holds in every reachable state when no wait times out.               *)
LEMMA QuietHolds == ASSUME ~ Timeouts PROVE Spec => []QuietInv
<1>1. Init => QuietInv
  <2> SUFFICES ASSUME Init PROVE QuietInv
    OBVIOUS
  <2>1. HeldIds({PROBE}) /\ SentIds({PROBE})
    BY DEF Init, HeldIds, SentIds, Idle
  <2> QED
    BY <2>1 DEF Init, QuietInv
<1>2. TypeInv /\ QuietInv /\ [Next]_vars => QuietInv'
  BY QuietStep
<1> QED
  BY <1>1, <1>2, TypeCorrect, PTL DEF Spec

(* While no wait times out, nothing undefined is reached, with any number  *)
(* of servers, of calls and of crashes, reused structs included.           *)
THEOREM QuietDefined == ASSUME ~ Timeouts PROVE Spec => []AlwaysDefined
<1>1. QuietInv => AlwaysDefined
  BY DEF QuietInv, AlwaysDefined
<1> QED
  BY <1>1, QuietHolds, PTL

-----------------------------------------------------------------------------
(***************************************************************************)
(* A request with id d is at a server in one place at most: in the queue   *)
(* of its thread, in the hands of the thread, in a message to the main     *)
(* thread, or counted.  It is at servers of F only; D are the servers      *)
(* whose answer was counted.                                               *)
(***************************************************************************)
Queued(s, d) == \E i \in DOMAIN queue[s] : heap[queue[s][i]].id = d

InHand(s, d) ==
  \/ worker[s].at = "taken" /\ heap[worker[s].task].id = d
  \/ worker[s].at = "rpc" /\ worker[s].id = d

Answering(s, d) ==
  \E i \in DOMAIN mainQueue : mainQueue[i].sender = s /\ mainQueue[i].id = d

QueuedOnce(s, d) ==
  \A i, j \in DOMAIN queue[s] :
    heap[queue[s][i]].id = d /\ heap[queue[s][j]].id = d => i = j

AnsweringOnce(s, d) ==
  \A i, j \in DOMAIN mainQueue :
    /\ mainQueue[i].sender = s /\ mainQueue[i].id = d
    /\ mainQueue[j].sender = s /\ mainQueue[j].id = d
    => i = j

OneAt(s, d, D, F) ==
  /\ QueuedOnce(s, d) /\ AnsweringOnce(s, d)
  /\ Queued(s, d) => ~ InHand(s, d) /\ ~ Answering(s, d) /\ s \notin D /\ s \in F
  /\ InHand(s, d) => ~ Answering(s, d) /\ s \notin D /\ s \in F
  /\ Answering(s, d) => s \notin D /\ s \in F

OnePlace(d, D, F) == \A s \in Server : OneAt(s, d, D, F)

(* The threads move requests and never double them. *)
LEMMA ThreadOnePlace ==
  ASSUME TypeInv, freed = {}, NEW s \in Server, Thread(s),
         NEW d, NEW D, NEW F, OnePlace(d, D, F)
  PROVE  OnePlace(d, D, F)'
<1>1. /\ UNCHANGED heap
      /\ \/ Takes(s) \/ Reads(s) \/ Answers(s)
         \/ UNCHANGED <<queue, worker, mainQueue>>
  BY ThreadSteps DEF memory
<1> SUFFICES ASSUME NEW t \in Server PROVE OneAt(t, d, D, F)'
  BY DEF OnePlace
<1>2. OneAt(t, d, D, F)
  BY DEF OnePlace
<1>3. CASE Takes(s)
  <2>1. (AnsweringOnce(t, d)' <=> AnsweringOnce(t, d))
        /\ (Answering(t, d)' <=> Answering(t, d))
    BY <1>1, <1>3 DEF Takes, AnsweringOnce, Answering
  <2>2. CASE t # s
    <3>1. queue'[t] = queue[t] /\ worker'[t] = worker[t]
      BY <1>3, <2>2 DEF Takes
    <3>2. /\ QueuedOnce(t, d)' <=> QueuedOnce(t, d)
          /\ Queued(t, d)' <=> Queued(t, d)
          /\ InHand(t, d)' <=> InHand(t, d)
      BY <1>1, <3>1 DEF QueuedOnce, Queued, InHand
    <3> QED
      BY <1>2, <2>1, <3>2 DEF OneAt
  <2>3. CASE t = s
    <3>1. /\ InHand(s, d)' <=> heap[queue[s][1]].id = d
          /\ 1 \in DOMAIN queue[s] /\ ~ InHand(s, d)
      BY <1>1, <1>3 DEF Takes, InHand
    <3>2. QueuedOnce(s, d)'
      BY <1>1, <1>2, <1>3, <2>3 DEF Takes, QueuedOnce, OneAt
    <3>3. Queued(s, d)' => Queued(s, d) /\ heap[queue[s][1]].id # d
      BY <1>1, <1>2, <1>3, <2>3 DEF Takes, Queued, QueuedOnce, OneAt
    <3>4. heap[queue[s][1]].id = d => Queued(s, d)
      BY <3>1 DEF Queued
    <3> QED
      BY <1>2, <2>1, <2>3, <3>1, <3>2, <3>3, <3>4 DEF OneAt
  <2> QED
    BY <2>2, <2>3
<1>4. CASE Reads(s)
  <2>1. InHand(t, d)' <=> InHand(t, d)
    BY <1>1, <1>4 DEF Reads, InHand
  <2>2. /\ QueuedOnce(t, d)' <=> QueuedOnce(t, d)
        /\ Queued(t, d)' <=> Queued(t, d)
        /\ AnsweringOnce(t, d)' <=> AnsweringOnce(t, d)
        /\ Answering(t, d)' <=> Answering(t, d)
    BY <1>1, <1>4 DEF Reads, QueuedOnce, Queued, AnsweringOnce, Answering
  <2> QED
    BY <1>2, <2>1, <2>2 DEF OneAt
<1>5. CASE Answers(s)
  <2>1. /\ QueuedOnce(t, d)' <=> QueuedOnce(t, d)
        /\ Queued(t, d)' <=> Queued(t, d)
    BY <1>1, <1>5 DEF Answers, QueuedOnce, Queued
  <2>2. CASE t # s
    <3>1. InHand(t, d)' <=> InHand(t, d)
      BY <1>1, <1>5, <2>2 DEF Answers, InHand
    <3>2. /\ AnsweringOnce(t, d) => AnsweringOnce(t, d)'
          /\ Answering(t, d)' <=> Answering(t, d)
      BY <1>5, <2>2 DEF Answers, AnsweringOnce, Answering
    <3> QED
      BY <1>2, <2>1, <3>1, <3>2 DEF OneAt
  <2>3. CASE t = s
    <3>1. ~ InHand(s, d)' /\ (worker[s].id = d => InHand(s, d))
      BY <1>5 DEF Answers, InHand
    <3>2. CASE worker[s].id = d
      <4>1. InHand(s, d) /\ ~ Answering(s, d) /\ ~ Queued(s, d) /\ s \notin D /\ s \in F
        BY <1>2, <2>3, <3>1, <3>2 DEF OneAt
      <4>2. AnsweringOnce(s, d)'
        BY <1>5, <4>1 DEF Answers, Answering, AnsweringOnce
      <4> QED
        BY <1>2, <2>1, <2>3, <3>1, <4>1, <4>2 DEF OneAt
    <3>3. CASE worker[s].id # d
      <4>1. /\ AnsweringOnce(s, d) => AnsweringOnce(s, d)'
            /\ Answering(s, d)' <=> Answering(s, d)
        BY <1>5, <3>3 DEF Answers, AnsweringOnce, Answering
      <4> QED
        BY <1>2, <2>1, <2>3, <3>1, <4>1 DEF OneAt
    <3> QED
      BY <3>2, <3>3
  <2> QED
    BY <2>2, <2>3
<1>6. CASE UNCHANGED <<queue, worker, mainQueue>>
  BY <1>1, <1>2, <1>6 DEF OneAt, QueuedOnce, AnsweringOnce, Queued, InHand, Answering
<1> QED
  BY <1>1, <1>3, <1>4, <1>5, <1>6

(* The main thread counts an answer, and the request is at its sender no   *)
(* more; or the message has another id, and nothing changes.               *)
LEMMA CountOnePlace ==
  ASSUME TypeInv, mainQueue # <<>>, mainQueue' = Tail(mainQueue),
         UNCHANGED <<heap, queue, worker>>,
         NEW d, NEW D, NEW F, OnePlace(d, D, F), NEW m, m = Head(mainQueue),
         NEW E, E = IF m.id = d THEN D \cup {m.sender} ELSE D
  PROVE  /\ m.sender \in Server
         /\ m.id = d => m.sender \notin D /\ m.sender \in F
         /\ OnePlace(d, E, F)'
<1>1. /\ m = mainQueue[1] /\ 1 \in DOMAIN mainQueue /\ m \in Message
      /\ \A i \in DOMAIN mainQueue' :
           i + 1 \in DOMAIN mainQueue /\ mainQueue'[i] = mainQueue[i + 1]
  BY HeadMessage DEF TypeInv, TypeOK
<1>2. \A i, j \in DOMAIN mainQueue' : i + 1 # 1 /\ (i + 1 = j + 1 => i = j)
  <2>1. mainQueue' \in Seq(Message)
    BY HeadMessage DEF TypeInv, TypeOK
  <2>2. DOMAIN mainQueue' = 1 .. Len(mainQueue') /\ Len(mainQueue') \in Nat
    BY <2>1, LenProperties
  <2> QED
    BY <2>2
<1>3. m.sender \in Server
  BY <1>1 DEF Message
<1>4. m.id = d => Answering(m.sender, d)
  BY <1>1 DEF Answering
<1>5. m.id = d => m.sender \notin D /\ m.sender \in F
        /\ ~ Queued(m.sender, d) /\ ~ InHand(m.sender, d) /\ AnsweringOnce(m.sender, d)
  BY <1>3, <1>4 DEF OnePlace, OneAt
<1>6. ASSUME NEW t \in Server PROVE OneAt(t, d, E, F)'
  <2>1. OneAt(t, d, D, F)
    BY DEF OnePlace
  <2>2. /\ QueuedOnce(t, d)' <=> QueuedOnce(t, d)
        /\ Queued(t, d)' <=> Queued(t, d)
        /\ InHand(t, d)' <=> InHand(t, d)
    BY DEF QueuedOnce, Queued, InHand
  <2>3. AnsweringOnce(t, d)'
    BY <1>1, <1>2, <2>1 DEF OneAt, AnsweringOnce
  <2>4. Answering(t, d)' => Answering(t, d)
    BY <1>1 DEF Answering
  <2>5. CASE m.id = d /\ m.sender = t
    <3>1. ~ Answering(t, d)'
      BY <1>1, <1>2, <1>5, <2>5 DEF Answering, AnsweringOnce
    <3>2. ~ Queued(t, d) /\ ~ InHand(t, d)
      BY <1>5, <2>5
    <3>3. ~ Queued(t, d)' /\ ~ InHand(t, d)'
      BY <2>2, <3>2
    <3>4. QueuedOnce(t, d)'
      BY <2>1, <2>2 DEF OneAt
    <3> QED
      BY <2>3, <3>1, <3>3, <3>4 DEF OneAt
  <2>6. CASE ~ (m.id = d /\ m.sender = t)
    <3>1. t \in E <=> t \in D
      BY <2>6
    <3> QED
      BY <2>1, <2>2, <2>3, <2>4, <3>1 DEF OneAt
  <2> QED
    BY <2>5, <2>6
<1> QED
  BY <1>3, <1>5, <1>6 DEF OnePlace

-----------------------------------------------------------------------------
(***************************************************************************)
(* The array of servers.  While the quorum is formed, a server answers one *)
(* probe; after the first swap positions and array still agree, and with a *)
(* quorum of two no third swap follows to use the wrong position that the  *)
(* second one may leave.                                                   *)
(***************************************************************************)
ArrayInv ==
  /\ QuorumIsPermutation /\ FirstToAnswer
  /\ pc = "idle" => responders = {}
  /\ mustForm =>
       /\ OnePlace(PROBE, responders, IF pc = "idle" THEN {} ELSE Server)
       /\ formIndex = 0 => responders = {} /\ \A i \in Server : quorum[i] = i
       /\ formIndex = 1 => responders = {quorum[0]}
       /\ \A s \in Server : quorum[position[s]] = s

(* Starting the call that forms the quorum: one probe for every server. *)
LEMMA StartProbes ==
  ASSUME TypeInv, Started, mustForm, OnePlace(PROBE, {}, {})
  PROVE  OnePlace(PROBE, {}, Server)'
<1> DEFINE n == Len(heap')
<1>0. TypeOK
  BY DEF TypeInv
<1>1. /\ \A r \in DOMAIN heap : r \in DOMAIN heap' /\ heap'[r].id = heap[r].id
      /\ heap'[n].id = PROBE /\ n \in DOMAIN heap'
      /\ queue' = [s \in Server |-> Append(queue[s], n)]
      /\ UNCHANGED <<mainQueue, worker>>
  BY DEF Started
<1> SUFFICES ASSUME NEW s \in Server PROVE OneAt(s, PROBE, {}, Server)'
  BY DEF OnePlace
<1>2. OneAt(s, PROBE, {}, {})
  BY DEF OnePlace
<1>3. ~ Queued(s, PROBE) /\ ~ InHand(s, PROBE) /\ ~ Answering(s, PROBE)
  BY <1>2 DEF OneAt
<1>4. ~ InHand(s, PROBE)'
  BY <1>0, <1>1, <1>3 DEF InHand, TypeOK
<1>5. ~ Answering(s, PROBE)' /\ AnsweringOnce(s, PROBE)'
  BY <1>1, <1>3 DEF Answering, AnsweringOnce
<1>6. QueuedOnce(s, PROBE)'
  <2>1. /\ queue[s] \in Seq(DOMAIN heap)
        /\ \A j \in DOMAIN queue[s] : queue[s][j] \in DOMAIN heap
    BY <1>0, LenProperties, ElementOfSeq DEF TypeOK
  <2>2. DOMAIN queue'[s] = DOMAIN queue[s] \cup {Len(queue[s]) + 1}
        /\ \A j \in DOMAIN queue[s] : queue'[s][j] = queue[s][j]
    <3>1. queue[s] \in Seq({queue[s][j] : j \in DOMAIN queue[s]} \cup {n})
      BY <2>1, SeqDef, LenProperties
    <3>2. /\ Len(Append(queue[s], n)) = Len(queue[s]) + 1
          /\ \A j \in 1 .. Len(queue[s]) : Append(queue[s], n)[j] = queue[s][j]
          /\ Append(queue[s], n) \in Seq({queue[s][j] : j \in DOMAIN queue[s]} \cup {n})
      BY <3>1, AppendProperties
    <3>3. /\ DOMAIN Append(queue[s], n) = 1 .. Len(queue[s]) + 1
          /\ DOMAIN queue[s] = 1 .. Len(queue[s]) /\ Len(queue[s]) \in Nat
      BY <3>1, <3>2, LenProperties
    <3>4. queue'[s] = Append(queue[s], n)
      BY <1>1
    <3> HIDE DEF n
    <3> QED
      BY <3>2, <3>3, <3>4
  <2>3. \A j \in DOMAIN queue'[s] : heap'[queue'[s][j]].id = PROBE => j = Len(queue[s]) + 1
    <3>1. \A j \in DOMAIN queue[s] : heap[queue[s][j]].id # PROBE
      BY <1>3 DEF Queued
    <3>2. \A j \in DOMAIN queue[s] : heap'[queue'[s][j]].id = heap[queue[s][j]].id
      BY <1>1, <2>1, <2>2
    <3> QED
      BY <2>2, <3>1, <3>2
  <2> QED
    BY <2>3 DEF QueuedOnce
<1> QED
  BY <1>4, <1>5, <1>6 DEF OneAt

(* The two swaps. *)
LEMMA SwapArray ==
  ASSUME K <= 2, TypeInv, ArrayInv, mustForm, pc = "form", NEW s \in Server,
         s \notin responders, Swap(s, formIndex), formIndex + 1 <= K
  PROVE  /\ QuorumIsPermutation'
         /\ formIndex = 0 =>
              /\ \A t \in Server : quorum'[position'[t]] = t
              /\ quorum'[0] = s
         /\ {quorum'[i] : i \in 0 .. formIndex} = responders \cup {s}
<1>0. /\ quorum \in [Server -> Server] /\ position \in [Server -> Server]
      /\ formIndex \in Server /\ K \in 1 .. N /\ N \in Nat
  BY QuorumAssumption DEF TypeInv, TypeOK
<1>1. /\ \A i, j \in Server : i # j => quorum[i] # quorum[j]
      /\ \A t \in Server : quorum[position[t]] = t
      /\ formIndex = 0 => responders = {} /\ \A i \in Server : quorum[i] = i
      /\ formIndex = 1 => responders = {quorum[0]}
  BY DEF ArrayInv, QuorumIsPermutation
<1> DEFINE p == position[s]
           f == formIndex
<1>2. p \in Server /\ quorum[p] = s /\ 0 \in Server /\ (f = 0 \/ f = 1)
  BY <1>0, <1>1 DEF Server
<1>3. /\ quorum' = [[quorum EXCEPT ![f] = s] EXCEPT ![p] = quorum[f]]
      /\ position' = [[position EXCEPT ![s] = f] EXCEPT ![f] = p]
  BY DEF Swap
<1>4. /\ quorum'[p] = quorum[f]
      /\ p # f => quorum'[f] = s
      /\ quorum'[f] = s
      /\ \A i \in Server : i # p /\ i # f => quorum'[i] = quorum[i]
  BY <1>0, <1>2, <1>3
<1> HIDE DEF p, f
<1>5. QuorumIsPermutation'
  <2> SUFFICES ASSUME NEW i \in Server, NEW j \in Server, i # j
               PROVE  quorum'[i] # quorum'[j]
    BY DEF QuorumIsPermutation
  <2>1. /\ quorum[i] # quorum[j] /\ f \in Server
        /\ i # p => quorum[i] # quorum[p]
        /\ j # p => quorum[j] # quorum[p]
        /\ i # f => quorum[i] # quorum[f]
        /\ j # f => quorum[j] # quorum[f]
    BY <1>0, <1>1, <1>2 DEF f
  <2> QED
    BY <1>2, <1>4, <2>1
<1>6. CASE f = 0
  <2>1. p = s /\ quorum[0] = 0
    <3>1. p \in Server /\ quorum[p] = p /\ quorum[p] = s /\ quorum[0] = 0
      BY <1>1, <1>2, <1>6 DEF f
    <3> QED
      BY <3>1
  <2>2. \A t \in Server : position[t] = t
    BY <1>0, <1>1, <1>6 DEF f
  <2>3. \A t \in Server : quorum'[position'[t]] = t
    <3> TAKE t \in Server
    <3>1. /\ position' = [[position EXCEPT ![s] = 0] EXCEPT ![0] = s]
          /\ quorum'[s] = 0 /\ quorum'[0] = s
          /\ t # s /\ t # 0 => quorum'[t] = t
      BY <1>1, <1>3, <1>4, <1>6, <2>1 DEF f, p
    <3>2. CASE t = 0
      BY <1>0, <1>2, <3>1, <3>2
    <3>3. CASE t # 0 /\ t = s
      BY <1>0, <1>2, <3>1, <3>3
    <3>4. CASE t # 0 /\ t # s
      BY <1>0, <1>2, <2>2, <3>1, <3>4
    <3> QED
      BY <3>2, <3>3, <3>4
  <2>4. {quorum'[i] : i \in 0 .. formIndex} = {s}
    <3>1. 0 .. formIndex = {0}
      BY <1>6 DEF f
    <3> QED
      BY <1>4, <1>6, <3>1
  <2> QED
    BY <1>1, <1>4, <1>5, <1>6, <2>3, <2>4 DEF f
<1>7. CASE f = 1
  <2>1. quorum[0] # s
    BY <1>1, <1>7 DEF f
  <2>2. p # 0
    BY <1>2, <2>1
  <2>3. quorum'[0] = quorum[0] /\ quorum'[1] = s
    BY <1>2, <1>4, <1>7, <2>2
  <2>4. {quorum'[i] : i \in 0 .. formIndex} = {quorum[0], s}
    <3>1. 0 .. formIndex = {0, 1}
      BY <1>7 DEF f
    <3> QED
      BY <2>3, <3>1
  <2> QED
    BY <1>1, <1>5, <1>7, <2>4 DEF f
<1> QED
  BY <1>2, <1>6, <1>7

(* Every step keeps it. *)
LEMMA ArrayStep ==
  ASSUME K <= 2, ~ Timeouts, TypeInv, QuietInv, ArrayInv, [Next]_vars
  PROVE  ArrayInv'
<1>0. freed = {} /\ pc \notin {"retry", "undefined"}
  BY DEF QuietInv
<1>1. ASSUME UNCHANGED <<quorum, position, pc, mustForm, formIndex, responders>>,
             \A D, F : OnePlace(PROBE, D, F) => OnePlace(PROBE, D, F)'
      PROVE  ArrayInv'
  <2>1. PICK D, F : D = responders /\ F = IF pc = "idle" THEN {} ELSE Server
    OBVIOUS
  <2>2. mustForm => OnePlace(PROBE, D, F)'
    BY <1>1, <2>1 DEF ArrayInv
  <2>3. mustForm => OnePlace(PROBE, responders, IF pc = "idle" THEN {} ELSE Server)'
    BY <1>1, <2>1, <2>2
  <2> QED
    BY <1>1, <2>3 DEF ArrayInv, QuorumIsPermutation, FirstToAnswer
<1>2. CASE CallNew \/ CallAgain
  <2>1. Started
    BY <1>2, StartStep
  <2>2. pc = "idle" /\ pc' \in {"form", "send"} /\ responders = {}
        /\ UNCHANGED <<quorum, position, mustForm, formIndex, responders>>
        /\ (mustForm => pc' = "form")
    BY <2>1 DEF Started, globals, form, ArrayInv
  <2>3. mustForm => OnePlace(PROBE, {}, Server)'
    <3>1. mustForm => OnePlace(PROBE, {}, {})
      BY <2>2 DEF ArrayInv
    <3> QED
      BY <2>1, <3>1, StartProbes
  <2>4. mustForm => OnePlace(PROBE, responders, IF pc = "idle" THEN {} ELSE Server)'
    BY <2>2, <2>3
  <2> QED
    BY <2>2, <2>4 DEF ArrayInv, QuorumIsPermutation, FirstToAnswer
<1>3. CASE Send
  BY <1>3 DEF Send, ArrayInv, QuietInv, QuorumIsPermutation, FirstToAnswer, globals
<1>4. CASE FormProbe \/ FormOther \/ FormTimeout
  <2>1. PICK m : m = Head(mainQueue)
    OBVIOUS
  <2>2. /\ pc = "form" /\ mainQueue # <<>> /\ mainQueue' = Tail(mainQueue)
        /\ m.id = PROBE
        /\ Swap(m.sender, formIndex) /\ responders' = responders \cup {m.sender}
        /\ IF formCount + 1 = K
           THEN pc' = "send" /\ mustForm' = FALSE
           ELSE pc' = "form" /\ formIndex' = formIndex + 1
        /\ UNCHANGED <<heap, queue, worker>>
    BY <1>4, <2>1, QuietForm DEF FormProbe, memory
  <2>3. mustForm /\ formIndex = formCount /\ K \in 1 .. N /\ formCount \in 0 .. K - 1
    BY <2>2, QuorumAssumption DEF QuietInv, TypeInv, TypeOK
  <2>4. PICK D : D = responders
    OBVIOUS
  <2>5. PICK E : E = D \cup {m.sender}
    OBVIOUS
  <2>6. PICK S : S = Server
    OBVIOUS
  <2>7. OnePlace(PROBE, D, S)
    BY <2>2, <2>3, <2>4, <2>6 DEF ArrayInv
  <2>8. m.sender \in Server /\ m.sender \notin D /\ OnePlace(PROBE, E, S)'
    <3>1. UNCHANGED <<heap, queue, worker>> /\ mainQueue # <<>>
          /\ mainQueue' = Tail(mainQueue)
          /\ E = IF m.id = PROBE THEN D \cup {m.sender} ELSE D
      BY <2>2, <2>5
    <3>2. m.sender \in Server /\ m.sender \notin D
      <4>1. /\ m \in Message /\ 1 \in DOMAIN mainQueue /\ m = mainQueue[1]
        BY <2>1, <3>1, HeadMessage DEF TypeInv, TypeOK
      <4>2. m.sender \in Server /\ Answering(m.sender, PROBE)
        BY <2>2, <4>1 DEF Answering, Message
      <4> QED
        BY <2>7, <4>2 DEF OnePlace, OneAt
    <3>3. OnePlace(PROBE, E, S)'
      BY <2>1, <2>7, <3>1, CountOnePlace
    <3> QED
      BY <2>2, <3>2, <3>3
  <2>9. m.sender \in Server /\ m.sender \notin responders
        /\ OnePlace(PROBE, responders, Server)'
    BY <2>2, <2>4, <2>5, <2>6, <2>8
  <2>10. formIndex + 1 <= K
    BY <2>3
  <2>11. /\ QuorumIsPermutation'
         /\ formIndex = 0 =>
              /\ \A t \in Server : quorum'[position'[t]] = t
              /\ quorum'[0] = m.sender
         /\ {quorum'[i] : i \in 0 .. formIndex} = responders'
    BY <2>2, <2>3, <2>9, <2>10, SwapArray
  <2>12. CASE formCount + 1 = K
    <3>1. formIndex = K - 1
      BY <2>3, <2>12
    <3>2. FirstToAnswer'
      BY <2>11, <3>1 DEF FirstToAnswer
    <3> QED
      BY <2>2, <2>11, <2>12, <3>2 DEF ArrayInv
  <2>13. CASE formCount + 1 # K
    <3>1. formIndex = 0 /\ formIndex' = 1
      BY <2>2, <2>3, <2>13
    <3>2. responders' = {quorum'[0]}
      BY <2>2, <2>3, <2>11, <3>1 DEF ArrayInv
    <3> QED
      BY <2>2, <2>9, <2>11, <2>13, <3>1, <3>2 DEF ArrayInv, FirstToAnswer
  <2> QED
    BY <2>12, <2>13
<1>5. CASE Receive
  <2>1. ~ mustForm
    BY <1>5 DEF Receive, QuietInv
  <2>2. pc' \in {"wait", "return"}
    BY <1>5 DEF Receive, Collect
  <2> QED
    BY <1>5, <2>1, <2>2
       DEF Receive, ArrayInv, QuorumIsPermutation, FirstToAnswer, globals, history
<1>6. ~ RetryReceive /\ ~ Timeout /\ ~ RetryTimeout
  BY <1>0 DEF RetryReceive, Timeout, RetryTimeout
<1>7. ASSUME NEW w \in 0 .. MaxWriteBacks, Return(w) PROVE ArrayInv'
  <2>1. ~ mustForm
    BY <1>7 DEF Return, QuietInv
  <2> QED
    BY <1>7, <2>1
       DEF Return, EndCall, ArrayInv, QuorumIsPermutation, FirstToAnswer
<1>8. ASSUME NEW s \in Server, Thread(s) PROVE ArrayInv'
  <2>1. UNCHANGED <<quorum, position, pc, mustForm, formIndex, responders>>
    BY <1>0, <1>8, ThreadSteps DEF globals, form
  <2>2. \A D, F : OnePlace(PROBE, D, F) => OnePlace(PROBE, D, F)'
    BY <1>0, <1>8, ThreadOnePlace
  <2> QED
    BY <1>1, <2>1, <2>2
<1>9. ASSUME UNCHANGED <<quorum, position, pc, mustForm, formIndex, responders,
                         heap, queue, worker, mainQueue>>
      PROVE  ArrayInv'
  <2>1. \A D, F : OnePlace(PROBE, D, F) => OnePlace(PROBE, D, F)'
    BY <1>9 DEF OnePlace, OneAt, QueuedOnce, AnsweringOnce, Queued, InHand, Answering
  <2> QED
    BY <1>1, <1>9, <2>1
<1>10. ASSUME NEW s \in Server, Environment(s) PROVE ArrayInv'
  BY <1>9, <1>10 DEF Environment, Crash, Restart, globals, memory, form, history
<1>11. CASE UNCHANGED vars
  BY <1>9, <1>11 DEF vars, globals, memory, form, history
<1> QED
  BY <1>2, <1>3, <1>4, <1>5, <1>6, <1>7, <1>8, <1>10, <1>11 DEF Next, Main

(* It holds in every reachable state when no wait times out and K <= 2.    *)
LEMMA ArrayHolds == ASSUME K <= 2, ~ Timeouts PROVE Spec => []ArrayInv
<1>1. Init => ArrayInv
  <2> SUFFICES ASSUME Init PROVE ArrayInv
    OBVIOUS
  <2>1. OnePlace(PROBE, {}, {})
    BY DEF Init, OnePlace, OneAt, QueuedOnce, AnsweringOnce, Queued, InHand,
           Answering, Idle
  <2>2. \A i \in Server : quorum[i] = i /\ position[i] = i
    BY DEF Init
  <2> QED
    BY <2>1, <2>2 DEF Init, ArrayInv, QuorumIsPermutation, FirstToAnswer
<1>2. TypeInv /\ QuietInv /\ ArrayInv /\ [Next]_vars => ArrayInv'
  BY ArrayStep
<1> QED
  BY <1>1, <1>2, TypeCorrect, QuietHolds, PTL DEF Spec

(* While no wait times out, and with a quorum of at most two (four servers *)
(* or fewer), the array names every server once.                           *)
THEOREM QuietPermutation ==
  ASSUME K <= 2, ~ Timeouts PROVE Spec => []QuorumIsPermutation
<1>1. ArrayInv => QuorumIsPermutation
  BY DEF ArrayInv
<1> QED
  BY <1>1, ArrayHolds, PTL

(* Under the same conditions the quorum asked is the one that answered.    *)
THEOREM QuietFront == ASSUME K <= 2, ~ Timeouts PROVE Spec => []FirstToAnswer
<1>1. ArrayInv => FirstToAnswer
  BY DEF ArrayInv
<1> QED
  BY <1>1, ArrayHolds, PTL

-----------------------------------------------------------------------------
(***************************************************************************)
(* The request of a call.  It goes to the first K servers of the array,    *)
(* once to each; an answer that was counted was executed; and the call     *)
(* returns when all K have answered, so that nothing of it is left with a  *)
(* thread or in a queue when the next one starts, in the same struct or    *)
(* in another.                                                             *)
(***************************************************************************)
Sent == pc \in {"wait", "return"}

Ids == IF Sent THEN {PROBE, idCounter} ELSE {PROBE}

Answered == {s \in Server : answers[s] # NoAnswer}

Front == {quorum[i] : i \in 0 .. K - 1}

ServersUp == crashes = 0 /\ \A s \in Server : alive[s] /\ link[s] = "up"

StructInv ==
  /\ idCounter >= 1
  /\ request # 0 => heap[request].id # PROBE
  /\ pc # "idle" => heap[request].call = call
  /\ \A r \in DOMAIN heap : heap[r].id < idCounter \/ (Sent /\ r = request)
  /\ Sent => heap[request].id = idCounter

FlightInv ==
  /\ HeldIds(Ids)
  /\ \A s \in Server : InHand(s, idCounter) => worker[s].call = call
  /\ \A i \in DOMAIN mainQueue :
       \/ mainQueue[i].id < idCounter
       \/ Sent /\ mainQueue[i].id = idCounter /\ mainQueue[i].sender \in doneBy
  /\ Sent => OnePlace(idCounter, Answered, Front)

CountInv ==
  /\ count = Cardinality(Answered) /\ Answered \subseteq doneBy \cap Front
  /\ ~ Sent => count = 0
  /\ pc = "return" => count = K

RequestInv == ServersUp /\ StructInv /\ FlightInv /\ CountInv

(* There are at most K servers at the front. *)
LEMMA FrontSize ==
  ASSUME TypeOK
  PROVE  IsFiniteSet(Front) /\ Cardinality(Front) <= K /\ Front \subseteq Server
<1> DEFINE f == [i \in 0 .. K - 1 |-> quorum[i]]
<1>0. K \in 1 .. N /\ N \in Nat /\ quorum \in [Server -> Server]
  BY QuorumAssumption DEF TypeOK
<1>1. IsFiniteSet(0 .. K - 1) /\ Cardinality(0 .. K - 1) = K
  <2>1. 0 \in Int /\ K - 1 \in Int /\ ~ (0 > K - 1) /\ (K - 1) - 0 + 1 = K
    BY <1>0
  <2> QED
    BY <2>1, FS_Interval
<1>2. f \in Surjection(0 .. K - 1, Front)
  BY DEF Surjection, Front
<1>3. Front \subseteq Server
  BY <1>0 DEF Front, Server
<1> HIDE DEF f
<1> QED
  BY <1>1, <1>2, <1>3, FS_Surjection

(* The answers can be counted.                                             *)
LEMMA AnsweredFinite == IsFiniteSet(Answered) /\ Cardinality(Answered) \in Nat
<1>1. IsFiniteSet(Server)
  BY QuorumAssumption, FS_Interval DEF Server
<1>2. Answered \in SUBSET Server
  BY DEF Answered
<1> QED
  BY <1>1, <1>2, FS_Subset, FS_CardinalityType

(* Before the request is sent, its id is nowhere. *)
LEMMA NotSent ==
  ASSUME TypeInv, StructInv, FlightInv, ~ Sent
  PROVE  /\ HeldIds({PROBE}) /\ \A s \in Server : ~ InHand(s, idCounter)
         /\ \A i \in DOMAIN mainQueue :
              mainQueue[i].id < idCounter /\ mainQueue[i].id # idCounter
<1>1. HeldIds({PROBE})
  BY DEF FlightInv, Ids
<1>2. PROBE # idCounter /\ idCounter \in Nat
  BY DEF StructInv, PROBE, TypeInv, TypeOK
<1>3. ASSUME NEW s \in Server PROVE ~ InHand(s, idCounter)
  BY <1>1, <1>2 DEF HeldIds, InHand
<1>4. ASSUME NEW i \in DOMAIN mainQueue
      PROVE  mainQueue[i].id < idCounter /\ mainQueue[i].id # idCounter
  <2>1. mainQueue[i] \in Message
    BY LenProperties, ElementOfSeq DEF TypeInv, TypeOK
  <2> QED
    BY <1>2, <2>1 DEF FlightInv, Message
<1> QED
  BY <1>1, <1>3, <1>4

(* A new call finds nothing of the old one.                                *)
LEMMA CallRequest ==
  ASSUME TypeInv, QuietInv, RequestInv, CallNew \/ CallAgain
  PROVE  RequestInv'
<1>1. Started
  BY StartStep
<1>2. /\ pc = "idle" /\ pc' \in {"form", "send"} /\ request' # 0
      /\ UNCHANGED <<idCounter, quorum, mainQueue, worker, count, answers,
                     alive, link, crashes, doneBy>>
      /\ call' = call + 1
  BY <1>1 DEF Started, globals, collected, network
<1>3. ~ Sent /\ ~ Sent' /\ Ids' = {PROBE}
  BY <1>2 DEF Sent, Ids
<1>4. HeldIds({PROBE})
  BY <1>3 DEF RequestInv, FlightInv, Ids
<1>5. HeldIds({PROBE})'
  BY <1>4, StartIds
<1>6. StructInv'
  <2>1. idCounter \in Nat /\ idCounter >= 1
    BY DEF RequestInv, StructInv, TypeInv, TypeOK
  <2>2. \A r \in DOMAIN heap' : heap'[r].id < idCounter
    <3> TAKE r \in DOMAIN heap'
    <3>1. CASE r \in DOMAIN heap
      BY <1>1, <1>3, <3>1 DEF Started, RequestInv, StructInv
    <3>2. CASE r \notin DOMAIN heap
      <4>1. heap'[r].id \in {0, PROBE}
        BY <1>1, <3>2 DEF Started
      <4> QED
        BY <2>1, <4>1 DEF PROBE
    <3> QED
      BY <3>1, <3>2
  <2>3. heap'[request'].id # PROBE /\ heap'[request'].call = call'
    BY <1>1, <1>2 DEF Started, RequestInv, StructInv, PROBE
  <2> QED
    BY <1>2, <1>3, <2>1, <2>2, <2>3 DEF StructInv
<1>7. FlightInv'
  <2>1. HeldIds(Ids)'
    BY <1>3, <1>5 DEF HeldIds
  <2>2. PROBE # idCounter
    BY DEF RequestInv, StructInv, PROBE, TypeInv, TypeOK
  <2>3. \A s \in Server : ~ InHand(s, idCounter)'
    BY <1>2, <1>5, <2>2 DEF HeldIds, InHand
  <2>4. \A i \in DOMAIN mainQueue : mainQueue[i].id < idCounter
    BY <1>3, NotSent DEF RequestInv
  <2> QED
    BY <1>2, <1>3, <2>1, <2>3, <2>4 DEF FlightInv
<1>8. CountInv'
  <2>1. Answered' = Answered /\ Front' = Front
    BY <1>2 DEF Answered, Front
  <2> QED
    BY <1>2, <1>3, <2>1 DEF RequestInv, CountInv
<1> QED
  BY <1>2, <1>6, <1>7, <1>8 DEF RequestInv, ServersUp

(* Each of the first K servers is asked once, the others are not. *)
LEMMA CopiesOnce ==
  ASSUME TypeOK, QuorumIsPermutation, NEW s \in Server
  PROVE  Copies(s) \in {0, 1} /\ (s \notin Front => Copies(s) = 0)
<1> DEFINE C == {i \in 0 .. K - 1 : quorum[i] = s}
<1>0. K \in 1 .. N /\ N \in Nat
  BY QuorumAssumption
<1>1. \A i, j \in C : i = j
  BY <1>0 DEF QuorumIsPermutation, Server
<1>2. CASE C = {}
  BY <1>2, FS_EmptySet DEF Copies
<1>3. CASE C # {}
  <2>1. PICK i \in C : TRUE
    BY <1>3
  <2>2. C = {i}
    BY <1>1, <2>1
  <2>3. Cardinality(C) = 1
    <3> HIDE DEF C
    <3> QED
      BY <2>2, FS_Singleton
  <2>4. s \in Front
    BY <2>1 DEF Front
  <2> QED
    BY <2>3, <2>4 DEF Copies
<1> QED
  BY <1>2, <1>3

(* Sending: the queues of the first K servers end with the request. *)
LEMMA SendQueues ==
  ASSUME TypeInv, QuorumIsPermutation, Send, NEW s \in Server
  PROVE  /\ \A i \in DOMAIN queue[s] :
              i \in DOMAIN queue'[s] /\ queue'[s][i] = queue[s][i]
         /\ \A i \in DOMAIN queue'[s] :
              i \in DOMAIN queue[s] \/ (s \in Front /\ queue'[s][i] = request)
         /\ \A i, j \in DOMAIN queue'[s] :
              i \notin DOMAIN queue[s] /\ j \notin DOMAIN queue[s] => i = j
<1> DEFINE n == Copies(s)
           c == [i \in 1 .. n |-> request]
           q == queue[s]
<1>1. q \in Seq(DOMAIN heap) /\ request \in DOMAIN heap /\ queue'[s] = q \o c
  BY DEF TypeInv, TypeOK, Send
<1>2. n \in {0, 1} /\ (s \notin Front => n = 0)
  BY CopiesOnce DEF TypeInv
<1>3. c \in Seq(DOMAIN heap) /\ DOMAIN c = 1 .. n /\ \A i \in DOMAIN c : c[i] = request
  BY <1>1, <1>2, SeqOf
<1> HIDE DEF n, c, q
<1>4. /\ q \o c \in Seq(DOMAIN heap) /\ Len(q \o c) = Len(q) + Len(c)
      /\ \A i \in 1 .. Len(q) + Len(c) :
           (q \o c)[i] = IF i <= Len(q) THEN q[i] ELSE c[i - Len(q)]
  BY <1>1, <1>3, ConcatProperties
<1>5. /\ DOMAIN q = 1 .. Len(q) /\ Len(q) \in Nat /\ Len(c) \in Nat
      /\ DOMAIN c = 1 .. Len(c) /\ DOMAIN (q \o c) = 1 .. Len(q) + Len(c)
  BY <1>1, <1>3, <1>4, LenProperties
<1>6. Len(c) \in {0, 1} /\ (s \notin Front => Len(c) = 0)
  <2>1. \A i \in Nat : i \in 1 .. Len(c) <=> i \in 1 .. n
    BY <1>3, <1>5
  <2>2. (1 \in 1 .. Len(c) <=> 1 \in 1 .. n) /\ (2 \in 1 .. Len(c) <=> 2 \in 1 .. n)
    BY <2>1
  <2> QED
    BY <1>2, <1>5, <2>2
<1>7. \A i \in DOMAIN q : i \in DOMAIN (q \o c) /\ (q \o c)[i] = q[i]
  BY <1>4, <1>5
<1>8. ASSUME NEW i \in DOMAIN (q \o c), i \notin DOMAIN q
      PROVE  /\ i = Len(q) + 1 /\ s \in Front
             /\ (q \o c)[i] = request
  <2>1. i \in 1 .. Len(q) + Len(c) /\ ~ (i <= Len(q))
    BY <1>5, <1>8
  <2>2. Len(c) = 1 /\ i = Len(q) + 1 /\ s \in Front
    <3>1. CASE Len(c) = 0
      BY <1>5, <2>1, <3>1
    <3>2. CASE Len(c) = 1
      BY <1>5, <1>6, <2>1, <3>2
    <3> QED
      BY <1>6, <3>1, <3>2
  <2>3. (q \o c)[i] = c[1] /\ 1 \in DOMAIN c
    BY <1>4, <1>5, <2>1, <2>2
  <2> QED
    BY <1>3, <2>2, <2>3
<1>9. /\ \A i \in DOMAIN (q \o c) :
           i \in DOMAIN q \/ (s \in Front /\ (q \o c)[i] = request)
      /\ \A i, j \in DOMAIN (q \o c) :
           i \notin DOMAIN q /\ j \notin DOMAIN q => i = j
  BY <1>8
<1> QED
  BY <1>1, <1>7, <1>9 DEF q

(* The request is sent: it is in the queues of the first K servers only.   *)
LEMMA SendRequest ==
  ASSUME TypeInv, QuorumIsPermutation, RequestInv, Send
  PROVE  RequestInv'
<1>0. /\ pc = "send" /\ pc' = "wait" /\ ~ Sent /\ Sent'
      /\ UNCHANGED <<idCounter, quorum, request, mainQueue, worker, count, answers,
                     alive, link, crashes, doneBy, call>>
  BY DEF Send, Sent, globals, collected, network
<1>1. /\ heap \in Seq(Task) /\ request \in DOMAIN heap /\ idCounter \in Nat
      /\ idCounter # PROBE /\ heap[request].id # PROBE /\ heap[request].call = call
      /\ idCounter >= 1 /\ request # 0
  <2>1. heap \in Seq(Task) /\ request \in DOMAIN heap /\ idCounter \in Nat
    BY <1>0 DEF TypeInv, TypeOK
  <2>2. request # 0
    BY <2>1, LenProperties
  <2> QED
    BY <1>0, <2>1, <2>2 DEF RequestInv, StructInv, PROBE
<1>2. /\ DOMAIN heap' = DOMAIN heap
      /\ heap'[request].id = idCounter /\ heap'[request].call = call
      /\ \A r \in DOMAIN heap : r # request => heap'[r] = heap[r]
  <2>1. heap[request] \in Task
    BY <1>1, LenProperties, ElementOfSeq
  <2>2. heap' = [heap EXCEPT ![request] = [heap[request] EXCEPT !.id = idCounter]]
    BY DEF Send
  <2>3. heap'[request] = [heap[request] EXCEPT !.id = idCounter]
    BY <1>1, <2>2
  <2> QED
    BY <1>1, <2>1, <2>2, <2>3 DEF Task
<1>3. /\ HeldIds({PROBE}) /\ \A s \in Server : ~ InHand(s, idCounter)
      /\ \A i \in DOMAIN mainQueue :
           mainQueue[i].id < idCounter /\ mainQueue[i].id # idCounter
  BY <1>0, NotSent DEF RequestInv
<1>4. StructInv'
  BY <1>0, <1>1, <1>2 DEF RequestInv, StructInv
<1>5. ASSUME NEW s \in Server
      PROVE  /\ \A i \in DOMAIN queue[s] :
                  /\ queue[s][i] \in DOMAIN heap /\ queue[s][i] # request
                  /\ heap'[queue[s][i]].id = PROBE
             /\ worker[s].at = "taken" => /\ worker[s].task # request
                                          /\ heap'[worker[s].task].id = PROBE
  <2>1. /\ \A i \in DOMAIN queue[s] : queue[s][i] \in DOMAIN heap
        /\ worker[s].at = "taken" => worker[s].task \in DOMAIN heap
    <3>1. queue[s] \in Seq(DOMAIN heap)
      BY DEF TypeInv, TypeOK
    <3> QED
      BY <3>1, LenProperties, ElementOfSeq DEF TypeInv, TypeOK
  <2> QED
    BY <1>1, <1>2, <1>3, <2>1 DEF HeldIds
<1>6. \A s \in Server : ~ InHand(s, idCounter)'
  BY <1>0, <1>1, <1>3, <1>5 DEF HeldIds, InHand
<1>7. HeldIds(Ids)'
  <2>1. ASSUME NEW s \in Server
        PROVE  /\ \A i \in DOMAIN queue'[s] : heap'[queue'[s][i]].id \in {PROBE, idCounter}
               /\ worker[s].at = "taken" => heap'[worker[s].task].id = PROBE
               /\ worker[s].at = "rpc" => worker[s].id = PROBE
    <3>1. \A i \in DOMAIN queue'[s] : heap'[queue'[s][i]].id \in {PROBE, idCounter}
      BY <1>2, <1>5, SendQueues
    <3> QED
      BY <1>3, <1>5, <3>1 DEF HeldIds
  <2> QED
    BY <1>0, <2>1 DEF HeldIds, Ids
<1>8. Answered = {} /\ Answered' = {} /\ Front' = Front
  <2>1. Answered = {}
    BY <1>0, AnsweredFinite, FS_EmptySet DEF RequestInv, CountInv
  <2> QED
    BY <1>0, <2>1 DEF Answered, Front
<1>9. ASSUME NEW s \in Server
      PROVE  OneAt(s, idCounter, {}, Front)'
  <2>1. ~ Answering(s, idCounter)' /\ AnsweringOnce(s, idCounter)'
    BY <1>0, <1>3 DEF Answering, AnsweringOnce
  <2>2. \A i \in DOMAIN queue'[s] :
          heap'[queue'[s][i]].id = idCounter => i \notin DOMAIN queue[s] /\ s \in Front
    BY <1>1, <1>5, SendQueues
  <2>3. Queued(s, idCounter)' => s \in Front
    BY <1>0, <2>2 DEF Queued
  <2>4. QueuedOnce(s, idCounter)'
    BY <1>0, <2>2, SendQueues DEF QueuedOnce
  <2> QED
    BY <1>6, <1>8, <2>1, <2>3, <2>4 DEF OneAt
<1>10. FlightInv'
  <2>1. OnePlace(idCounter, Answered, Front)'
    BY <1>8, <1>9 DEF OnePlace
  <2> QED
    BY <1>0, <1>3, <1>6, <1>7, <2>1 DEF FlightInv
<1>11. CountInv'
  BY <1>0, <1>8 DEF RequestInv, CountInv
<1> QED
  BY <1>0, <1>4, <1>10, <1>11 DEF RequestInv, ServersUp

(* Forming the quorum takes messages only. *)
LEMMA FormRequest ==
  ASSUME ~ Timeouts, TypeInv, QuietInv, RequestInv,
         FormProbe \/ FormOther \/ FormTimeout
  PROVE  RequestInv'
<1>1. /\ pc = "form" /\ pc' \in {"form", "send"} /\ mainQueue # <<>>
      /\ mainQueue' = Tail(mainQueue)
      /\ UNCHANGED <<idCounter, heap, request, queue, worker, count, answers,
                     alive, link, crashes, doneBy, call>>
  BY QuietForm DEF memory, network, collected
<1>2. ~ Sent /\ ~ Sent' /\ Ids = {PROBE} /\ Ids' = {PROBE}
  BY <1>1 DEF Sent, Ids
<1>3. StructInv'
  BY <1>1, <1>2 DEF RequestInv, StructInv
<1>4. /\ HeldIds({PROBE}) /\ \A s \in Server : ~ InHand(s, idCounter)
      /\ \A i \in DOMAIN mainQueue : mainQueue[i].id < idCounter
  BY <1>2, NotSent DEF RequestInv
<1>5. \A i \in DOMAIN mainQueue' : mainQueue'[i].id < idCounter
  BY <1>1, <1>4, HeadMessage DEF TypeInv, TypeOK
<1>6. FlightInv'
  <2>1. HeldIds(Ids)' /\ \A s \in Server : ~ InHand(s, idCounter)'
    BY <1>1, <1>2, <1>4 DEF HeldIds, InHand
  <2> QED
    BY <1>1, <1>2, <1>5, <2>1 DEF FlightInv
<1>7. CountInv'
  <2>1. Answered = {} /\ Answered' = {}
    <3>1. Answered = {}
      BY <1>2, AnsweredFinite, FS_EmptySet DEF RequestInv, CountInv
    <3> QED
      BY <1>1, <3>1 DEF Answered
  <2> QED
    BY <1>1, <1>2, <2>1 DEF RequestInv, CountInv
<1> QED
  BY <1>1, <1>3, <1>6, <1>7 DEF RequestInv, ServersUp

(* An answer is counted once, and was executed. *)
LEMMA ReceiveRequest ==
  ASSUME TypeInv, RequestInv, Receive
  PROVE  RequestInv'
<1>1. PICK m : m = Head(mainQueue)
  OBVIOUS
<1>2. /\ pc = "wait" /\ pc' \in {"wait", "return"} /\ mainQueue # <<>> /\ Collect(m)
      /\ mainQueue' = Tail(mainQueue)
      /\ UNCHANGED <<idCounter, quorum, heap, request, queue, worker,
                     alive, link, crashes, doneBy, call>>
  BY <1>1 DEF Receive, Collect, globals, memory, network, history
<1>3. Sent /\ Sent' /\ Ids = {PROBE, idCounter} /\ Ids' = Ids /\ Front' = Front
  BY <1>2 DEF Sent, Ids, Front
<1>4. StructInv'
  BY <1>2, <1>3 DEF RequestInv, StructInv
<1>5. PICK d, D, F : d = idCounter /\ D = Answered /\ F = Front
  OBVIOUS
<1>6. PICK E : E = IF m.id = d THEN D \cup {m.sender} ELSE D
  OBVIOUS
<1>7. OnePlace(d, D, F)
  BY <1>3, <1>5 DEF RequestInv, FlightInv
<1>8. /\ m.sender \in Server /\ OnePlace(d, E, F)'
      /\ m.id = d => m.sender \notin D /\ m.sender \in F
  <2>1. UNCHANGED <<heap, queue, worker>> /\ mainQueue # <<>>
        /\ mainQueue' = Tail(mainQueue)
    BY <1>2
  <2>2. OnePlace(d, E, F)'
    BY <1>1, <1>6, <1>7, <2>1, CountOnePlace
  <2>3. m.sender \in Server
    BY <1>1, <1>6, <1>7, <2>1, CountOnePlace
  <2>4. ASSUME m.id = d PROVE m.sender \notin D /\ m.sender \in F
    <3>1. 1 \in DOMAIN mainQueue /\ m = mainQueue[1]
      BY <1>1, <2>1, HeadMessage DEF TypeInv, TypeOK
    <3>2. Answering(m.sender, d)
      BY <2>4, <3>1 DEF Answering
    <3> QED
      BY <1>7, <2>3, <3>2 DEF OnePlace, OneAt
  <2> QED
    BY <2>2, <2>3, <2>4
<1>9. /\ m \in Message /\ (m.id = idCounter => m.sender \in doneBy)
      /\ \A i \in DOMAIN mainQueue' :
           i + 1 \in DOMAIN mainQueue /\ mainQueue'[i] = mainQueue[i + 1]
  <2>1. /\ m \in Message /\ 1 \in DOMAIN mainQueue /\ m = mainQueue[1]
        /\ \A i \in DOMAIN mainQueue' :
             i + 1 \in DOMAIN mainQueue /\ mainQueue'[i] = mainQueue[i + 1]
    BY <1>1, <1>2, HeadMessage DEF TypeInv, TypeOK
  <2>2. m.id < idCounter \/ m.sender \in doneBy
    BY <2>1 DEF RequestInv, FlightInv
  <2> QED
    BY <2>1, <2>2 DEF TypeInv, TypeOK
<1>10. Answered' = E /\ count' = Cardinality(E) /\ E \subseteq doneBy \cap Front
  <2>1. count = Cardinality(D) /\ D \subseteq doneBy \cap Front /\ IsFiniteSet(D)
    BY <1>5, AnsweredFinite DEF RequestInv, CountInv
  <2>2. CASE m.id = d
    <3>1. /\ count' = count + 1 /\ answers' = [answers EXCEPT ![m.sender] = m.call]
      BY <1>2, <1>5, <2>2 DEF Collect
    <3>2. m.call # NoAnswer /\ answers \in [Server -> Nat \cup {NoAnswer}]
      BY <1>9 DEF Message, NoAnswer, TypeInv, TypeOK
    <3>3. Answered' = Answered \cup {m.sender}
      BY <1>8, <3>1, <3>2 DEF Answered
    <3>4. Cardinality(D \cup {m.sender}) = Cardinality(D) + 1
      BY <1>8, <2>1, <2>2, FS_AddElement
    <3> QED
      BY <1>5, <1>6, <1>8, <1>9, <2>1, <2>2, <3>1, <3>3, <3>4
  <2>3. CASE m.id # d
    <3>1. UNCHANGED collected
      BY <1>2, <1>5, <2>3 DEF Collect
    <3> QED
      BY <1>5, <1>6, <2>1, <2>3, <3>1 DEF collected, Answered
  <2> QED
    BY <2>2, <2>3
<1>11. FlightInv'
  <2>1. OnePlace(idCounter, Answered, Front)'
    BY <1>2, <1>3, <1>5, <1>8, <1>10
  <2>2. HeldIds(Ids)'
    BY <1>2, <1>3 DEF RequestInv, FlightInv, HeldIds
  <2>3. \A s \in Server : InHand(s, idCounter)' => worker'[s].call = call'
    BY <1>2 DEF RequestInv, FlightInv, InHand
  <2>4. \A i \in DOMAIN mainQueue' :
          \/ mainQueue'[i].id < idCounter
          \/ mainQueue'[i].id = idCounter /\ mainQueue'[i].sender \in doneBy
    BY <1>9 DEF RequestInv, FlightInv
  <2> QED
    BY <1>2, <1>3, <2>1, <2>2, <2>3, <2>4 DEF FlightInv
<1>12. CountInv'
  <2>1. pc' = "return" => count' = K
    BY <1>2 DEF Collect
  <2> QED
    BY <1>2, <1>3, <1>10, <2>1 DEF CountInv
<1> QED
  BY <1>2, <1>4, <1>11, <1>12 DEF RequestInv, ServersUp

(* When the call returns, all its answers are there: nothing that has its  *)
(* id is left in a queue, with a thread or among the messages.             *)
LEMMA NothingLeft ==
  ASSUME TypeInv, RequestInv, pc = "return"
  PROVE  /\ HeldIds({PROBE})
         /\ \A i \in DOMAIN mainQueue : mainQueue[i].id < idCounter
<1>1. Sent /\ Ids = {PROBE, idCounter} /\ TypeOK
  BY DEF Sent, Ids, TypeInv
<1>2. Answered = Front
  <2>1. Answered \in SUBSET Front /\ Cardinality(Answered) = K
    BY DEF RequestInv, CountInv
  <2>2. /\ IsFiniteSet(Front) /\ Cardinality(Front) <= K
        /\ Cardinality(Answered) <= Cardinality(Front)
        /\ Cardinality(Front) = Cardinality(Answered) => Front = Answered
    BY <1>1, <2>1, FrontSize, FS_Subset
  <2>3. Cardinality(Front) \in Nat /\ K \in Nat
    BY <2>2, FS_CardinalityType, QuorumAssumption
  <2> QED
    BY <2>1, <2>2, <2>3
<1>3. ASSUME NEW s \in Server
      PROVE  ~ Queued(s, idCounter) /\ ~ InHand(s, idCounter) /\ ~ Answering(s, idCounter)
  <2>1. OneAt(s, idCounter, Answered, Front)
    BY <1>1 DEF RequestInv, FlightInv, OnePlace
  <2>2. s \in Answered <=> s \in Front
    BY <1>2
  <2> QED
    BY <2>1, <2>2 DEF OneAt
<1>4. HeldIds({PROBE})
  BY <1>1, <1>3 DEF RequestInv, FlightInv, HeldIds, Queued, InHand
<1>5. ASSUME NEW i \in DOMAIN mainQueue PROVE mainQueue[i].id < idCounter
  <2>1. mainQueue[i] \in Message
    BY <1>1, LenProperties, ElementOfSeq DEF TypeOK
  <2>2. mainQueue[i].sender \in Server
    BY <2>1 DEF Message
  <2>3. mainQueue[i].id # idCounter
    BY <1>3, <2>2 DEF Answering
  <2> QED
    BY <2>3 DEF RequestInv, FlightInv
<1> QED
  BY <1>4, <1>5

(* What qtable_get writes back has an id that is then behind the counter.  *)
LEMMA ReturnMessages ==
  ASSUME TypeInv, NEW w \in 0 .. MaxWriteBacks, Return(w),
         \A i \in DOMAIN mainQueue : mainQueue[i].id < idCounter
  PROVE  \A i \in DOMAIN mainQueue' : mainQueue'[i].id < idCounter + 1 + w
<1> DEFINE m == [id |-> idCounter + w, sender |-> 0, call |-> 0]
           back == [i \in 1 .. w |-> m]
<1>1. /\ w \in Nat /\ idCounter \in Nat /\ mainQueue \in Seq(Message) /\ 0 \in Server
  BY QuorumAssumption DEF TypeInv, TypeOK, Server
<1>2. ASSUME NEW i \in DOMAIN mainQueue PROVE mainQueue[i].id < idCounter + 1 + w
  <2>1. mainQueue[i] \in Message
    BY <1>1, LenProperties, ElementOfSeq
  <2>2. mainQueue[i].id \in Int /\ mainQueue[i].id < idCounter
    BY <2>1 DEF Message
  <2> QED
    BY <1>1, <2>2
<1>3. CASE w = 0
  BY <1>2, <1>3 DEF Return
<1>4. CASE w # 0
  <2>1. m \in Message
    BY <1>1 DEF Message
  <2>2. back \in Seq(Message) /\ mainQueue' = mainQueue \o back
    BY <1>1, <1>4, <2>1, SeqOf DEF Return
  <2>3. \A j \in DOMAIN back : back[j].id < idCounter + 1 + w
    <3>1. m.id = idCounter + w
      OBVIOUS
    <3>2. \A j \in DOMAIN back : back[j] = m
      OBVIOUS
    <3> HIDE DEF m, back
    <3> QED
      BY <1>1, <3>1, <3>2
  <2> HIDE DEF m, back
  <2>4. /\ mainQueue' \in Seq(Message)
        /\ DOMAIN mainQueue' = 1 .. Len(mainQueue) + Len(back)
        /\ \A i \in 1 .. Len(mainQueue) + Len(back) : mainQueue'[i] =
             IF i <= Len(mainQueue) THEN mainQueue[i] ELSE back[i - Len(mainQueue)]
    BY <1>1, <2>2, ConcatProperties, LenProperties
  <2>5. /\ Len(mainQueue) \in Nat /\ DOMAIN mainQueue = 1 .. Len(mainQueue)
        /\ Len(back) \in Nat /\ DOMAIN back = 1 .. Len(back)
    BY <1>1, <2>2, LenProperties
  <2>6. ASSUME NEW i \in DOMAIN mainQueue'
        PROVE  mainQueue'[i].id < idCounter + 1 + w
    <3>1. CASE i <= Len(mainQueue)
      <4>1. i \in DOMAIN mainQueue /\ mainQueue'[i] = mainQueue[i]
        BY <2>4, <2>5, <3>1
      <4> QED
        BY <1>2, <4>1
    <3>2. CASE ~ (i <= Len(mainQueue))
      <4>1. i - Len(mainQueue) \in DOMAIN back
            /\ mainQueue'[i] = back[i - Len(mainQueue)]
        BY <2>4, <2>5, <3>2
      <4> QED
        BY <2>3, <4>1
    <3> QED
      BY <3>1, <3>2
  <2> QED
    BY <2>6
<1> QED
  BY <1>3, <1>4

(* The call ends: the ids of what is left are behind the counter.          *)
LEMMA ReturnRequest ==
  ASSUME TypeInv, RequestInv, NEW w \in 0 .. MaxWriteBacks, Return(w)
  PROVE  RequestInv'
<1> DEFINE t == [id |-> idCounter + w, call |-> 0]
<1>1. /\ pc = "return" /\ pc' = "idle" /\ w \in Nat
      /\ idCounter \in Nat /\ idCounter >= 1 /\ idCounter' = idCounter + 1 + w
      /\ count' = 0 /\ answers' = NoAnswers /\ doneBy' = {}
      /\ heap \in Seq(Task) /\ request \in DOMAIN heap /\ request # 0
      /\ UNCHANGED <<quorum, queue, worker, alive, link, crashes, call>>
  <2>1. /\ heap \in Seq(Task) /\ pc = "return" /\ idCounter \in Nat
        /\ request \in DOMAIN heap
    BY DEF Return, TypeInv, TypeOK
  <2>2. request # 0
    BY <2>1, LenProperties
  <2> QED
    BY <2>1, <2>2 DEF Return, EndCall, RequestInv, StructInv, network
<1>2. ~ Sent' /\ Ids' = {PROBE} /\ Sent
  BY <1>1 DEF Sent, Ids
<1>3. HeldIds({PROBE}) /\ \A i \in DOMAIN mainQueue : mainQueue[i].id < idCounter
  BY <1>1, NothingLeft
<1>4. \A i \in DOMAIN mainQueue' : mainQueue'[i].id < idCounter'
  BY <1>1, <1>3, ReturnMessages
<1>5. heap[request].id = idCounter /\ idCounter # PROBE
  BY <1>1, <1>2 DEF RequestInv, StructInv, PROBE
<1>6. /\ DOMAIN heap' = DOMAIN heap
      /\ \A r \in DOMAIN heap : r # request => heap'[r] = heap[r]
      /\ heap'[request] \in {heap[request], t}
      /\ request' = 0 \/ (request' = request /\ heap' = heap)
  BY <1>1 DEF Return
<1>7. StructInv'
  <2>1. \A r \in DOMAIN heap : heap'[r].id < idCounter'
    <3> TAKE r \in DOMAIN heap
    <3>1. CASE r = request
      <4>1. heap'[request].id \in {idCounter, idCounter + w}
        BY <1>5, <1>6
      <4> QED
        BY <1>1, <3>1, <4>1
    <3>2. CASE r # request
      <4>1. heap[r] \in Task
        BY <1>1, LenProperties, ElementOfSeq
      <4>2. heap[r].id \in Int /\ heap[r].id < idCounter
        BY <3>2, <4>1 DEF RequestInv, StructInv, Task
      <4> QED
        BY <1>1, <1>6, <3>2, <4>2
    <3> QED
      BY <3>1, <3>2
  <2> QED
    BY <1>1, <1>2, <1>5, <1>6, <2>1 DEF StructInv
<1>8. ASSUME NEW s \in Server
      PROVE  /\ \A i \in DOMAIN queue[s] : heap'[queue[s][i]].id = PROBE
             /\ worker[s].at = "taken" => heap'[worker[s].task].id = PROBE
             /\ worker[s].at = "rpc" => worker[s].id = PROBE
  <2>1. /\ \A i \in DOMAIN queue[s] : queue[s][i] \in DOMAIN heap
        /\ worker[s].at = "taken" => worker[s].task \in DOMAIN heap
    <3>1. queue[s] \in Seq(DOMAIN heap)
      BY DEF TypeInv, TypeOK
    <3> QED
      BY <3>1, LenProperties, ElementOfSeq DEF TypeInv, TypeOK
  <2> QED
    BY <1>3, <1>5, <1>6, <2>1 DEF HeldIds
<1>9. FlightInv'
  <2>1. HeldIds(Ids)'
    BY <1>1, <1>2, <1>8 DEF HeldIds
  <2>2. idCounter' # PROBE
    BY <1>1 DEF PROBE
  <2>3. \A s \in Server : ~ InHand(s, idCounter)'
    BY <1>1, <1>8, <2>2 DEF InHand
  <2> QED
    BY <1>2, <1>4, <2>1, <2>3 DEF FlightInv
<1>10. CountInv'
  <2>1. Answered' = {}
    BY <1>1 DEF Answered, NoAnswers
  <2> QED
    BY <1>1, <1>2, <2>1, FS_EmptySet DEF CountInv
<1> QED
  BY <1>1, <1>7, <1>9, <1>10 DEF RequestInv, ServersUp

(* With no server down, a thread that answers has had its call executed.   *)
LEMMA ThreadRequest ==
  ASSUME MaxCrashes = 0, TypeInv, QuietInv, RequestInv,
         NEW s \in Server, Thread(s)
  PROVE  RequestInv'
<1>0. freed = {}
  BY DEF QuietInv
<1>1. /\ UNCHANGED <<pc, quorum, idCounter, heap, request, count, answers, call>>
      /\ \/ Takes(s) \/ Reads(s) \/ Answers(s)
         \/ UNCHANGED <<queue, worker, mainQueue, doneBy>>
  BY <1>0, ThreadSteps DEF globals, memory, collected
<1>2. Take(s) \/ ReadId(s) \/ Serve(s)
  BY DEF Thread, RequestInv, ServersUp, DieServing, ReadFails, WriteFails, Reconnect
<1>3. /\ UNCHANGED <<alive, link, crashes>> /\ doneBy \subseteq doneBy'
      /\ Serve(s) /\ worker[s].call = call /\ pc # "idle" => s \in doneBy'
  BY <1>2 DEF Take, ReadId, Serve, Executed, network, history
<1>4. /\ Sent' = Sent /\ Ids' = Ids /\ Front' = Front /\ Answered' = Answered
  BY <1>1 DEF Sent, Ids, Front, Answered
<1>5. StructInv'
  BY <1>1, <1>4 DEF RequestInv, StructInv
<1>6. CountInv'
  BY <1>1, <1>3, <1>4 DEF RequestInv, CountInv
<1>7. HeldIds(Ids)'
  <2>1. PICK S : S = Ids
    OBVIOUS
  <2>2. HeldIds(S) /\ \A M : S \subseteq M /\ SentIds(M) => HeldIds(S)'
    BY <1>0, <2>1, ThreadIds DEF RequestInv, FlightInv
  <2>3. SentIds({mainQueue[i].id : i \in DOMAIN mainQueue} \cup S)
    BY DEF SentIds
  <2>4. PICK M : M = {mainQueue[i].id : i \in DOMAIN mainQueue} \cup S
    OBVIOUS
  <2>5. HeldIds(S)'
    BY <2>2, <2>3, <2>4
  <2> QED
    BY <1>4, <2>1, <2>5
<1>8. ASSUME Sent PROVE OnePlace(idCounter, Answered, Front)'
  <2>1. PICK d, D, F : d = idCounter /\ D = Answered /\ F = Front
    OBVIOUS
  <2>2. OnePlace(d, D, F)
    BY <1>8, <2>1 DEF RequestInv, FlightInv
  <2>3. OnePlace(d, D, F)'
    BY <1>0, <2>2, ThreadOnePlace
  <2> QED
    BY <1>1, <1>4, <2>1, <2>3
<1>9. ASSUME NEW u \in Server, InHand(u, idCounter)'
      PROVE  worker'[u].call = call
  <2>1. InHand(u, idCounter) => worker[u].call = call
    BY DEF RequestInv, FlightInv
  <2>2. CASE worker'[u] = worker[u]
    BY <1>1, <1>9, <2>1, <2>2 DEF InHand
  <2>3. CASE Takes(s) /\ u = s
    <3>1. /\ heap[queue[s][1]].id = idCounter /\ 1 \in DOMAIN queue[s]
          /\ worker'[s].call = heap[queue[s][1]].call
      BY <1>1, <1>9, <2>3 DEF Takes, InHand
    <3>2. queue[s] \in Seq(DOMAIN heap) /\ idCounter \in Nat /\ heap \in Seq(Task)
      BY DEF TypeInv, TypeOK
    <3>3. queue[s][1] \in DOMAIN heap
      BY <3>1, <3>2, LenProperties, ElementOfSeq
    <3>4. Sent /\ queue[s][1] = request
      BY <3>1, <3>2, <3>3 DEF RequestInv, StructInv
    <3>5. heap[request].call = call
      BY <3>4 DEF RequestInv, StructInv, Sent
    <3> QED
      BY <2>3, <3>1, <3>4, <3>5
  <2>4. CASE Reads(s) /\ u = s
    <3>1. InHand(s, idCounter) /\ worker'[s].call = worker[s].call
      BY <1>1, <1>9, <2>4 DEF Reads, InHand
    <3> QED
      BY <2>1, <2>4, <3>1
  <2>5. CASE Answers(s) /\ u = s
    BY <1>9, <2>5 DEF Answers, InHand
  <2> QED
    BY <1>1, <2>2, <2>3, <2>4, <2>5 DEF Takes, Reads, Answers
<1>10. ASSUME NEW i \in DOMAIN mainQueue'
       PROVE  \/ mainQueue'[i].id < idCounter
              \/ Sent /\ mainQueue'[i].id = idCounter /\ mainQueue'[i].sender \in doneBy'
  <2>1. i \in DOMAIN mainQueue =>
          \/ mainQueue[i].id < idCounter
          \/ Sent /\ mainQueue[i].id = idCounter /\ mainQueue[i].sender \in doneBy'
    BY <1>3 DEF RequestInv, FlightInv
  <2>2. CASE ~ Answers(s)
    <3>1. UNCHANGED mainQueue
      BY <1>1, <2>2 DEF Takes, Reads
    <3> QED
      BY <2>1, <3>1
  <2>3. CASE Answers(s) /\ i \in DOMAIN mainQueue
    BY <2>1, <2>3 DEF Answers
  <2>4. CASE Answers(s) /\ i \notin DOMAIN mainQueue
    <3>1. /\ mainQueue'[i].id = worker[s].id /\ mainQueue'[i].sender = s
          /\ worker[s].at = "rpc"
      BY <2>4 DEF Answers
    <3>2. worker[s].id \in Ids /\ PROBE < idCounter
      BY <3>1 DEF RequestInv, FlightInv, HeldIds, StructInv, PROBE, TypeInv, TypeOK
    <3>3. CASE worker[s].id = PROBE
      BY <3>1, <3>2, <3>3
    <3>4. CASE worker[s].id # PROBE
      <4>1. Sent /\ worker[s].id = idCounter
        BY <3>2, <3>4 DEF Ids
      <4>2. worker[s].call = call /\ pc # "idle"
        BY <3>1, <4>1 DEF RequestInv, FlightInv, InHand, Sent
      <4>3. Serve(s)
        BY <1>2, <3>1 DEF Take, ReadId
      <4> QED
        BY <1>3, <3>1, <4>1, <4>2, <4>3
    <3> QED
      BY <3>3, <3>4
  <2> QED
    BY <2>2, <2>3, <2>4
<1>11. FlightInv'
  BY <1>1, <1>4, <1>7, <1>8, <1>9, <1>10 DEF FlightInv
<1> QED
  BY <1>3, <1>5, <1>6, <1>11 DEF RequestInv, ServersUp

(* It holds in every reachable state when, besides, no server stops.       *)
LEMMA RequestHolds ==
  ASSUME K <= 2, ~ Timeouts, MaxCrashes = 0
  PROVE  Spec => []RequestInv
<1>1. Init => RequestInv
  <2> SUFFICES ASSUME Init PROVE RequestInv
    OBVIOUS
  <2>1. ServersUp /\ StructInv /\ ~ Sent
    BY DEF Init, ServersUp, StructInv, Sent
  <2>2. FlightInv
    BY <2>1 DEF Init, FlightInv, HeldIds, InHand, Idle
  <2>3. Answered = {}
    BY DEF Init, Answered, NoAnswers
  <2>4. CountInv
    BY <2>1, <2>3, FS_EmptySet DEF Init, CountInv
  <2> QED
    BY <2>1, <2>2, <2>4 DEF RequestInv
<1>2. TypeInv /\ QuietInv /\ ArrayInv /\ RequestInv /\ [Next]_vars => RequestInv'
  <2> SUFFICES ASSUME TypeInv, QuietInv, ArrayInv, RequestInv, [Next]_vars
               PROVE  RequestInv'
    OBVIOUS
  <2>0. QuorumIsPermutation /\ pc \notin {"retry", "undefined"}
    BY DEF ArrayInv, QuietInv
  <2>1. CASE CallNew \/ CallAgain
    BY <2>1, CallRequest
  <2>2. CASE Send
    BY <2>0, <2>2, SendRequest
  <2>3. CASE FormProbe \/ FormOther \/ FormTimeout
    BY <2>3, FormRequest
  <2>4. CASE Receive
    BY <2>4, ReceiveRequest
  <2>5. ~ RetryReceive /\ ~ Timeout /\ ~ RetryTimeout
    BY <2>0 DEF RetryReceive, Timeout, RetryTimeout
  <2>6. ASSUME NEW w \in 0 .. MaxWriteBacks, Return(w) PROVE RequestInv'
    BY <2>6, ReturnRequest
  <2>7. ASSUME NEW s \in Server, Thread(s) PROVE RequestInv'
    BY <2>7, ThreadRequest
  <2>8. ASSUME NEW s \in Server, Environment(s) PROVE RequestInv'
    BY <2>8 DEF Environment, Crash, Restart, RequestInv, ServersUp
  <2>9. CASE UNCHANGED vars
    <3>1. UNCHANGED <<pc, quorum, idCounter, heap, request, queue, mainQueue, worker,
                      count, answers, alive, link, crashes, call, doneBy>>
      BY <2>9 DEF vars, globals, memory, collected, network, history
    <3>2. ServersUp' /\ StructInv' /\ CountInv'
      BY <3>1 DEF RequestInv, ServersUp, StructInv, CountInv, Sent, Answered, Front
    <3>3. FlightInv'
      BY <3>1 DEF RequestInv, FlightInv, HeldIds, Ids, Sent, InHand, OnePlace, OneAt,
                  QueuedOnce, AnsweringOnce, Queued, Answering, Answered, Front
    <3> QED
      BY <3>2, <3>3 DEF RequestInv
  <2> QED
    BY <2>1, <2>2, <2>3, <2>4, <2>5, <2>6, <2>7, <2>8, <2>9 DEF Next, Main
<1> QED
  BY <1>1, <1>2, TypeCorrect, QuietHolds, ArrayHolds, PTL DEF Spec

(* While no wait times out and no server stops, and with a quorum of at    *)
(* most two, a call that returns was executed by K servers.                *)
THEOREM QuietExecuted ==
  ASSUME K <= 2, ~ Timeouts, MaxCrashes = 0
  PROVE  Spec => []QuorumExecuted
<1>1. TypeInv /\ RequestInv => QuorumExecuted
  <2> SUFFICES ASSUME TypeInv, RequestInv, pc = "return"
               PROVE  Cardinality(doneBy) >= K
    BY DEF QuorumExecuted
  <2>1. IsFiniteSet(doneBy)
    <3>1. IsFiniteSet(Server)
      BY QuorumAssumption, FS_Interval DEF Server
    <3> QED
      BY <3>1, FS_Subset DEF TypeInv, TypeOK
  <2>2. Answered \in SUBSET doneBy /\ Cardinality(Answered) = K
    BY DEF RequestInv, CountInv
  <2>3. Cardinality(Answered) <= Cardinality(doneBy) /\ Cardinality(doneBy) \in Nat
    BY <2>1, <2>2, FS_Subset, FS_CardinalityType
  <2> QED
    BY <2>2, <2>3, QuorumAssumption
<1> QED
  BY <1>1, TypeCorrect, RequestHolds, PTL

=============================================================================
