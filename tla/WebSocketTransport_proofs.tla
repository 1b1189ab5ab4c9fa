---------------------- MODULE WebSocketTransport_proofs ----------------------
(***************************************************************************)
(* Theorems about WebSocketTransport, for every set of calls, every        *)
(* assignment of endpoints and every number of messages.                   *)
(***************************************************************************)
EXTENDS WebSocketTransport, Integers, TLAPS

-----------------------------------------------------------------------------
\* The reader's message is the first of the queue, and stays it: others append.
ReaderInv ==
  /\ consumer = "wait" => message = None
  /\ consumer = "remove" => /\ incomingMessagesQueue # <<>>
                            /\ message = incomingMessagesQueue[1]

TypeInv == TypeOK /\ ReaderInv

\* The steps of a call keep the types: the map only holds sockets that exist.
LEMMA CallStepTyped ==
  ASSUME TypeInv, NEW t \in Call, CallStep(t)
  PROVE  TypeInv'
<1> USE TransportAssumption DEF Goto, MayCall
<1>1. SocketsTyped' /\ CallsTyped'
  <2>1. CASE Refuse(t)
    BY <2>1 DEF TypeInv, TypeOK, CallsTyped, SocketsTyped, CallPC, Links, Refuse, linkVars
  <2>2. CASE GetExisting(t)
    BY <2>2 DEF TypeInv, TypeOK, CallsTyped, SocketsTyped, CallPC, Links, GetExisting, linkVars
  <2>3. CASE Open(t)
    BY <2>3 DEF TypeInv, TypeOK, CallsTyped, SocketsTyped, CallPC, Links, Open
  <2>4. CASE Opened(t)
    BY <2>4 DEF TypeInv, TypeOK, CallsTyped, SocketsTyped, CallPC, Links, Opened
  <2>5. CASE OnOpen(t)
    BY <2>5 DEF TypeInv, TypeOK, CallsTyped, SocketsTyped, CallPC, Links, OnOpen, linkVars
  <2>6. CASE OpenFailed(t)
    BY <2>6 DEF TypeInv, TypeOK, CallsTyped, SocketsTyped, CallPC, Links, OpenFailed, linkVars
  <2>7. CASE CacheSocket(t)
    BY <2>7 DEF TypeInv, TypeOK, CallsTyped, SocketsTyped, CallPC, Links, CacheSocket, linkVars
  <2>8. CASE Send(t)
    BY <2>8 DEF TypeInv, TypeOK, CallsTyped, SocketsTyped, CallPC, Links, Send, linkVars
  <2> QED
    BY <2>1, <2>2, <2>3, <2>4, <2>5, <2>6, <2>7, <2>8 DEF CallStep
<1>2. QueueTyped' /\ ReaderTyped' /\ ReaderInv'
  BY DEF TypeInv, TypeOK, QueueTyped, ReaderTyped, ReaderInv, CallStep, queueVars, readerVars
<1> QED
  BY <1>1, <1>2 DEF TypeInv, TypeOK

\* The steps of a socket keep them: what is appended is a message, and the first
\* of a queue that is not empty stays where it is.
LEMMA SocketStepTyped ==
  ASSUME TypeInv, NEW s \in Call, SocketStep(s)
  PROVE  TypeInv'
<1> USE TransportAssumption
<1>1. CallsTyped'
  BY DEF TypeInv, TypeOK, CallsTyped, SocketStep, CoroutineStep, LinkFails, OnFailure,
         PeerCloses, PeerSends, TakeOffWire, OnMessage, callVars
<1>2. SocketsTyped'
  <2>1. CASE LinkFails(s)
    BY <2>1 DEF TypeInv, TypeOK, SocketsTyped, Links, LinkFails
  <2>2. CASE OnFailure(s)
    BY <2>2 DEF TypeInv, TypeOK, SocketsTyped, Links, OnFailure
  <2>3. CASE PeerCloses(s)
    BY <2>3 DEF TypeInv, TypeOK, SocketsTyped, Links, PeerCloses
  <2>4. CASE PeerSends(s)
    BY <2>4 DEF TypeInv, TypeOK, SocketsTyped, Links, PeerSends
  <2>5. CASE TakeOffWire(s)
    BY <2>5 DEF TypeInv, TypeOK, SocketsTyped, Links, TakeOffWire
  <2>6. CASE OnMessage(s)
    BY <2>6 DEF TypeInv, TypeOK, SocketsTyped, Links, OnMessage, linkVars
  <2> QED
    BY <2>1, <2>2, <2>3, <2>4, <2>5, <2>6 DEF SocketStep, CoroutineStep
<1>3. QueueTyped' /\ ReaderTyped' /\ ReaderInv'
  <2>1. CASE UNCHANGED queueVars
    BY <2>1 DEF TypeInv, TypeOK, QueueTyped, ReaderTyped, ReaderInv, SocketStep, queueVars,
                readerVars
  <2>2. CASE TakeOffWire(s)
    BY <2>2 DEF TypeInv, TypeOK, QueueTyped, ReaderTyped, ReaderInv, SocketStep, TakeOffWire,
                Message, readerVars
  <2>3. CASE OnMessage(s)
    BY <2>3 DEF TypeInv, TypeOK, QueueTyped, ReaderTyped, ReaderInv, SocketStep, OnMessage,
                readerVars
  <2> QED
    BY <2>1, <2>2, <2>3 DEF SocketStep, CoroutineStep, LinkFails, OnFailure, PeerCloses, PeerSends
<1> QED
  BY <1>1, <1>2, <1>3 DEF TypeInv, TypeOK

\* And so does the reader: there is a message to remove.
LEMMA ReaderStepTyped ==
  ASSUME TypeInv, ReaderStep
  PROVE  TypeInv'
<1>1. CallsTyped' /\ SocketsTyped'
  BY DEF TypeInv, TypeOK, CallsTyped, SocketsTyped, ReaderStep, ReadMessage, RemoveMessage,
         callVars, linkVars
<1>2. QueueTyped' /\ ReaderTyped' /\ ReaderInv'
  <2>1. CASE ReadMessage
    BY <2>1 DEF TypeInv, TypeOK, QueueTyped, ReaderTyped, ReaderInv, ReadMessage, queueVars
  <2>2. CASE RemoveMessage
    BY <2>2 DEF TypeInv, TypeOK, QueueTyped, ReaderTyped, ReaderInv, RemoveMessage, Message
  <2> QED
    BY <2>1, <2>2 DEF ReaderStep
<1> QED
  BY <1>1, <1>2 DEF TypeInv, TypeOK

LEMMA TypeInvStep ==
  ASSUME TypeInv, [Next]_vars
  PROVE  TypeInv'
<1>1. CASE UNCHANGED vars
  BY <1>1 DEF TypeInv, TypeOK, CallsTyped, SocketsTyped, QueueTyped, ReaderTyped, ReaderInv,
              vars, callVars, linkVars, queueVars, readerVars
<1>2. CASE Next
  BY <1>2, CallStepTyped, SocketStepTyped, ReaderStepTyped DEF Next
<1> QED
  BY <1>1, <1>2

LEMMA TypeInvInit == Init => TypeInv
BY TransportAssumption DEF Init, TypeInv, TypeOK, CallsTyped, SocketsTyped, QueueTyped,
   ReaderTyped, ReaderInv, CallPC, Links

\* Every variable of the transport keeps its type; in particular the listener
\* never removes from an empty queue (WebSocketTransportImpl.receiveNextMessage).
THEOREM TypeCorrect == Spec => []TypeOK
<1>1. TypeInv => TypeOK
  BY DEF TypeInv
<1> QED
  BY <1>1, TypeInvInit, TypeInvStep, PTL DEF Spec

-----------------------------------------------------------------------------
(***************************************************************************)
(* The contract.  The messages of socket s that have been taken off the    *)
(* wire and not been returned are those with the numbers taken[s] + 1 to   *)
(* read[s].  The last of them may be in the hands of the coroutine; all    *)
(* others are in the queue, in this order.                                 *)
(***************************************************************************)
Queued(s) == IF hand[s] = None THEN read[s] ELSE read[s] - 1

CountInv ==
  \A s \in Call :
    /\ read[s] + wire[s] <= sent[s]
    /\ hand[s] # None => /\ read[s] > 0
                         /\ hand[s] = [from |-> s, number |-> read[s]]
    /\ taken[s] <= Queued(s)

\* No message in the queue has been returned or is still to come, ...
BoundsInv ==
  \A i \in 1..Len(incomingMessagesQueue) :
    /\ taken[incomingMessagesQueue[i].from] < incomingMessagesQueue[i].number
    /\ incomingMessagesQueue[i].number <= Queued(incomingMessagesQueue[i].from)

\* ... those of a socket are in their order, ...
OrderInv ==
  \A i, j \in 1..Len(incomingMessagesQueue) :
    /\ i < j
    /\ incomingMessagesQueue[i].from = incomingMessagesQueue[j].from
    => incomingMessagesQueue[i].number < incomingMessagesQueue[j].number

\* ... and none is missing.
GaplessInv ==
  \A s \in Call : \A n \in Nat :
    taken[s] < n /\ n <= Queued(s)
      => \E i \in 1..Len(incomingMessagesQueue) :
           incomingMessagesQueue[i] = [from |-> s, number |-> n]

ContractInv == TypeInv /\ CountInv /\ BoundsInv /\ OrderInv /\ GaplessInv

LEMMA MessageFields ==
  ASSUME NEW m \in Message
  PROVE  m.from \in Call /\ m.number \in Nat /\ m = [from |-> m.from, number |-> m.number]
BY DEF Message

LEMMA QueuedMessages ==
  ASSUME incomingMessagesQueue \in Seq(Message)
  PROVE  /\ Len(incomingMessagesQueue) \in Nat
         /\ incomingMessagesQueue # <<>> => 1 \in 1..Len(incomingMessagesQueue)
         /\ \A i \in 1..Len(incomingMessagesQueue) :
              /\ incomingMessagesQueue[i] \in Message
              /\ incomingMessagesQueue[i].from \in Call
              /\ incomingMessagesQueue[i].number \in Nat
<1>1. Len(incomingMessagesQueue) \in Nat
  OBVIOUS
<1>2. incomingMessagesQueue # <<>> => 1 \in 1..Len(incomingMessagesQueue)
  OBVIOUS
<1>3. \A i \in 1..Len(incomingMessagesQueue) : incomingMessagesQueue[i] \in Message
  OBVIOUS
<1> QED
  BY <1>1, <1>2, <1>3, MessageFields

\* The first message of the queue is the one that its source wants next.
LEMMA HeadIsNext ==
  ASSUME ContractInv, incomingMessagesQueue # <<>>,
         NEW m, m = incomingMessagesQueue[1]
  PROVE  /\ m \in Message
         /\ m = [from |-> m.from, number |-> taken[m.from] + 1]
         /\ taken[m.from] < sent[m.from]
<1>q. incomingMessagesQueue \in Seq(Message)
  BY DEF ContractInv, TypeInv, TypeOK, QueueTyped
<1>1. /\ m \in Message
      /\ m.from \in Call
      /\ m.number \in Nat
      /\ m = [from |-> m.from, number |-> m.number]
      /\ Len(incomingMessagesQueue) \in Nat
      /\ 1 \in 1..Len(incomingMessagesQueue)
  BY <1>q, QueuedMessages, MessageFields
<1>2. /\ read[m.from] \in Nat
      /\ taken[m.from] \in Nat
      /\ sent[m.from] \in Nat
      /\ wire[m.from] \in Nat
  BY <1>1 DEF ContractInv, TypeInv, TypeOK, QueueTyped, ReaderTyped, SocketsTyped
<1>3. taken[m.from] < m.number /\ m.number <= Queued(m.from)
  BY <1>1 DEF ContractInv, BoundsInv
<1>4. Queued(m.from) <= read[m.from] /\ read[m.from] <= sent[m.from]
  <2>1. read[m.from] + wire[m.from] <= sent[m.from]
    BY <1>1 DEF ContractInv, CountInv
  <2> QED
    BY <1>2, <2>1 DEF Queued
<1>5. taken[m.from] + 1 = m.number
  <2> SUFFICES ASSUME taken[m.from] + 1 # m.number
               PROVE  FALSE
    OBVIOUS
  <2>1. Queued(m.from) \in Int
    BY <1>2 DEF Queued
  <2>2. taken[m.from] + 1 < m.number
    BY <1>1, <1>2, <1>3
  <2>3. PICK i \in 1..Len(incomingMessagesQueue) :
          incomingMessagesQueue[i] = [from |-> m.from, number |-> taken[m.from] + 1]
    <3>1. taken[m.from] + 1 \in Nat /\ taken[m.from] < taken[m.from] + 1
          /\ taken[m.from] + 1 <= Queued(m.from)
      BY <1>1, <1>2, <1>3, <2>1, <2>2
    <3> QED
      BY <1>1, <3>1 DEF ContractInv, GaplessInv
  <2>4. i # 1
    BY <2>2, <2>3, <1>2
  <2>5. 1 < i
    BY <2>4, <1>1
  <2>6. m.number < incomingMessagesQueue[i].number
    BY <1>1, <2>3, <2>5 DEF ContractInv, OrderInv
  <2> QED
    BY <1>1, <1>2, <2>2, <2>3, <2>6
<1>6. m = [from |-> m.from, number |-> taken[m.from] + 1]
  BY <1>1, <1>5
<1>7. taken[m.from] < sent[m.from]
  <2> DEFINE n == m.number
             k == Queued(m.from)
  <2>1. n \in Nat /\ k \in Int
    BY <1>1, <1>2 DEF Queued
  <2>2. taken[m.from] < n /\ n <= k /\ k <= read[m.from] /\ read[m.from] <= sent[m.from]
    BY <1>3, <1>4
  <2> HIDE DEF n, k
  <2> QED
    BY <1>2, <2>1, <2>2
<1> QED
  BY <1>1, <1>6, <1>7

-----------------------------------------------------------------------------
\* A step of a call touches nothing that the invariant is about.
LEMMA CallStepContract ==
  ASSUME ContractInv, NEW t \in Call, CallStep(t)
  PROVE  ContractInv'
<1>1. TypeInv'
  BY CallStepTyped DEF ContractInv
<1>2. UNCHANGED <<wire, sent, queueVars, readerVars>>
  BY DEF CallStep, Refuse, GetExisting, Open, Opened, OnOpen, OpenFailed, CacheSocket, Send,
         linkVars
<1> QED
  BY <1>1, <1>2 DEF ContractInv, CountInv, BoundsInv, OrderInv, GaplessInv, Queued, queueVars,
                    readerVars

LEMMA SocketStepContract ==
  ASSUME ContractInv, NEW s \in Call, SocketStep(s)
  PROVE  ContractInv'
<1> USE TransportAssumption
<1>t. TypeInv'
  BY SocketStepTyped DEF ContractInv
<1>q. /\ wire \in [Call -> Nat]
      /\ sent \in [Call -> Nat]
      /\ read \in [Call -> Nat]
      /\ taken \in [Call -> Nat]
      /\ hand \in [Call -> Message \cup {None}]
      /\ incomingMessagesQueue \in Seq(Message)
  BY DEF ContractInv, TypeInv, TypeOK, SocketsTyped, QueueTyped, ReaderTyped
<1>1. CASE UNCHANGED queueVars
  <2>1. CountInv'
    <3>1. \A u \in Call : read[u] + wire'[u] <= sent'[u]
      <4> SUFFICES ASSUME NEW u \in Call
                   PROVE  read[u] + wire'[u] <= sent'[u]
        OBVIOUS
      <4>1. read[u] + wire[u] <= sent[u]
        BY DEF ContractInv, CountInv
      <4>2. CASE LinkFails(s)
        <5>1. \/ wire' = [wire EXCEPT ![s] = 0]
              \/ wire[s] > 0 /\ wire' = [wire EXCEPT ![s] = 1]
          BY <4>2 DEF LinkFails
        <5>2. wire'[u] <= wire[u] /\ wire'[u] \in Nat
          <6>1. CASE wire' = [wire EXCEPT ![s] = 0]
            BY <1>q, <6>1
          <6>2. CASE wire[s] > 0 /\ wire' = [wire EXCEPT ![s] = 1]
            <7>1. wire[s] \in Nat /\ wire[u] \in Nat
              BY <1>q
            <7>2. CASE u = s
              BY <1>q, <6>2, <7>1, <7>2
            <7>3. CASE u # s
              BY <1>q, <6>2, <7>1, <7>3
            <7> QED
              BY <7>2, <7>3
          <6> QED
            BY <5>1, <6>1, <6>2
        <5>3. sent' = sent
          BY <4>2 DEF LinkFails
        <5> QED
          BY <1>q, <4>1, <5>2, <5>3
      <4>3. CASE PeerSends(s)
        BY <1>q, <4>1, <4>3 DEF PeerSends
      <4>4. CASE UNCHANGED <<wire, sent>>
        BY <4>1, <4>4
      <4>5. CASE TakeOffWire(s)
        BY <1>q, <1>1, <4>5 DEF TakeOffWire, queueVars
      <4> QED
        BY <4>2, <4>3, <4>4, <4>5 DEF SocketStep, CoroutineStep, OnFailure, PeerCloses,
           OnMessage, linkVars
    <3> QED
      BY <3>1, <1>1 DEF SocketStep, ContractInv, CountInv, Queued, queueVars, readerVars
  <2> QED
    BY <1>t, <1>1, <2>1 DEF SocketStep, ContractInv, BoundsInv, OrderInv, GaplessInv, Queued,
                            queueVars, readerVars
<1>2. CASE TakeOffWire(s)
  <2>1. \A u \in Call : Queued(u)' = Queued(u)
    BY <1>2, <1>q DEF TakeOffWire, Queued
  <2>2. CountInv'
    BY <1>2, <1>q, <2>1 DEF TakeOffWire, SocketStep, readerVars, ContractInv, CountInv
  <2>3. taken' = taken /\ incomingMessagesQueue' = incomingMessagesQueue
    BY <1>2 DEF TakeOffWire, SocketStep, readerVars
  <2>4. BoundsInv'
    <3>1. \A i \in 1..Len(incomingMessagesQueue) : incomingMessagesQueue[i].from \in Call
      BY <1>q, QueuedMessages
    <3> QED
      BY <2>1, <2>3, <3>1 DEF ContractInv, BoundsInv
  <2> QED
    BY <1>t, <2>1, <2>2, <2>3, <2>4 DEF ContractInv, OrderInv, GaplessInv
<1>3. CASE OnMessage(s)
  <2> DEFINE m == [from |-> s, number |-> read[s]]
             q == incomingMessagesQueue
  <2>1. /\ hand[s] = m
        /\ hand[s] # None
        /\ read[s] > 0
        /\ Queued(s) = read[s] - 1
    BY <1>3 DEF OnMessage, ContractInv, CountInv, Queued
  <2>2. /\ q' = Append(q, m)
        /\ hand' = [hand EXCEPT ![s] = None]
        /\ UNCHANGED <<read, taken, wire, sent>>
    BY <1>3, <2>1 DEF OnMessage, SocketStep, linkVars, readerVars
  <2>3. /\ Queued(s)' = read[s]
        /\ \A u \in Call : u # s => Queued(u)' = Queued(u)
    BY <1>q, <2>2 DEF Queued
  <2>m. m \in Message /\ m.from = s /\ m.number = read[s]
    BY <1>q DEF Message
  <2> HIDE DEF m
  <2>4. /\ Len(q') = Len(q) + 1
        /\ Len(q) \in Nat
        /\ \A i \in 1..Len(q) : q'[i] = q[i]
        /\ q'[Len(q) + 1] = m
    BY <1>q, <2>2, <2>m
  <2>n. \A i \in 1..Len(q) : q[i] \in Message /\ q[i].from \in Call /\ q[i].number \in Nat
    BY <1>q, QueuedMessages
  <2>5. CountInv'
    BY <1>q, <2>1, <2>2, <2>3 DEF ContractInv, CountInv
  <2>6. BoundsInv'
    <3> SUFFICES ASSUME NEW i \in 1..Len(q')
                 PROVE  /\ (taken[q[i].from] < q[i].number)'
                        /\ (q[i].number <= Queued(q[i].from))'
      BY DEF BoundsInv
    <3>1. CASE i = Len(q) + 1
      <4>1. taken[s] <= Queued(s)
        BY DEF ContractInv, CountInv
      <4> QED
        BY <1>q, <2>1, <2>2, <2>3, <2>4, <2>m, <3>1, <4>1
    <3>2. CASE i \in 1..Len(q)
      <4> DEFINE f == q[i].from
                 n == q[i].number
      <4>1. q'[i].from = f /\ q'[i].number = n /\ f \in Call /\ n \in Nat
        BY <2>4, <2>n, <3>2
      <4>2. taken[f] < n /\ n <= Queued(f)
        BY <3>2 DEF ContractInv, BoundsInv
      <4> HIDE DEF n
      <4>3. \A u \in Call : n <= Queued(u) => n <= Queued(u)'
        <5> SUFFICES ASSUME NEW u \in Call, n <= Queued(u)
                     PROVE  n <= Queued(u)'
          OBVIOUS
        <5>1. CASE u = s
          BY <1>q, <2>1, <2>3, <4>1, <5>1
        <5>2. CASE u # s
          BY <2>3, <5>2
        <5> QED
          BY <5>1, <5>2
      <4>4. (q[i].number <= Queued(q[i].from))'
        <5>1. n <= IF hand'[f] = None THEN read'[f] ELSE read'[f] - 1
          BY <4>1, <4>2, <4>3 DEF Queued
        <5> QED
          BY <4>1, <5>1 DEF Queued
      <4>5. (taken[q[i].from] < q[i].number)'
        BY <2>2, <4>1, <4>2
      <4> QED
        BY <4>4, <4>5
    <3> QED
      BY <2>4, <3>1, <3>2
  <2>7. OrderInv'
    <3> SUFFICES ASSUME NEW i \in 1..Len(q'), NEW j \in 1..Len(q'), i < j,
                        q'[i].from = q'[j].from
                 PROVE  q'[i].number < q'[j].number
      BY DEF OrderInv
    <3>1. i \in 1..Len(q) /\ q'[i] = q[i] /\ q[i].number \in Nat
      BY <2>4, <2>n
    <3>2. CASE j = Len(q) + 1
      <4>1. q[i].from = s /\ q[i].number <= Queued(s)
        BY <2>4, <2>m, <3>1, <3>2 DEF ContractInv, BoundsInv
      <4> QED
        BY <1>q, <2>1, <2>4, <2>m, <3>1, <3>2, <4>1
    <3>3. CASE j \in 1..Len(q)
      BY <2>4, <3>1, <3>3 DEF ContractInv, OrderInv
    <3> QED
      BY <2>4, <3>2, <3>3
  <2>8. GaplessInv'
    <3> SUFFICES ASSUME NEW u \in Call, NEW n \in Nat, taken[u] < n, n <= Queued(u)'
                 PROVE  \E i \in 1..Len(q') : q'[i] = [from |-> u, number |-> n]
      BY <2>2 DEF GaplessInv
    <3>1. CASE u = s /\ n = read[s]
      BY <2>4, <3>1 DEF m
    <3>2. CASE ~(u = s /\ n = read[s])
      <4>1. n <= Queued(u)
        BY <1>q, <2>1, <2>3, <3>2
      <4> QED
        BY <2>4, <4>1 DEF ContractInv, GaplessInv
    <3> QED
      BY <3>1, <3>2
  <2> QED
    BY <1>t, <2>5, <2>6, <2>7, <2>8 DEF ContractInv
<1> QED
  BY <1>1, <1>2, <1>3 DEF SocketStep, CoroutineStep, LinkFails, OnFailure, PeerCloses, PeerSends

\* The reader looks at the head of the queue, and then removes it: the numbers of
\* its source that wait begin one later.
LEMMA ReaderStepContract ==
  ASSUME ContractInv, ReaderStep
  PROVE  ContractInv'
<1>t. TypeInv'
  BY ReaderStepTyped DEF ContractInv
<1>1. CASE ReadMessage
  BY <1>t, <1>1 DEF ReadMessage, ContractInv, CountInv, BoundsInv, OrderInv, GaplessInv, Queued,
                    linkVars, queueVars
<1>2. CASE RemoveMessage
  <2> DEFINE q == incomingMessagesQueue
             m == q[1]
             f == m.from
  <2>q. /\ taken \in [Call -> Nat]
        /\ read \in [Call -> Nat]
        /\ q \in Seq(Message)
    BY DEF ContractInv, TypeInv, TypeOK, QueueTyped, ReaderTyped
  <2>1. q # <<>> /\ message = m
    BY <1>2 DEF RemoveMessage, ContractInv, TypeInv, ReaderInv
  <2>2. /\ q' = Tail(q)
        /\ taken' = [taken EXCEPT ![f] = @ + 1]
        /\ UNCHANGED <<read, hand, wire, sent>>
    BY <1>2, <2>1 DEF RemoveMessage, linkVars
  <2>3. \A u \in Call : Queued(u)' = Queued(u) /\ Queued(u) \in Int
    BY <2>2, <2>q DEF Queued
  <2>4. /\ f \in Call
        /\ m.number = taken[f] + 1
        /\ m = [from |-> f, number |-> taken[f] + 1]
    BY <2>1, <2>q, HeadIsNext, QueuedMessages
  <2>5. /\ Len(q) \in Nat
        /\ Len(q) > 0
        /\ Len(q') = Len(q) - 1
        /\ 1 \in 1..Len(q)
        /\ \A i \in 1..Len(q') : q'[i] = q[i + 1] /\ i + 1 \in 1..Len(q) /\ 1 < i + 1
    BY <2>q, <2>1, <2>2
  <2>n. \A i \in 1..Len(q) : q[i] \in Message /\ q[i].from \in Call /\ q[i].number \in Nat
    BY <2>q, QueuedMessages
  <2> HIDE DEF f
  <2>6. /\ taken'[f] = taken[f] + 1
        /\ \A u \in Call : u # f => taken'[u] = taken[u]
    BY <2>2, <2>4, <2>q
  <2>7. taken[f] + 1 <= Queued(f)
    BY <2>4, <2>5 DEF ContractInv, BoundsInv, f
  <2>8. CountInv'
    <3> SUFFICES ASSUME NEW u \in Call
                 PROVE  (/\ read[u] + wire[u] <= sent[u]
                         /\ hand[u] # None => /\ read[u] > 0
                                              /\ hand[u] = [from |-> u, number |-> read[u]]
                         /\ taken[u] <= Queued(u))'
      BY DEF CountInv
    <3>1. taken'[u] <= Queued(u)
      <4>1. CASE u = f
        BY <2>6, <2>7, <4>1
      <4>2. CASE u # f
        BY <2>6, <4>2 DEF ContractInv, CountInv
      <4> QED
        BY <4>1, <4>2
    <3> QED
      BY <2>2, <2>3, <3>1 DEF ContractInv, CountInv
  <2>9. BoundsInv'
    <3> SUFFICES ASSUME NEW i \in 1..Len(q')
                 PROVE  /\ (taken[q[i].from] < q[i].number)'
                        /\ (q[i].number <= Queued(q[i].from))'
      BY DEF BoundsInv
    <3> DEFINE g == q[i + 1].from
               n == q[i + 1].number
    <3>1. /\ i + 1 \in 1..Len(q)
          /\ q'[i] = q[i + 1]
          /\ g \in Call
          /\ n \in Nat
      BY <2>5, <2>n
    <3>2. taken[g] < n /\ n <= Queued(g)
      BY <3>1 DEF ContractInv, BoundsInv
    <3>3. g = f => taken[f] + 1 < n
      <4>1. g = f => m.number < n
        BY <2>5, <3>1 DEF ContractInv, OrderInv, f
      <4> QED
        BY <2>4, <4>1
    <3>4. taken'[g] < n
      BY <2>6, <3>1, <3>2, <3>3
    <3>5. n <= IF hand'[g] = None THEN read'[g] ELSE read'[g] - 1
      BY <2>2, <3>1, <3>2 DEF Queued
    <3> QED
      BY <3>1, <3>4, <3>5 DEF Queued
  <2>10. OrderInv'
    <3> SUFFICES ASSUME NEW i \in 1..Len(q'), NEW j \in 1..Len(q'), i < j,
                        q'[i].from = q'[j].from
                 PROVE  q'[i].number < q'[j].number
      BY DEF OrderInv
    <3>1. /\ i + 1 \in 1..Len(q)
          /\ j + 1 \in 1..Len(q)
          /\ i + 1 < j + 1
          /\ q'[i] = q[i + 1]
          /\ q'[j] = q[j + 1]
      BY <2>5
    <3> QED
      BY <3>1 DEF ContractInv, OrderInv
  <2>11. GaplessInv'
    <3> SUFFICES ASSUME NEW u \in Call, NEW n \in Nat, taken'[u] < n, n <= Queued(u)'
                 PROVE  \E i \in 1..Len(q') : q'[i] = [from |-> u, number |-> n]
      BY DEF GaplessInv
    <3>1. /\ taken[u] < n
          /\ u = f => n # taken[f] + 1
      BY <2>6, <2>q, <2>4
    <3>2. PICK k \in 1..Len(q) : q[k] = [from |-> u, number |-> n]
      BY <2>3, <3>1 DEF ContractInv, GaplessInv
    <3>3. k # 1
      BY <2>4, <3>1, <3>2
    <3>4. k - 1 \in 1..Len(q') /\ (k - 1) + 1 = k
      BY <2>5, <3>3
    <3> QED
      BY <2>5, <3>2, <3>4
  <2> QED
    BY <1>t, <2>8, <2>9, <2>10, <2>11 DEF ContractInv
<1> QED
  BY <1>1, <1>2 DEF ReaderStep

LEMMA ContractInvStep ==
  ASSUME ContractInv, [Next]_vars
  PROVE  ContractInv'
<1>1. CASE UNCHANGED vars
  <2>1. TypeInv'
    BY <1>1, TypeInvStep DEF ContractInv
  <2> QED
    BY <1>1, <2>1 DEF ContractInv, CountInv, BoundsInv, OrderInv, GaplessInv, Queued, vars,
                      linkVars, queueVars, readerVars
<1>2. CASE Next
  BY <1>2, CallStepContract, SocketStepContract, ReaderStepContract DEF Next
<1> QED
  BY <1>1, <1>2

LEMMA ContractInvInit == Init => ContractInv
<1> SUFFICES ASSUME Init
             PROVE  ContractInv
  OBVIOUS
<1>1. TypeInv
  BY TypeInvInit
<1>2. Len(incomingMessagesQueue) = 0
  BY DEF Init
<1>3. \A s \in Call : read[s] = 0 /\ wire[s] = 0 /\ sent[s] = 0 /\ hand[s] = None /\ taken[s] = 0
  BY DEF Init
<1> QED
  BY <1>1, <1>2, <1>3 DEF ContractInv, CountInv, BoundsInv, OrderInv, GaplessInv, Queued

-----------------------------------------------------------------------------
\* A step of a call ends one call, or none.
LEMMA CallStepImplements ==
  ASSUME ContractInv, NEW t \in Call, CallStep(t)
  PROVE  [Contract!Next]_Contract!vars
<1> DEFINE outcomes == [u \in Call |-> Outcome(u)]
<1>p. pc \in [Call -> CallPC]
  BY DEF ContractInv, TypeInv, TypeOK, CallsTyped
<1>u. UNCHANGED <<sent, taken, message>>
  BY DEF CallStep, Refuse, GetExisting, Open, Opened, OnOpen, OpenFailed, CacheSocket, Send,
         linkVars, readerVars
<1>1. \A u \in Call : u # t => Outcome(u)' = Outcome(u)
  BY <1>p DEF CallStep, Refuse, GetExisting, Open, Opened, OnOpen, OpenFailed, CacheSocket, Send,
              Goto, Outcome
<1>2. \/ Outcome(t)' = Outcome(t)
      \/ Outcome(t) = "pending" /\ Outcome(t)' \in {"delivered", "dropped", "thrown"}
  BY <1>p DEF CallStep, Refuse, GetExisting, Open, Opened, OnOpen, OpenFailed, CacheSocket, Send,
              Goto, MayCall, Outcome
<1>3. CASE Outcome(t)' = Outcome(t)
  <2>1. outcomes' = outcomes
    BY <1>1, <1>3
  <2> QED
    BY <1>u, <2>1 DEF Contract!vars
<1>4. CASE Outcome(t) = "pending" /\ Outcome(t)' \in {"delivered", "dropped", "thrown"}
  <2>1. outcomes' = [outcomes EXCEPT ![t] = Outcome(t)']
    BY <1>1
  <2>2. outcomes[t] = "pending"
    BY <1>4
  <2>3. Contract!End(t, Outcome(t)')
    BY <1>u, <2>1, <2>2 DEF Contract!End
  <2> QED
    BY <1>4, <2>3 DEF Contract!Next
<1> QED
  BY <1>2, <1>3, <1>4

\* A socket receives messages; nobody sees more of its steps.
LEMMA SocketStepImplements ==
  ASSUME ContractInv, NEW s \in Call, SocketStep(s)
  PROVE  [Contract!Next]_Contract!vars
<1>1. UNCHANGED <<pc, delivered, taken, message>>
  BY DEF SocketStep, CoroutineStep, LinkFails, OnFailure, PeerCloses, PeerSends, TakeOffWire,
         OnMessage, callVars, readerVars
<1>2. [u \in Call |-> Outcome(u)]' = [u \in Call |-> Outcome(u)]
  BY <1>1 DEF Outcome
<1>3. CASE PeerSends(s)
  <2>1. Contract!Send(s)
    BY <1>1, <1>2, <1>3 DEF PeerSends, Contract!Send
  <2> QED
    BY <2>1 DEF Contract!Next
<1>4. CASE UNCHANGED sent
  BY <1>1, <1>2, <1>4 DEF Contract!vars
<1> QED
  BY <1>3, <1>4 DEF SocketStep, CoroutineStep, LinkFails, OnFailure, PeerCloses, TakeOffWire,
                    OnMessage, linkVars

\* The reader chooses the next message of a source, and returns what it has chosen.
LEMMA ReaderStepImplements ==
  ASSUME ContractInv, ReaderStep
  PROVE  [Contract!Next]_Contract!vars
<1>1. UNCHANGED <<pc, delivered, sent>>
  BY DEF ReaderStep, ReadMessage, RemoveMessage, callVars, linkVars
<1>2. [u \in Call |-> Outcome(u)]' = [u \in Call |-> Outcome(u)]
  BY <1>1 DEF Outcome
<1>3. CASE ReadMessage
  <2> DEFINE m == incomingMessagesQueue[1]
  <2>1. /\ incomingMessagesQueue # <<>>
        /\ message = None
        /\ message' = m
        /\ taken' = taken
    BY <1>3 DEF ReadMessage, ContractInv, TypeInv, ReaderInv
  <2>2. /\ m \in Message
        /\ m = [from |-> m.from, number |-> taken[m.from] + 1]
        /\ taken[m.from] < sent[m.from]
    BY <2>1, HeadIsNext
  <2>3. m.from \in Call
    BY <2>2, MessageFields
  <2>4. Contract!Choose(m.from)
    BY <1>1, <1>2, <2>1, <2>2 DEF Contract!Choose
  <2> QED
    BY <2>3, <2>4 DEF Contract!Next
<1>4. CASE RemoveMessage
  <2>1. message # None
    BY <1>4, TransportAssumption DEF RemoveMessage, ContractInv, TypeInv, TypeOK, ReaderTyped, Message
  <2>2. Contract!Return
    BY <1>1, <1>2, <1>4, <2>1 DEF RemoveMessage, Contract!Return
  <2> QED
    BY <2>2 DEF Contract!Next
<1> QED
  BY <1>3, <1>4 DEF ReaderStep

\* The sockets, their coroutines, the shared queue and the listener together keep
\* the promise of MessageTransport: every call ends at most once, and the messages
\* of a socket are returned in their order, once and without a gap, whatever the
\* environment does to the sockets.
THEOREM ImplementsContract == Spec => ContractSpec
<1>1. Init => Contract!Init
  <2> SUFFICES ASSUME Init
               PROVE  Contract!Init
    OBVIOUS
  <2>1. \A t \in Call : Outcome(t) = "pending"
    BY DEF Init, Outcome
  <2> QED
    BY <2>1 DEF Init, Contract!Init
<1>2. ContractInv /\ [Next]_vars => [Contract!Next]_Contract!vars
  <2> SUFFICES ASSUME ContractInv, [Next]_vars
               PROVE  [Contract!Next]_Contract!vars
    OBVIOUS
  <2>1. CASE UNCHANGED vars
    <3>1. [u \in Call |-> Outcome(u)]' = [u \in Call |-> Outcome(u)]
      BY <2>1 DEF Outcome, vars, callVars
    <3> QED
      BY <2>1, <3>1 DEF vars, linkVars, readerVars, Contract!vars
  <2>2. CASE Next
    BY <2>2, CallStepImplements, SocketStepImplements, ReaderStepImplements DEF Next
  <2> QED
    BY <2>1, <2>2
<1> QED
  BY <1>1, <1>2, ContractInvInit, ContractInvStep, PTL DEF Spec, ContractSpec, Contract!Spec

-----------------------------------------------------------------------------
(***************************************************************************)
(* The state of a socket whose failure has been noticed.                   *)
(***************************************************************************)
LostIsClosed(s) == link[s] = "failed" => currentState[s] = "CLOSED"

\* Only its own onOpen() could set it to CONNECTED.
LEMMA LostIsClosedStep ==
  ASSUME TypeInv, NEW s \in Call, pc[s] = "opened" => link[s] # "failed",
         LostIsClosed(s), [Next]_vars
  PROVE  LostIsClosed(s)'
<1>q. /\ link \in [Call -> Links]
      /\ currentState \in [Call -> {"CLOSED", "CONNECTING", "CONNECTED"}]
  BY DEF TypeInv, TypeOK, SocketsTyped
<1>1. CASE UNCHANGED <<link, currentState>>
  BY <1>1 DEF LostIsClosed
<1>2. ASSUME NEW t \in Call, CallStep(t)
      PROVE  LostIsClosed(s)'
  BY <1>2, <1>q DEF LostIsClosed, CallStep, Refuse, GetExisting, Open, Opened, OnOpen,
                    OpenFailed, CacheSocket, Send, linkVars
<1>3. ASSUME NEW u \in Call, SocketStep(u)
      PROVE  LostIsClosed(s)'
  BY <1>3, <1>q DEF LostIsClosed, SocketStep, CoroutineStep, LinkFails, OnFailure, PeerCloses,
                    PeerSends, TakeOffWire, OnMessage, linkVars
<1> QED
  BY <1>1, <1>2, <1>3 DEF Next, ReaderStep, ReadMessage, RemoveMessage, vars, linkVars

\* Unless its failure is noticed between its opening and onOpen(), a socket whose
\* failure has been noticed is CLOSED for ever: sends over it throw (AppSocket.send),
\* whatever else fails and however calls overlap.
THEOREM LostSocketsAreClosed == Spec => LossIsNoticed
<1> SUFFICES ASSUME NEW s \in {t \in Call : EndpointOf[t] \in WsEndpoint}
             PROVE  Spec => ([](pc[s] = "opened" => link[s] # "failed")
                               => [](link[s] = "failed" => currentState[s] = "CLOSED"))
  BY DEF LossIsNoticed
<1> DEFINE InTime == pc[s] = "opened" => link[s] # "failed"
<1>1. Init => LostIsClosed(s)
  BY DEF Init, LostIsClosed
<1>2. TypeInv /\ InTime /\ LostIsClosed(s) /\ [Next]_vars => LostIsClosed(s)'
  BY LostIsClosedStep
<1> HIDE DEF InTime
<1>3. Spec => ([]InTime => []LostIsClosed(s))
  BY <1>1, <1>2, TypeInvInit, TypeInvStep, PTL DEF Spec
<1> QED
  BY <1>3 DEF InTime, LostIsClosed

-----------------------------------------------------------------------------
(***************************************************************************)
(* One socket for all later calls.                                         *)
(***************************************************************************)
\* The map has a socket for every endpoint that a call has got one for.
CachedInv == \A t \in Call : using[t] # None => appSocketsMap[EndpointOf[t]] # None

LEMMA CachedInvStep ==
  ASSUME TypeInv, CachedInv, [Next]_vars
  PROVE  CachedInv'
<1> USE TransportAssumption
<1>q. /\ using \in [Call -> Call \cup {None}]
      /\ appSocketsMap \in [Endpoint -> Call \cup {None}]
  BY DEF TypeInv, TypeOK, CallsTyped
<1>1. CASE UNCHANGED <<using, appSocketsMap>>
  BY <1>1 DEF CachedInv
<1>2. ASSUME NEW t \in Call, CallStep(t)
      PROVE  CachedInv'
  BY <1>2, <1>q DEF CachedInv, CallStep, Refuse, GetExisting, Open, Opened, OnOpen, OpenFailed,
                    CacheSocket, Send
<1> QED
  BY <1>1, <1>2 DEF Next, SocketStep, CoroutineStep, LinkFails, OnFailure, PeerCloses, PeerSends,
     TakeOffWire, OnMessage, ReaderStep, ReadMessage, RemoveMessage, vars, callVars

\* Only a call that finds no socket in the map opens one.
LEMMA ReuseStep ==
  ASSUME TypeInv, CachedInv, [Next]_vars, NEW t \in Call, NEW u \in Call,
         EndpointOf[t] = EndpointOf[u], using[u] # None, pc[t] = "idle"
  PROVE  pc'[t] # "awaiting"
<1>1. pc \in [Call -> CallPC] /\ appSocketsMap[EndpointOf[t]] # None
  BY DEF TypeInv, TypeOK, CallsTyped, CachedInv
<1>2. ASSUME NEW v \in Call, CallStep(v)
      PROVE  pc'[t] # "awaiting"
  BY <1>1, <1>2 DEF CallStep, Refuse, GetExisting, Open, Opened, OnOpen, OpenFailed, CacheSocket,
                    Send, Goto
<1> QED
  BY <1>2 DEF Next, SocketStep, CoroutineStep, LinkFails, OnFailure, PeerCloses, PeerSends,
     TakeOffWire, OnMessage, ReaderStep, ReadMessage, RemoveMessage, vars, callVars

\* Once a call for an endpoint has got a socket, no later call opens another, although
\* calls overlap and sockets fail (WebSocketTransportImpl.openOrGetExistingConnection).
THEOREM LaterCallsReuse == Spec => SocketsAreReused
<1>1. Init => CachedInv
  BY DEF Init, CachedInv
<1>2. TypeInv /\ CachedInv /\ [Next]_vars
        => [\A t, u \in Call :
              /\ EndpointOf[t] = EndpointOf[u]
              /\ using[u] # None
              /\ pc[t] = "idle"
              => pc'[t] # "awaiting"]_vars
  BY ReuseStep
<1> QED
  BY <1>1, <1>2, CachedInvStep, TypeInvInit, TypeInvStep, PTL DEF Spec, SocketsAreReused

-----------------------------------------------------------------------------
(***************************************************************************)
(* No message is lost but by the failure of its link, whatever threads and *)
(* coroutines pass it on and whatever the map holds by then.               *)
(***************************************************************************)
IsKept(s, n) ==
  \/ n <= taken[s]
  \/ hand[s] = [from |-> s, number |-> n]
  \/ \E i \in 1..Len(incomingMessagesQueue) :
       incomingMessagesQueue[i] = [from |-> s, number |-> n]

OnlyFailuresLose ==
  \A s \in Call :
    /\ \A n \in 1..read[s] : IsKept(s, n)
    /\ link[s] \notin {"failing", "failed"} => read[s] + wire[s] = sent[s]

\* A link that has failed is not used again: each call that opens one has its own.
LinkInv ==
  \A s \in Call :
    /\ pc[s] = "idle" => link[s] = "none"
    /\ link[s] \notin {"failing", "failed"} => read[s] + wire[s] = sent[s]

LEMMA LinkInvStep ==
  ASSUME TypeInv, LinkInv, [Next]_vars
  PROVE  LinkInv'
<1>q. /\ pc \in [Call -> CallPC] /\ link \in [Call -> Links]
      /\ wire \in [Call -> Nat] /\ sent \in [Call -> Nat] /\ read \in [Call -> Nat]
  BY DEF TypeInv, TypeOK, CallsTyped, SocketsTyped, QueueTyped
<1>1. CASE UNCHANGED <<pc, linkVars, read>>
  BY <1>1 DEF LinkInv, linkVars
<1>2. ASSUME NEW t \in Call, CallStep(t) PROVE LinkInv'
  <2>1. /\ UNCHANGED <<wire, sent, read>>
        /\ \A u \in Call : u # t => pc'[u] = pc[u] /\ link'[u] = link[u]
        /\ pc'[t] # "idle"
    BY <1>2, <1>q DEF CallStep, Refuse, GetExisting, Open, Opened, OnOpen, OpenFailed,
                      CacheSocket, Send, Goto, linkVars, queueVars
  <2>2. link'[t] = link[t] \/ link[t] \notin {"failing", "failed"}
    BY <1>2, <1>q DEF CallStep, Refuse, GetExisting, Open, Opened, OnOpen, OpenFailed,
                      CacheSocket, Send, MayCall, linkVars, LinkInv
  <2> QED
    BY <2>1, <2>2 DEF LinkInv
<1>3. ASSUME NEW s \in Call, SocketStep(s) PROVE LinkInv'
  <2> USE <1>q DEF LinkInv, callVars, linkVars, queueVars
  <2>1. CASE LinkFails(s)
    <3>1. /\ UNCHANGED <<pc, sent, read>> /\ link'[s] = "failing" /\ link[s] # "none"
          /\ \A u \in Call : u # s => link'[u] = link[u] /\ wire'[u] = wire[u]
      BY <2>1 DEF LinkFails
    <3> QED
      BY <3>1
  <2>2. CASE OnFailure(s)
    BY <2>2 DEF OnFailure
  <2>3. CASE PeerCloses(s)
    BY <2>3 DEF PeerCloses
  <2>4. CASE PeerSends(s)
    BY <2>4 DEF PeerSends
  <2>5. CASE TakeOffWire(s)
    BY <2>5 DEF TakeOffWire
  <2>6. CASE OnMessage(s)
    BY <2>6 DEF OnMessage
  <2> QED
    BY <1>3, <2>1, <2>2, <2>3, <2>4, <2>5, <2>6 DEF SocketStep, CoroutineStep
<1> QED
  BY <1>1, <1>2, <1>3
     DEF Next, ReaderStep, ReadMessage, RemoveMessage, vars, callVars, linkVars, queueVars

LEMMA ReadIsKept ==
  ASSUME ContractInv, NEW s \in Call, NEW n \in 1..read[s]
  PROVE  IsKept(s, n)
<1>1. n \in Nat /\ read[s] \in Nat /\ taken[s] \in Nat
  BY DEF ContractInv, TypeInv, TypeOK, QueueTyped, ReaderTyped
<1>2. CASE n <= Queued(s)
  BY <1>1, <1>2 DEF ContractInv, GaplessInv, IsKept
<1>3. CASE ~(n <= Queued(s))
  <2>1. hand[s] # None /\ n = read[s]
    BY <1>1, <1>3 DEF Queued
  <2> QED
    BY <2>1 DEF ContractInv, CountInv, IsKept
<1> QED
  BY <1>2, <1>3

\* What the peer has sent over a link that has not failed is on the link, with the
\* coroutine, in the queue or has been returned (AppSocket, WebSocketTransportImpl):
\* also over a socket that another thread's socket has replaced in the map.
THEOREM MessagesAreKept == Spec => []OnlyFailuresLose
<1>1. Init => LinkInv
  <2> SUFFICES ASSUME Init, NEW s \in Call
               PROVE  link[s] = "none" /\ read[s] + wire[s] = sent[s]
    BY DEF LinkInv
  <2>1. link[s] = "none" /\ read[s] = 0 /\ wire[s] = 0 /\ sent[s] = 0
    BY DEF Init
  <2> QED
    BY <2>1
<1>2. ContractInv /\ LinkInv => OnlyFailuresLose
  BY ReadIsKept DEF LinkInv, OnlyFailuresLose
<1>3. ContractInv => TypeInv
  BY DEF ContractInv
<1> QED
  BY <1>1, <1>2, <1>3, LinkInvStep, ContractInvInit, ContractInvStep, PTL DEF Spec

-----------------------------------------------------------------------------
(***************************************************************************)
(* A call waits for its link to open: for good, if the link fails first.   *)
(***************************************************************************)
Stuck(t) == pc[t] = "awaiting" /\ link[t] \in {"failing", "failed"}

LEMMA StuckStep ==
  ASSUME TypeInv, [Next]_vars, NEW t \in Call
  PROVE  Stuck(t) => Stuck(t)'
<1>q. pc \in [Call -> CallPC] /\ link \in [Call -> Links]
  BY DEF TypeInv, TypeOK, CallsTyped, SocketsTyped
<1>1. ASSUME NEW u \in Call, CallStep(u) PROVE Stuck(t) => Stuck(t)'
  BY <1>1, <1>q DEF Stuck, CallStep, Refuse, GetExisting, Open, Opened, OnOpen, OpenFailed,
                    CacheSocket, Send, MayCall, Goto, linkVars
<1>2. ASSUME NEW s \in Call, SocketStep(s) PROVE Stuck(t) => Stuck(t)'
  BY <1>2, <1>q DEF Stuck, SocketStep, CoroutineStep, LinkFails, OnFailure, PeerCloses,
                    PeerSends, TakeOffWire, OnMessage, callVars, linkVars
<1>3. CASE UNCHANGED <<pc, link>>
  BY <1>3 DEF Stuck
<1> QED
  BY <1>1, <1>2, <1>3 DEF Next, ReaderStep, ReadMessage, RemoveMessage, vars, callVars, linkVars

LEMMA AwaitingStep ==
  ASSUME TypeInv, [Next]_vars, NEW t \in Call
  PROVE  (pc[t] = "awaiting" => link[t] = "dialing" \/ Stuck(t)) =>
         (pc[t] = "awaiting" => link[t] = "dialing" \/ Stuck(t))'
<1>q. pc \in [Call -> CallPC] /\ link \in [Call -> Links]
  BY DEF TypeInv, TypeOK, CallsTyped, SocketsTyped
<1>1. ASSUME NEW u \in Call, CallStep(u), pc'[t] = "awaiting", pc[t] = "awaiting" => link[t] = "dialing"
      PROVE  link'[t] = "dialing"
  BY <1>1, <1>q DEF CallStep, Refuse, GetExisting, Open, Opened, OnOpen, OpenFailed,
                    CacheSocket, Send, Goto, linkVars
<1>2. ASSUME NEW s \in Call, SocketStep(s)
      PROVE  pc' = pc /\ (link[t] = "dialing" => link'[t] \in {"dialing", "failing"})
  BY <1>2, <1>q DEF SocketStep, CoroutineStep, LinkFails, OnFailure, PeerCloses,
                    PeerSends, TakeOffWire, OnMessage, callVars, linkVars
<1>3. CASE UNCHANGED <<pc, link>>
  BY <1>3 DEF Stuck
<1> QED
  BY <1>1, <1>2, <1>3, StuckStep
     DEF Stuck, Next, ReaderStep, ReadMessage, RemoveMessage, vars, callVars, linkVars

\* A call in AppSocket.connect() waits as long as the platform dials, and for ever if
\* that fails: no failure reaches socketOpenedChannel.
THEOREM FailedOpeningHangs ==
  ASSUME NEW t \in Call
  PROVE  Spec => /\ [](pc[t] = "awaiting" => link[t] = "dialing" \/ Stuck(t))
                 /\ [](Stuck(t) => []Stuck(t))
<1> DEFINE Waits == pc[t] = "awaiting" => link[t] = "dialing" \/ Stuck(t)
<1>1. Init => Waits
  BY DEF Init
<1>2. TypeInv /\ [Next]_vars /\ Waits => Waits'
  BY AwaitingStep
<1>3. TypeInv /\ [Next]_vars => (Stuck(t) => Stuck(t)')
  BY StuckStep
<1> HIDE DEF Waits
<1>4. Spec => []Waits /\ [](Stuck(t) => []Stuck(t))
  BY <1>1, <1>2, <1>3, TypeInvInit, TypeInvStep, PTL DEF Spec
<1> QED
  BY <1>4 DEF Waits

=============================================================================
