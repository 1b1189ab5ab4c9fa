------------------------- MODULE WebSocketTransport -------------------------
(***************************************************************************)
(* WebSocketTransportImpl with its sockets, as its threads execute it:     *)
(*   - one thread per call of sendMessage, which opens a socket if there   *)
(*     is none for the endpoint                                            *)
(*   - the two coroutines of a socket that wait for messages and failures  *)
(*   - the platform's thread of a socket, which calls SocketListenerAdapter *)
(*     and waits there until a coroutine has taken what it brings          *)
(*   - the listener, which calls receiveNextMessage again and again        *)
(* A call opens at most one socket, so a socket is named by the call that  *)
(* opened it.  The n-th message that the peer sends over a socket has the  *)
(* number n.  disconnect() and listenForClosure() have no caller.          *)
(***************************************************************************)
EXTENDS Naturals, Sequences

CONSTANTS
  Call,        \* calls of sendMessage, and the sockets they open
  Endpoint,    \* endpoints of the peers
  WsEndpoint,  \* those whose protocol is "ws"
  EndpointOf,  \* the endpoint of a call
  None,        \* null
  Env,         \* what the environment may do, a subset of Behaviours
  MaxMessages  \* bound: how many messages a peer sends over a socket

(***************************************************************************)
(* "concurrent":   calls overlap; without it they come one by one.         *)
(* "open_fails":   the platform reports a failure instead of the opening.  *)
(* "prompt_failure": a socket fails between its opening and onOpen().      *)
(* "link_fails":   an open socket fails later.                             *)
(* "peer_closes":  the peer closes the socket.                             *)
(***************************************************************************)
Behaviours ==
  {"concurrent", "open_fails", "prompt_failure", "link_fails", "peer_closes"}

ASSUME TransportAssumption ==
  /\ EndpointOf \in [Call -> Endpoint]
  /\ WsEndpoint \subseteq Endpoint
  /\ None \notin Call
  /\ None \notin [from : Call, number : Nat]
  /\ Env \subseteq Behaviours
  /\ MaxMessages \in [Call -> Nat]

VARIABLES
  pc,             \* pc of the thread in sendMessage
  using,          \* the socket that this call sends over
  appSocketsMap,  \* endpoint -> socket
  currentState,   \* AppSocket.currentState
  link,           \* the platform's socket
  wire,           \* messages of the peer that have not been taken off the link
  read,           \* how many have been taken off it
  hand,           \* the message that the message coroutine has received
  incomingMessagesQueue,
  consumer,       \* pc of the listener in receiveNextMessage
  message,        \* the message it has read and will return
  delivered,      \* history: calls whose message went out over an open link
  sent,           \* history: how many messages the peer has sent
  taken           \* history: how many of them receiveNextMessage has returned

callVars   == <<pc, using, appSocketsMap, delivered>>
linkVars   == <<link, wire, sent>>
queueVars  == <<read, hand, incomingMessagesQueue>>
readerVars == <<consumer, message, taken>>
vars == <<callVars, currentState, linkVars, queueVars, readerVars>>

Message == [from : Call, number : Nat]
CallPC  == {"idle", "awaiting", "opened", "checking", "using", "done", "failed"}
Links   == {"none", "dialing", "open", "closing", "failing", "failed"}

CallsTyped ==
  /\ pc \in [Call -> CallPC]
  /\ using \in [Call -> Call \cup {None}]
  /\ \A t \in Call : pc[t] = "using" => using[t] \in Call
  /\ appSocketsMap \in [Endpoint -> Call \cup {None}]
  /\ delivered \subseteq Call

SocketsTyped ==
  /\ currentState \in [Call -> {"CLOSED", "CONNECTING", "CONNECTED"}]
  /\ link \in [Call -> Links]
  /\ wire \in [Call -> Nat]
  /\ sent \in [Call -> Nat]

QueueTyped ==
  /\ read \in [Call -> Nat]
  /\ hand \in [Call -> Message \cup {None}]
  /\ incomingMessagesQueue \in Seq(Message)

ReaderTyped ==
  /\ consumer \in {"wait", "remove"}
  /\ message \in Message \cup {None}
  /\ (consumer = "remove") => message \in Message
  /\ taken \in [Call -> Nat]

\* Every variable has its type, and a thread that is about to use a socket or to
\* remove a message has one.
TypeOK == CallsTyped /\ SocketsTyped /\ QueueTyped /\ ReaderTyped

Init ==
  /\ pc = [t \in Call |-> "idle"]
  /\ using = [t \in Call |-> None]
  /\ appSocketsMap = [e \in Endpoint |-> None]
  /\ currentState = [s \in Call |-> "CLOSED"]
  /\ link = [s \in Call |-> "none"]
  /\ wire = [s \in Call |-> 0]
  /\ read = [s \in Call |-> 0]
  /\ hand = [s \in Call |-> None]
  /\ incomingMessagesQueue = <<>>
  /\ consumer = "wait"
  /\ message = None
  /\ delivered = {}
  /\ sent = [s \in Call |-> 0]
  /\ taken = [s \in Call |-> 0]

-----------------------------------------------------------------------------
\* The thread in sendMessage(connection, message).

Goto(t, label) == pc' = [pc EXCEPT ![t] = label]

MayCall(t) ==
  /\ pc[t] = "idle"
  /\ "concurrent" \in Env \/ \A u \in Call : pc[u] \in {"idle", "done", "failed"}

\* "Only websockets are supported".
Refuse(t) ==
  /\ MayCall(t)
  /\ EndpointOf[t] \notin WsEndpoint
  /\ Goto(t, "failed")
  /\ UNCHANGED <<using, appSocketsMap, delivered, currentState, linkVars>>

\* The map has a socket for the endpoint, in whatever state.
GetExisting(t) ==
  /\ MayCall(t)
  /\ EndpointOf[t] \in WsEndpoint
  /\ appSocketsMap[EndpointOf[t]] # None
  /\ using' = [using EXCEPT ![t] = appSocketsMap[EndpointOf[t]]]
  /\ Goto(t, "using")
  /\ UNCHANGED <<appSocketsMap, delivered, currentState, linkVars>>

\* It has none: connect() of a new socket, up to its receive() from
\* socketOpenedChannel.
Open(t) ==
  /\ MayCall(t)
  /\ EndpointOf[t] \in WsEndpoint
  /\ appSocketsMap[EndpointOf[t]] = None
  /\ currentState' = [currentState EXCEPT ![t] = "CONNECTING"]
  /\ link' = [link EXCEPT ![t] = "dialing"]
  /\ Goto(t, "awaiting")
  /\ UNCHANGED <<using, appSocketsMap, delivered, wire, sent>>

\* The platform's onOpened and the receive() of connect() meet.
Opened(t) ==
  /\ pc[t] = "awaiting"
  /\ link[t] = "dialing"
  /\ link' = [link EXCEPT ![t] = "open"]
  /\ Goto(t, "opened")
  /\ UNCHANGED <<using, appSocketsMap, delivered, currentState, wire, sent>>

\* socketListener.onOpen(), whatever has happened to the socket since.
OnOpen(t) ==
  /\ pc[t] = "opened"
  /\ currentState' = [currentState EXCEPT ![t] = "CONNECTED"]
  /\ Goto(t, "checking")
  /\ UNCHANGED <<using, appSocketsMap, delivered, linkVars>>

\* "Could not be opened".
OpenFailed(t) ==
  /\ pc[t] = "checking"
  /\ currentState[t] # "CONNECTED"
  /\ Goto(t, "failed")
  /\ UNCHANGED <<using, appSocketsMap, delivered, currentState, linkVars>>

\* Mutants of CacheSocket: the socket is not put into the map; the map gets the
\* endpoint instead of the socket.
KeepSocket(t) ==
  /\ pc[t] = "checking"
  /\ currentState[t] = "CONNECTED"
  /\ using' = [using EXCEPT ![t] = t]
  /\ Goto(t, "using")
  /\ UNCHANGED <<appSocketsMap, delivered, currentState, linkVars>>

CacheEndpoint(t) ==
  /\ pc[t] = "checking"
  /\ currentState[t] = "CONNECTED"
  /\ appSocketsMap' = [appSocketsMap EXCEPT ![EndpointOf[t]] = EndpointOf[t]]
  /\ using' = [using EXCEPT ![t] = t]
  /\ Goto(t, "using")
  /\ UNCHANGED <<delivered, currentState, linkVars>>

\* connect() returns; a socket that another thread has put is overwritten.
CacheSocket(t) ==
  /\ pc[t] = "checking"
  /\ currentState[t] = "CONNECTED"
  /\ appSocketsMap' = [appSocketsMap EXCEPT ![EndpointOf[t]] = t]
  /\ using' = [using EXCEPT ![t] = t]
  /\ Goto(t, "using")
  /\ UNCHANGED <<delivered, currentState, linkVars>>

\* AppSocket.send: what the platform does with a message for a link that is not
\* open any more, nobody looks at.
Send(t) ==
  /\ pc[t] = "using"
  /\ \/ /\ currentState[using[t]] = "CONNECTED"
        /\ Goto(t, "done")
        /\ \/ link[using[t]] = "open" /\ delivered' = delivered \cup {t}
           \/ UNCHANGED delivered
     \/ /\ currentState[using[t]] # "CONNECTED"
        /\ Goto(t, "failed")
        /\ UNCHANGED delivered
  /\ UNCHANGED <<using, appSocketsMap, currentState, linkVars>>

CallStep(t) ==
  /\ \/ Refuse(t)
     \/ GetExisting(t)
     \/ Open(t)
     \/ Opened(t)
     \/ OnOpen(t)
     \/ OpenFailed(t)
     \/ CacheSocket(t)
     \/ Send(t)
  /\ UNCHANGED <<queueVars, readerVars>>

-----------------------------------------------------------------------------
\* The platform's thread of socket s, and the peer.

\* Only the messages that the platform has read off the link survive a failure:
\* none, or the one that its thread is handing over.
LinkFails(s) ==
  /\ \/ link[s] = "dialing" /\ "open_fails" \in Env
     \/ /\ link[s] \in {"open", "closing"}
        /\ (IF pc[s] = "opened" THEN "prompt_failure" ELSE "link_fails") \in Env
  /\ link' = [link EXCEPT ![s] = "failing"]
  /\ \/ wire' = [wire EXCEPT ![s] = 0]
     \/ wire[s] > 0 /\ wire' = [wire EXCEPT ![s] = 1]
  /\ UNCHANGED <<callVars, currentState, sent, queueVars>>

\* Mutant of OnFailure: the error is recorded and the state is not.
RecordError(s) ==
  /\ link[s] = "failing"
  /\ link' = [link EXCEPT ![s] = "failed"]
  /\ UNCHANGED <<callVars, currentState, wire, sent, queueVars>>

\* onFailure of the adapter meets the failure coroutine, which closes the socket.
OnFailure(s) ==
  /\ link[s] = "failing"
  /\ link' = [link EXCEPT ![s] = "failed"]
  /\ currentState' = [currentState EXCEPT ![s] = "CLOSED"]
  /\ UNCHANGED <<callVars, wire, sent, queueVars>>

\* onClosed of the adapter waits for a receiver that is never started: the state
\* stays what it is.  The close comes after all messages.
PeerCloses(s) ==
  /\ "peer_closes" \in Env
  /\ link[s] = "open"
  /\ wire[s] = 0
  /\ link' = [link EXCEPT ![s] = "closing"]
  /\ UNCHANGED <<callVars, currentState, wire, sent, queueVars>>

PeerSends(s) ==
  /\ link[s] = "open"
  /\ sent[s] < MaxMessages[s]
  /\ sent' = [sent EXCEPT ![s] = @ + 1]
  /\ wire' = [wire EXCEPT ![s] = @ + 1]
  /\ UNCHANGED <<callVars, currentState, link, queueVars>>

\* Mutant of TakeOffWire: the coroutine listens for one message only.
TakeFirstOnly(s) ==
  /\ wire[s] > 0
  /\ hand[s] = None
  /\ read[s] = 0
  /\ wire' = [wire EXCEPT ![s] = @ - 1]
  /\ read' = [read EXCEPT ![s] = @ + 1]
  /\ hand' = [hand EXCEPT ![s] = [from |-> s, number |-> read[s] + 1]]
  /\ UNCHANGED <<callVars, currentState, link, sent, incomingMessagesQueue>>

\* onMessageReceived of the adapter meets the message coroutine.
TakeOffWire(s) ==
  /\ wire[s] > 0
  /\ hand[s] = None
  /\ wire' = [wire EXCEPT ![s] = @ - 1]
  /\ read' = [read EXCEPT ![s] = @ + 1]
  /\ hand' = [hand EXCEPT ![s] = [from |-> s, number |-> read[s] + 1]]
  /\ UNCHANGED <<callVars, currentState, link, sent, incomingMessagesQueue>>

\* socketListener.onMessage; the coroutine listens again.
OnMessage(s) ==
  /\ hand[s] # None
  /\ incomingMessagesQueue' = Append(incomingMessagesQueue, hand[s])
  /\ hand' = [hand EXCEPT ![s] = None]
  /\ UNCHANGED <<callVars, currentState, linkVars, read>>

CoroutineStep(s) == OnFailure(s) \/ TakeOffWire(s) \/ OnMessage(s)

SocketStep(s) ==
  /\ \/ LinkFails(s)
     \/ PeerCloses(s)
     \/ PeerSends(s)
     \/ CoroutineStep(s)
  /\ UNCHANGED readerVars

-----------------------------------------------------------------------------
\* The listener in receiveNextMessage: an access by index, and a removal.

ReadMessage ==
  /\ consumer = "wait"
  /\ incomingMessagesQueue # <<>>
  /\ message' = incomingMessagesQueue[1]
  /\ consumer' = "remove"
  /\ UNCHANGED <<callVars, currentState, linkVars, queueVars, taken>>

\* Mutant of RemoveMessage: the last message is removed, not the first.
RemoveLast ==
  /\ consumer = "remove"
  /\ incomingMessagesQueue' =
       SubSeq(incomingMessagesQueue, 1, Len(incomingMessagesQueue) - 1)
  /\ taken' = [taken EXCEPT ![message.from] = @ + 1]
  /\ message' = None
  /\ consumer' = "wait"
  /\ UNCHANGED <<callVars, currentState, linkVars, read, hand>>

RemoveMessage ==
  /\ consumer = "remove"
  /\ incomingMessagesQueue' = Tail(incomingMessagesQueue)
  /\ taken' = [taken EXCEPT ![message.from] = @ + 1]
  /\ message' = None
  /\ consumer' = "wait"
  /\ UNCHANGED <<callVars, currentState, linkVars, read, hand>>

ReaderStep == ReadMessage \/ RemoveMessage

-----------------------------------------------------------------------------
Next ==
  \/ \E t \in Call : CallStep(t)
  \/ \E s \in Call : SocketStep(s)
  \/ ReaderStep

Spec == Init /\ [][Next]_vars

\* Started threads and coroutines keep running, and a platform that dials ends
\* dialing.  Nobody has to call, peers need not send, links need not fail.
Fairness ==
  /\ \A t \in Call : WF_vars(CallStep(t) /\ pc[t] # "idle")
  /\ \A s \in Call : WF_vars(CoroutineStep(s) /\ UNCHANGED readerVars)
  /\ WF_vars(ReaderStep)

FairSpec == Spec /\ Fairness

-----------------------------------------------------------------------------
(***************************************************************************)
(* Properties                                                              *)
(***************************************************************************)

\* The transport keeps the promise of MessageTransport.
Outcome(t) ==
  IF pc[t] = "done" THEN IF t \in delivered THEN "delivered" ELSE "dropped"
  ELSE IF pc[t] = "failed" THEN "thrown" ELSE "pending"

Contract == INSTANCE MessageTransport WITH
  Source <- Call,
  outcome <- [t \in Call |-> Outcome(t)],
  next <- message

ContractSpec == Contract!Spec

\* Whatever is on the wire or in the hands of the coroutine is returned by
\* receiveNextMessage in the end: also what comes over a socket that has failed
\* since or that another thread's socket has replaced in the map.
SentIsTaken == \A s \in Call : []<>(wire[s] = 0 /\ taken[s] = read[s])

\* A call that opens a socket ends, normally or by an exception (AppSocket.connect:
\* "Could not be opened").
OpeningEnds ==
  \A t \in Call : pc[t] = "awaiting" ~> pc[t] \in {"done", "failed"}

\* A socket whose failure is noticed is CLOSED from then on, so that sends over it
\* throw (AppSocket.send: "The connection is lost"), whatever thread finds it in the
\* map and however late: unless the failure is noticed between the opening and
\* onOpen().
LossIsNoticed ==
  \A s \in {t \in Call : EndpointOf[t] \in WsEndpoint} :
    [](pc[s] = "opened" => link[s] # "failed")
      => [](link[s] = "failed" => currentState[s] = "CLOSED")

\* No send is accepted over a socket whose failure has been noticed (AppSocket.send:
\* "The connection is lost").
LostSendsThrow ==
  [][\A t \in Call :
       pc[t] = "using" /\ pc'[t] = "done" => link[using[t]] # "failed"]_vars

\* Once a call for an endpoint has a socket, no later call opens another
\* (openOrGetExistingConnection), although calls that overlap may have opened
\* several, and although any of them may have failed since.
SocketsAreReused ==
  [][\A t, u \in Call :
       /\ EndpointOf[t] = EndpointOf[u]
       /\ using[u] # None
       /\ pc[t] = "idle"
       => pc'[t] # "awaiting"]_vars

=============================================================================
