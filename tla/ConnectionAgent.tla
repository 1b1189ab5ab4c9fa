--------------------------- MODULE ConnectionAgent ---------------------------
(***************************************************************************)
(* The connection protocol of the agent, as its threads execute it:        *)
(*   - one thread per call of connect(url)         (ReceiveInvitationAction) *)
(*   - one thread per sendTrustPing() of the application                     *)
(*                                                     (SendTrustPingAction) *)
(*   - the listener thread, which takes the received messages one at a time  *)
(*     (MessageListenerImpl, ReceiveConnectionResponseAction,                *)
(*     ReceiveTrustPingResponseAction)                                       *)
(*   - the tracker thread, which aborts connections whose ping stays         *)
(*     unanswered                  (TrustPingTrackerService, AbortConnection) *)
(* They share the connection records of the wallet and the map sentPings,  *)
(* and nothing but the single wallet call and the single map call is       *)
(* atomic.  The transport is its contract: a send is delivered, silently   *)
(* dropped or throws, and received messages come in the order of inbox.    *)
(* An exception that leaves listen() or track() ends that thread for good: *)
(* pc "dead".                                                              *)
(***************************************************************************)
EXTENDS Naturals, Sequences, FiniteSets

CONSTANTS
  Connection,  \* connection ids: each is one call of connect(url), a fresh uuid
  VerKey,      \* verification keys of peers
  KeyOf,       \* the key with which the peer of a connection signs
  None,        \* null
  Timeout,     \* maxTimeoutForTrustPingResponseMs, in ticks of the clock
  Env,         \* what the environment may do, a subset of Behaviours
  MaxReplies,  \* bound: connection responses the peer sends per request
  MaxAppPings, \* bound: sendTrustPing calls of the application per connection
  MaxStrays,   \* bound: messages without a handler
  MaxTime      \* bound: last tick of the clock

(***************************************************************************)
(* "prompt_response": a response may arrive before connect() has returned. *)
(* "early_ping":  the application pings a connection that connect()        *)
(*                returned although onCompleted has not been called.       *)
(* "send_lost":   the socket accepts a message and drops it.               *)
(* "send_fails":  sendMessage throws (no socket, or it is not CONNECTED).  *)
(***************************************************************************)
Behaviours == {"prompt_response", "early_ping", "send_lost", "send_fails"}

ASSUME ConstantsAssumption ==
  /\ KeyOf \in [Connection -> VerKey]
  /\ None \notin Nat
  /\ None \notin VerKey
  /\ None \notin Connection
  /\ Timeout \in Nat
  /\ Env \subseteq Behaviours
  /\ {MaxReplies, MaxAppPings, MaxStrays, MaxTime} \subseteq Nat

VARIABLES
  state,      \* wallet: Connection.state of the record's value
  peerVerkey, \* wallet: Connection.peerVerkey of the record's value
  tag,        \* wallet: the record's tag ConnectionVerKey
  caller,     \* pc of the thread in connect(url)
  pinger,     \* pc of the application's thread in sendTrustPing(connection)
  listener,   \* pc of the listener thread
  message,    \* the message the listener is processing
  context,    \* MessageContext.connection: the record found by the sender's key
  completed,  \* connections whose onCompleted callback has been called
  tracker,    \* pc of the tracker thread
  sampled,    \* currentTimestamp of the running scan
  unvisited,  \* keys the iterator of the running scan has still to visit
  stale,      \* a key was added or removed since that iterator was made
  current,    \* the key the tracker is at
  dead,       \* deadConnections found and not aborted yet
  readVerkey, \* peerVerkey of the record AbortConnection has read
  sentPings,  \* sentPingsMap: connection id -> timestamp
  now,        \* System.currentTimeMillis()
  inbox,      \* messages received and not yet processed, in order
  requested,  \* connections whose request has reached the peer
  replies,    \* how many responses the peer has sent for a connection
  atPeer,     \* pings that reached the peer and that it has not answered
  appPings,   \* how often the application has pinged a connection
  strays,     \* how many messages without a handler have been received
  pinged,     \* history: pings handed to sendMessage, per connection
  answered    \* history: ping responses the listener has processed

walletVars   == <<state, peerVerkey, tag>>
listenerVars == <<listener, message, context, completed>>
trackerVars  == <<tracker, sampled, unvisited, current, dead, readVerkey>>
pingVars     == <<sentPings, stale>>
peerVars     == <<inbox, requested, replies, atPeer, strays>>
appVars      == <<caller, pinger, appPings>>
historyVars  == <<pinged, answered>>
vars == <<walletVars, listenerVars, trackerVars, pingVars, peerVars, appVars,
          now, historyVars>>

States      == {"absent", "START", "RequestSent", "Complete", "Abandoned"}
CallerPC    == {"idle", "invited", "sent", "stored", "returned", "failed"}
PingerPC    == {"idle", "sent"}
ListenerPC  == {"receive", "dispatch", "store", "tag", "ping", "pinged", "dead"}
TrackerPC   == {"idle", "scan", "get", "abort", "store", "tag", "remove", "dead"}
MessageType == {"response", "ping_response", "stray"}
Message     == [type : MessageType, about : Connection, from : VerKey]

WalletTyped ==
  /\ state \in [Connection -> States]
  /\ peerVerkey \in [Connection -> VerKey \cup {None}]
  /\ tag \in [Connection -> VerKey \cup {None}]

ListenerTyped ==
  /\ listener \in ListenerPC
  /\ message \in Message \cup {None}
  /\ (listener # "receive") => message \in Message
  /\ context \in Connection \cup {None}
  /\ completed \subseteq Connection

TrackerTyped ==
  /\ tracker \in TrackerPC
  /\ sampled \in Nat
  /\ unvisited \subseteq Connection
  /\ current \in Connection \cup {None}
  /\ (tracker \in {"get", "store", "tag", "remove"}) => current \in Connection
  /\ dead \subseteq Connection
  /\ readVerkey \in VerKey \cup {None}

PingsTyped ==
  /\ sentPings \in [Connection -> Nat \cup {None}]
  /\ stale \in BOOLEAN

PeersTyped ==
  /\ inbox \in Seq(Message)
  /\ requested \subseteq Connection
  /\ replies \in [Connection -> Nat]
  /\ atPeer \in [Connection -> Nat]
  /\ strays \in Nat

AppTyped ==
  /\ caller \in [Connection -> CallerPC]
  /\ pinger \in [Connection -> PingerPC]
  /\ appPings \in [Connection -> Nat]

HistoryTyped ==
  /\ pinged \in [Connection -> Nat]
  /\ answered \in [Connection -> Nat]

\* Every variable has its type, the listener has a message to process unless it
\* waits for one, and the tracker a connection while it looks at or aborts one.
TypeOK ==
  /\ WalletTyped
  /\ ListenerTyped
  /\ TrackerTyped
  /\ PingsTyped
  /\ PeersTyped
  /\ AppTyped
  /\ HistoryTyped
  /\ now \in Nat

Init ==
  /\ state = [c \in Connection |-> "absent"]
  /\ peerVerkey = [c \in Connection |-> None]
  /\ tag = [c \in Connection |-> None]
  /\ caller = [c \in Connection |-> "idle"]
  /\ pinger = [c \in Connection |-> "idle"]
  /\ listener = "receive"
  /\ message = None
  /\ context = None
  /\ completed = {}
  /\ tracker = "idle"
  /\ sampled = 0
  /\ unvisited = {}
  /\ stale = FALSE
  /\ current = None
  /\ dead = {}
  /\ readVerkey = None
  /\ sentPings = [c \in Connection |-> None]
  /\ now = 0
  /\ inbox = <<>>
  /\ requested = {}
  /\ replies = [c \in Connection |-> 0]
  /\ atPeer = [c \in Connection |-> 0]
  /\ appPings = [c \in Connection |-> 0]
  /\ strays = 0
  /\ pinged = [c \in Connection |-> 0]
  /\ answered = [c \in Connection |-> 0]

-----------------------------------------------------------------------------
(***************************************************************************)
(* Wallet.  storeConnectionRecord on an existing record is two calls,      *)
(* updateValue and then updateTags; other threads run between them.  Its   *)
(* leading get only chooses between add and update, which no other thread  *)
(* can change: a record is added once and never deleted.                   *)
(***************************************************************************)
UpdateValue(c, s, k) ==
  /\ state' = [state EXCEPT ![c] = s]
  /\ peerVerkey' = [peerVerkey EXCEPT ![c] = k]

\* Mutant of UpdateTags: the tag holds the id of the record.
TagWithId(c, k) == tag' = [tag EXCEPT ![c] = c]

UpdateTags(c, k) == tag' = [tag EXCEPT ![c] = k]

\* findConnectionByVerKey: the connections the search can return first.
FoundBy(k) == {c \in Connection : tag[c] = k}

(***************************************************************************)
(* sentPingsMap.  Adding or removing a key makes the iterator of a running *)
(* scan stale; overwriting a timestamp does not.                           *)
(***************************************************************************)
Scanning == tracker \in {"scan", "get"}

PutPing(c) ==
  /\ sentPings' = [sentPings EXCEPT ![c] = now]
  /\ stale' = (stale \/ (Scanning /\ sentPings[c] = None))

RemovePing(c) ==
  /\ sentPings' = [sentPings EXCEPT ![c] = None]
  /\ stale' = (stale \/ (Scanning /\ sentPings[c] # None))

\* A ping handed to the transport either reaches the peer or is dropped.
PingLeaves(c) ==
  /\ \/ atPeer' = [atPeer EXCEPT ![c] = @ + 1]
     \/ "send_lost" \in Env /\ UNCHANGED atPeer
  /\ pinged' = [pinged EXCEPT ![c] = @ + 1]

-----------------------------------------------------------------------------
\* The thread in connect(url).

Connect(c) ==
  /\ caller[c] = "idle"
  /\ caller' = [caller EXCEPT ![c] = "invited"]
  /\ UpdateValue(c, "START", None)
  /\ UpdateTags(c, None)
  /\ UNCHANGED requested

\* onInvitationReceived says no.  No other thread knows this id yet.
DeclineInvitation(c) ==
  /\ caller[c] = "invited"
  /\ caller' = [caller EXCEPT ![c] = "failed"]
  /\ UpdateValue(c, "Abandoned", None)
  /\ UpdateTags(c, None)
  /\ UNCHANGED requested

\* onInvitationReceived says yes: transport.sendMessage before the new state.
SendRequest(c) ==
  /\ caller[c] = "invited"
  /\ \/ /\ requested' = requested \cup {c}
        /\ caller' = [caller EXCEPT ![c] = "sent"]
     \/ /\ "send_lost" \in Env
        /\ caller' = [caller EXCEPT ![c] = "sent"]
        /\ UNCHANGED requested
     \/ /\ "send_fails" \in Env
        /\ caller' = [caller EXCEPT ![c] = "failed"]
        /\ UNCHANGED requested
  /\ UNCHANGED walletVars

\* storeConnectionRecord(connection.copy(state = "RequestSent")), first half:
\* the record is overwritten with the caller's copy, whatever it holds by now.
StoreRequestSent(c) ==
  /\ caller[c] = "sent"
  /\ caller' = [caller EXCEPT ![c] = "stored"]
  /\ UpdateValue(c, "RequestSent", None)
  /\ UNCHANGED <<tag, requested>>

\* Second half, then onRequestSent; connect() returns the connection.
TagRequestSent(c) ==
  /\ caller[c] = "stored"
  /\ caller' = [caller EXCEPT ![c] = "returned"]
  /\ UpdateTags(c, None)
  /\ UNCHANGED <<state, peerVerkey, requested>>

CallerStep(c) ==
  /\ \/ Connect(c)
     \/ DeclineInvitation(c)
     \/ SendRequest(c)
     \/ StoreRequestSent(c)
     \/ TagRequestSent(c)
  /\ UNCHANGED <<pinger, appPings, listenerVars, trackerVars, pingVars, inbox, replies,
                 atPeer, strays, now, pinged, answered>>

-----------------------------------------------------------------------------
\* The application's thread in sendTrustPing(connection).

MayPing(c) ==
  \/ c \in completed
  \/ "early_ping" \in Env /\ caller[c] = "returned"

\* A send that throws ends this call only, and leaves nothing behind.
AppSendPing(c) ==
  /\ pinger[c] = "idle"
  /\ MayPing(c)
  /\ appPings[c] < MaxAppPings
  /\ appPings' = [appPings EXCEPT ![c] = @ + 1]
  /\ PingLeaves(c)
  /\ pinger' = [pinger EXCEPT ![c] = "sent"]
  /\ UNCHANGED pingVars

\* trustPingSentOverConnectionEvent, after sendMessage has returned.
AppRecordPing(c) ==
  /\ pinger[c] = "sent"
  /\ pinger' = [pinger EXCEPT ![c] = "idle"]
  /\ PutPing(c)
  /\ UNCHANGED <<appPings, atPeer, pinged>>

PingerStep(c) ==
  /\ AppSendPing(c) \/ AppRecordPing(c)
  /\ UNCHANGED <<walletVars, caller, listenerVars, trackerVars, inbox, requested,
                 replies, strays, now, answered>>

-----------------------------------------------------------------------------
\* The listener thread.

\* receiveNextMessage, unpack, findConnectionByVerKey(senderVerKey).
ReceiveMessage ==
  /\ listener = "receive"
  /\ inbox # <<>>
  /\ message' = Head(inbox)
  /\ inbox' = Tail(inbox)
  /\ \/ context' \in FoundBy(Head(inbox).from)
     \/ FoundBy(Head(inbox).from) = {} /\ context' = None
  /\ listener' = "dispatch"
  /\ UNCHANGED <<walletVars, completed, pingVars, atPeer, pinged, answered>>

\* Mutants of ReadResponse: the state is not looked at; a completed connection
\* may complete again; the wrong state is expected.
ReadResponseUnchecked ==
  /\ listener = "dispatch"
  /\ message.type = "response"
  /\ listener' = "store"
  /\ UNCHANGED <<walletVars, inbox, message, context, completed, pingVars, atPeer,
                 pinged, answered>>

ReadResponseRepeated ==
  /\ listener = "dispatch"
  /\ message.type = "response"
  /\ listener' = IF state[message.about] \in {"RequestSent", "Complete"}
                 THEN "store" ELSE "dead"
  /\ UNCHANGED <<walletVars, inbox, message, context, completed, pingVars, atPeer,
                 pinged, answered>>

ReadResponseInStart ==
  /\ listener = "dispatch"
  /\ message.type = "response"
  /\ listener' = IF state[message.about] = "START" THEN "store" ELSE "dead"
  /\ UNCHANGED <<walletVars, inbox, message, context, completed, pingVars, atPeer,
                 pinged, answered>>

\* Mutant of ReadResponse: a response that the record does not wait for is passed over.
ReadResponseIgnored ==
  /\ listener = "dispatch"
  /\ message.type = "response"
  /\ listener' = IF state[message.about] = "RequestSent" THEN "store" ELSE "receive"
  /\ UNCHANGED <<walletVars, inbox, message, context, completed, pingVars, atPeer,
                 pinged, answered>>

\* ReceiveConnectionResponseAction reads the record that the response names:
\* anything but "RequestSent" is TODO(), which throws.
ReadResponse ==
  /\ listener = "dispatch"
  /\ message.type = "response"
  /\ listener' = IF state[message.about] = "RequestSent" THEN "store" ELSE "dead"
  /\ UNCHANGED <<walletVars, inbox, message, context, completed, pingVars, atPeer,
                 pinged, answered>>

StoreComplete ==
  /\ listener = "store"
  /\ listener' = "tag"
  /\ UpdateValue(message.about, "Complete", message.from)
  /\ UNCHANGED <<tag, inbox, message, context, completed, pingVars, atPeer, pinged,
                 answered>>

\* Mutant of TagComplete: the tags of an existing record are left alone.
CompleteUntagged ==
  /\ listener = "tag"
  /\ listener' = "ping"
  /\ completed' = completed \cup {message.about}
  /\ UNCHANGED <<walletVars, inbox, message, context, pingVars, atPeer, pinged, answered>>

\* updateTags, then onCompleted.
TagComplete ==
  /\ listener = "tag"
  /\ listener' = "ping"
  /\ UpdateTags(message.about, message.from)
  /\ completed' = completed \cup {message.about}
  /\ UNCHANGED <<state, peerVerkey, inbox, message, context, pingVars, atPeer, pinged,
                 answered>>

\* sendTrustPingOverConnection: if the send throws, so does listen().
ListenerSendPing ==
  /\ listener = "ping"
  /\ \/ /\ PingLeaves(message.about)
        /\ listener' = "pinged"
     \/ /\ "send_fails" \in Env
        /\ listener' = "dead"
        /\ UNCHANGED <<atPeer, pinged>>
  /\ UNCHANGED <<walletVars, inbox, message, context, completed, pingVars, answered>>

\* trustPingSentOverConnectionEvent; listen() takes the next message.
ListenerRecordPing ==
  /\ listener = "pinged"
  /\ listener' = "receive"
  /\ message' = None
  /\ context' = None
  /\ PutPing(message.about)
  /\ UNCHANGED <<walletVars, inbox, completed, atPeer, pinged, answered>>

\* Mutant of ReadPingResponse: the tracker is not told.
ReadPingResponseUntold ==
  /\ listener = "dispatch"
  /\ message.type = "ping_response"
  /\ \/ /\ context # None
        /\ listener' = "receive"
        /\ message' = None
        /\ context' = None
        /\ answered' = [answered EXCEPT ![message.about] = @ + 1]
     \/ /\ context = None
        /\ listener' = "dead"
        /\ UNCHANGED <<message, context, answered>>
  /\ UNCHANGED <<walletVars, inbox, completed, pingVars, atPeer, pinged>>

\* ReceiveTrustPingResponseAction: the record found by the sender's key is
\* the one whose entry goes, whichever ping was answered; none is an NPE.
ReadPingResponse ==
  /\ listener = "dispatch"
  /\ message.type = "ping_response"
  /\ \/ /\ context # None
        /\ RemovePing(context)
        /\ listener' = "receive"
        /\ message' = None
        /\ context' = None
        /\ answered' = [answered EXCEPT ![message.about] = @ + 1]
     \/ /\ context = None
        /\ listener' = "dead"
        /\ UNCHANGED <<message, context, pingVars, answered>>
  /\ UNCHANGED <<walletVars, inbox, completed, atPeer, pinged>>

\* No route, no message type, or a handler that is TODO(): all throw.
ReadStray ==
  /\ listener = "dispatch"
  /\ message.type = "stray"
  /\ listener' = "dead"
  /\ UNCHANGED <<walletVars, inbox, message, context, completed, pingVars, atPeer,
                 pinged, answered>>

ListenerStep ==
  /\ \/ ReceiveMessage
     \/ ReadResponse
     \/ StoreComplete
     \/ TagComplete
     \/ ListenerSendPing
     \/ ListenerRecordPing
     \/ ReadPingResponse
     \/ ReadStray
  /\ UNCHANGED <<trackerVars, requested, replies, strays, appVars, now>>

-----------------------------------------------------------------------------
\* The tracker thread.  Its sleep of 10 s has no lower bound here.

\* getDeadConnections: one timestamp, then the keys one by one.
ScanStart ==
  /\ tracker = "idle"
  /\ tracker' = "scan"
  /\ sampled' = now
  /\ unvisited' = {c \in Connection : sentPings[c] # None}
  /\ UNCHANGED <<walletVars, pingVars, current, dead, readVerkey>>

\* The iterator is fail-fast: a change of the key set makes next() throw.
ScanNext ==
  /\ tracker = "scan"
  /\ unvisited # {}
  /\ \/ /\ stale
        /\ tracker' = "dead"
        /\ UNCHANGED <<unvisited, current>>
     \/ /\ ~stale
        /\ tracker' = "get"
        /\ current' \in unvisited
        /\ unvisited' = unvisited \ {current'}
  /\ UNCHANGED <<walletVars, pingVars, sampled, dead, readVerkey>>

\* Mutant of ScanGet: the subtraction is the wrong way round.
ScanGetReversed ==
  /\ tracker = "get"
  /\ \/ /\ sentPings[current] = None
        /\ tracker' = "dead"
        /\ UNCHANGED dead
     \/ /\ sentPings[current] # None
        /\ tracker' = "scan"
        /\ dead' = IF sentPings[current] > sampled + Timeout
                   THEN dead \cup {current} ELSE dead
  /\ UNCHANGED <<walletVars, pingVars, sampled, unvisited, current, readVerkey>>

\* sentPingsMap[key]!!: the entry may have gone since the key was visited.
ScanGet ==
  /\ tracker = "get"
  /\ \/ /\ sentPings[current] = None
        /\ tracker' = "dead"
        /\ UNCHANGED dead
     \/ /\ sentPings[current] # None
        /\ tracker' = "scan"
        /\ dead' = IF sampled > sentPings[current] + Timeout
                   THEN dead \cup {current} ELSE dead
  /\ UNCHANGED <<walletVars, pingVars, sampled, unvisited, current, readVerkey>>

ScanDone ==
  /\ tracker = "scan"
  /\ unvisited = {}
  /\ tracker' = "abort"
  /\ current' = None
  /\ sampled' = 0
  /\ stale' = FALSE
  /\ UNCHANGED <<walletVars, sentPings, unvisited, dead, readVerkey>>

\* Mutant of AbortRead: the copy is made of a record without the peer's key,
\* such as the one the connection was pinged with.
AbortReadOld ==
  /\ tracker = "abort"
  /\ dead # {}
  /\ current' \in dead
  /\ readVerkey' = None
  /\ tracker' = "store"
  /\ UNCHANGED <<walletVars, pingVars, sampled, unvisited, dead>>

\* Mutant of AbortRead: the entry goes first.
AbortReadRemoving ==
  /\ tracker = "abort"
  /\ dead # {}
  /\ current' \in dead
  /\ readVerkey' = peerVerkey[current']
  /\ tracker' = "store"
  /\ RemovePing(current')
  /\ UNCHANGED <<walletVars, sampled, unvisited, dead>>

\* abortDeadConnections: AbortConnection reads the record ...
AbortRead ==
  /\ tracker = "abort"
  /\ dead # {}
  /\ current' \in dead
  /\ readVerkey' = peerVerkey[current']
  /\ tracker' = "store"
  /\ UNCHANGED <<walletVars, pingVars, sampled, unvisited, dead>>

\* ... and stores its copy, whatever the record holds by now ...
AbortStore ==
  /\ tracker = "store"
  /\ tracker' = "tag"
  /\ UpdateValue(current, "Abandoned", readVerkey)
  /\ UNCHANGED <<tag, pingVars, sampled, unvisited, current, dead, readVerkey>>

\* ... and calls onAbandoned ...
AbortTag ==
  /\ tracker = "tag"
  /\ tracker' = "remove"
  /\ UpdateTags(current, readVerkey)
  /\ UNCHANGED <<state, peerVerkey, pingVars, sampled, unvisited, current, dead,
                 readVerkey>>

\* ... and the entry goes, be it that of a ping sent in the meantime.
AbortRemove ==
  /\ tracker = "remove"
  /\ tracker' = "abort"
  /\ RemovePing(current)
  /\ dead' = dead \ {current}
  /\ current' = None
  /\ readVerkey' = None
  /\ UNCHANGED <<walletVars, sampled, unvisited>>

Sleep ==
  /\ tracker = "abort"
  /\ dead = {}
  /\ tracker' = "idle"
  /\ UNCHANGED <<walletVars, pingVars, sampled, unvisited, current, dead, readVerkey>>

TrackerStep ==
  /\ \/ ScanStart
     \/ ScanNext
     \/ ScanGet
     \/ ScanDone
     \/ AbortRead
     \/ AbortStore
     \/ AbortTag
     \/ AbortRemove
     \/ Sleep
  /\ UNCHANGED <<listenerVars, peerVars, appVars, now, historyVars>>

-----------------------------------------------------------------------------
\* The peers, and the clock.

Deliver(type, c) ==
  inbox' = Append(inbox, [type |-> type, about |-> c, from |-> KeyOf[c]])

PeerResponds(c) ==
  /\ c \in requested
  /\ "prompt_response" \in Env \/ caller[c] = "returned"
  /\ replies[c] < MaxReplies
  /\ replies' = [replies EXCEPT ![c] = @ + 1]
  /\ Deliver("response", c)
  /\ UNCHANGED <<atPeer, strays>>

PeerAnswersPing(c) ==
  /\ atPeer[c] > 0
  /\ atPeer' = [atPeer EXCEPT ![c] = @ - 1]
  /\ Deliver("ping_response", c)
  /\ UNCHANGED <<replies, strays>>

\* E.g. a trust ping of the peer, for which the agent has no handler.
PeerSendsStray(c) ==
  /\ c \in requested
  /\ strays < MaxStrays
  /\ strays' = strays + 1
  /\ Deliver("stray", c)
  /\ UNCHANGED <<replies, atPeer>>

PeerStep(c) ==
  /\ PeerResponds(c) \/ PeerAnswersPing(c) \/ PeerSendsStray(c)
  /\ UNCHANGED <<walletVars, listenerVars, trackerVars, pingVars, requested, appVars,
                 now, historyVars>>

Tick ==
  /\ now < MaxTime
  /\ now' = now + 1
  /\ UNCHANGED <<walletVars, listenerVars, trackerVars, pingVars, peerVars, appVars,
                 historyVars>>

-----------------------------------------------------------------------------
Next ==
  \/ \E c \in Connection : CallerStep(c) \/ PingerStep(c) \/ PeerStep(c)
  \/ ListenerStep
  \/ TrackerStep
  \/ Tick

Spec == Init /\ [][Next]_vars

\* A started thread keeps running; what users and peers may do, they need not:
\* nobody has to connect, to accept an invitation, to ping or to answer.
Fairness ==
  /\ \A c \in Connection : /\ WF_vars(CallerStep(c) /\ caller[c] # "idle")
                           /\ WF_vars(PingerStep(c) /\ pinger[c] = "sent")
  /\ WF_vars(ListenerStep)
  /\ WF_vars(TrackerStep)
  /\ WF_vars(Tick)

FairSpec == Spec /\ Fairness

-----------------------------------------------------------------------------
(***************************************************************************)
(* Properties                                                              *)
(***************************************************************************)

\* A record is "Complete" only if connect() had stored "RequestSent" for it,
\* its request reached the peer and the peer has answered: the listener's
\* check of the state (ReceiveConnectionResponseAction) does not let a
\* response overtake the request.
CompleteOnlyAfterResponse ==
  \A c \in Connection : state[c] = "Complete" =>
    /\ caller[c] \in {"stored", "returned"}
    /\ c \in requested
    /\ replies[c] > 0

\* onCompleted is called at most once per connection, however often the peer
\* repeats its response and whatever the tracker does to the record.
CompletedOnce ==
  [][(listener = "tag" /\ listener' = "ping") => message.about \notin completed]_vars

\* As long as the listener lives, the response to a request is in the inbox or in its
\* hands until the connection is completed: none is passed over, whichever thread
\* changes the record in the meantime and however often the peer answers.
ResponsesAreKept ==
  listener # "dead" =>
    \A c \in Connection : replies[c] > 0 =>
      \/ c \in completed
      \/ \E i \in 1..Len(inbox) : inbox[i].type = "response" /\ inbox[i].about = c
      \/ /\ listener \in {"dispatch", "store", "tag"}
         /\ message.type = "response" /\ message.about = c

\* An exception leaves listen() only if a send has thrown, if the message has no
\* handler, if the tracker has abandoned the connection, if a response comes while
\* connect() has not yet stored "RequestSent" or is not the first, or if the answer to
\* a ping is that of a connection which has not completed or in whose record connect()
\* or the tracker has left a tag that is not the key: no other order in which threads
\* and messages come stops the listener.
DeathHasCause ==
  [][listener # "dead" /\ listener' = "dead" =>
       \/ listener = "ping"
       \/ message.type = "stray"
       \/ state[message.about] = "Abandoned"
       \/ /\ message.type = "response"
          /\ caller[message.about] = "sent" \/ replies[message.about] > 1
       \/ /\ message.type = "ping_response"
          /\ \/ message.about \notin completed
             \/ tag[message.about] # peerVerkey[message.about]]_vars

\* A connection is found by the key of its peer when onCompleted is called, and stays
\* found, so that later messages of this peer reach their handlers with a connection:
\* only the updateTags of a connect() that has not returned yet can change that.
CompletedStaysFound ==
  [][\A c \in Connection :
       /\ c \in completed' /\ c \notin FoundBy(KeyOf[c])'
       /\ c \in completed => c \in FoundBy(KeyOf[c])
       => caller[c] = "stored" /\ caller'[c] = "returned"]_vars

\* A peer that has answered every ping, and is watched nevertheless.
WatchedInVain(c) == sentPings[c] # None /\ answered[c] >= pinged[c]

\* A connection whose peer shares its key with no other comes to be watched in vain
\* only when the application's sendTrustPing records a ping that has been answered
\* already: never by the listener's own ping, nor by an answer that it processes while
\* other pings are on their way, nor by the tracker.
OnlyLateRecordsMislead ==
  [][\A c \in Connection :
       /\ \A d \in Connection : KeyOf[c] = KeyOf[d] => c = d
       /\ WatchedInVain(c)' /\ ~WatchedInVain(c)
       => pinger[c] = "sent" /\ pinger'[c] = "idle"]_vars

\* A complete connection that has been pinged, and from whose peer no answer to any
\* ping has come, is watched once the call that has sent the ping is over: the removal
\* of an entry by the tracker, be it that of a later ping, leaves none unwatched.
SilentPeersAreTracked ==
  \A c \in Connection :
    /\ state[c] = "Complete"
    /\ pinged[c] > 0
    /\ \A d \in Connection : KeyOf[c] = KeyOf[d] => answered[d] = 0
    /\ pinger[c] = "idle"
    /\ ~(listener = "pinged" /\ message.about = c)
    => sentPings[c] # None

\* A response that the peer sends completes the connection.
ResponseCompletes == \A c \in Connection : replies[c] > 0 ~> c \in completed

\* A peer that does not answer a ping in time is found out: unless the answer
\* comes after all or the tracker has died, the connection is abandoned.
SilentPeerIsAbandoned ==
  \A c \in Connection :
    (sentPings[c] # None /\ sentPings[c] + Timeout < MaxTime)
      ~> (state[c] = "Abandoned" \/ answered[c] = pinged[c] \/ tracker = "dead")

\* The threads together keep the promise of ConnectionLifecycle.
Lifecycle == INSTANCE ConnectionLifecycle WITH
  status <- state, peer <- peerVerkey, answered <- {c \in Connection : replies[c] > 0}

LifecycleSpec == Lifecycle!Spec

=============================================================================
