------------------------ MODULE ConnectionAgent_proofs ------------------------
(***************************************************************************)
(* Theorems about ConnectionAgent, for every set of connections, every     *)
(* assignment of keys, every environment and every value of the bounds.    *)
(***************************************************************************)
EXTENDS ConnectionAgent, FiniteSetTheorems, TLAPS

-----------------------------------------------------------------------------
(***************************************************************************)
(* Types                                                                   *)
(***************************************************************************)

\* A thread in connect() touches the wallet, its pc and the request.
LEMMA CallerTypes ==
  ASSUME TypeOK, NEW c \in Connection, CallerStep(c)
  PROVE  TypeOK'
<1>1. WalletTyped' /\ AppTyped' /\ PeersTyped'
  <2> USE DEF TypeOK, WalletTyped, AppTyped, PeersTyped, UpdateValue, UpdateTags, States,
              CallerPC, CallerStep
  <2>1. CASE Connect(c)
    BY <2>1 DEF Connect
  <2>2. CASE DeclineInvitation(c)
    BY <2>2 DEF DeclineInvitation
  <2>3. CASE SendRequest(c)
    <3>1. WalletTyped' /\ pinger' = pinger /\ appPings' = appPings
      BY <2>3 DEF SendRequest, walletVars
    <3>2. PeersTyped'
      BY <2>3 DEF SendRequest
    <3>3. caller' \in [Connection -> CallerPC]
      BY <2>3 DEF SendRequest
    <3> QED
      BY <3>1, <3>2, <3>3
  <2>4. CASE StoreRequestSent(c)
    BY <2>4 DEF StoreRequestSent
  <2>5. CASE TagRequestSent(c)
    BY <2>5 DEF TagRequestSent
  <2> QED
    BY <2>1, <2>2, <2>3, <2>4, <2>5, CallerStep(c) DEF CallerStep
<1>2. ListenerTyped' /\ TrackerTyped' /\ PingsTyped' /\ HistoryTyped' /\ now' \in Nat
  BY DEF CallerStep, TypeOK, ListenerTyped, TrackerTyped, PingsTyped, HistoryTyped,
         listenerVars, trackerVars, pingVars
<1> QED
  BY <1>1, <1>2 DEF TypeOK

\* A ping is counted wherever it goes.
LEMMA PingLeavesTypes ==
  ASSUME PeersTyped, HistoryTyped, NEW c \in Connection, PingLeaves(c)
  PROVE  /\ atPeer' \in [Connection -> Nat]
         /\ pinged' \in [Connection -> Nat]
BY DEF PeersTyped, HistoryTyped, PingLeaves

\* The map holds timestamps.
LEMMA PutPingTypes ==
  ASSUME TypeOK, NEW c \in Connection, PutPing(c)
  PROVE  PingsTyped'
BY DEF TypeOK, PingsTyped, PutPing, Scanning

LEMMA RemovePingTypes ==
  ASSUME PingsTyped, NEW c \in Connection, RemovePing(c)
  PROVE  PingsTyped'
BY DEF PingsTyped, RemovePing, Scanning

\* A thread in sendTrustPing() touches its pc, the ping and the map.
LEMMA PingerTypes ==
  ASSUME TypeOK, NEW c \in Connection, PingerStep(c)
  PROVE  TypeOK'
<1>1. WalletTyped' /\ ListenerTyped' /\ TrackerTyped' /\ now' \in Nat
  BY DEF PingerStep, TypeOK, WalletTyped, ListenerTyped, TrackerTyped, walletVars,
         listenerVars, trackerVars
<1>2. CASE AppSendPing(c)
  <2>1. atPeer' \in [Connection -> Nat] /\ pinged' \in [Connection -> Nat]
    BY <1>2, PingLeavesTypes DEF AppSendPing, TypeOK
  <2>2. PeersTyped' /\ HistoryTyped' /\ PingsTyped'
    BY <1>2, <2>1 DEF PingerStep, AppSendPing, TypeOK, PeersTyped, HistoryTyped, PingsTyped,
                      pingVars
  <2>3. AppTyped'
    BY <1>2 DEF PingerStep, AppSendPing, TypeOK, AppTyped, PingerPC
  <2> QED
    BY <1>1, <2>2, <2>3 DEF TypeOK
<1>3. CASE AppRecordPing(c)
  <2>1. PingsTyped'
    BY <1>3, PutPingTypes DEF AppRecordPing
  <2>2. PeersTyped' /\ HistoryTyped' /\ AppTyped'
    BY <1>3 DEF PingerStep, AppRecordPing, TypeOK, PeersTyped, HistoryTyped, AppTyped, PingerPC
  <2> QED
    BY <1>1, <2>1, <2>2 DEF TypeOK
<1> QED
  BY <1>2, <1>3 DEF PingerStep

\* The listener touches all but the tracker and the application: what it
\* processes is a message.
LEMMA ListenerTypes ==
  ASSUME TypeOK, ListenerStep
  PROVE  TypeOK'
<1>1. TrackerTyped' /\ AppTyped' /\ now' \in Nat
  BY DEF ListenerStep, TypeOK, TrackerTyped, AppTyped, trackerVars, appVars
<1>2. requested' \subseteq Connection /\ replies' \in [Connection -> Nat] /\ strays' \in Nat
  BY DEF ListenerStep, TypeOK, PeersTyped
<1>3. listener # "receive" => message.about \in Connection /\ message.from \in VerKey
  BY DEF TypeOK, ListenerTyped, Message
<1>4. WalletTyped'
  <2>1. CASE StoreComplete
    BY <1>3, <2>1 DEF StoreComplete, TypeOK, WalletTyped, UpdateValue, States
  <2>2. CASE TagComplete
    BY <1>3, <2>2 DEF TagComplete, TypeOK, WalletTyped, UpdateTags
  <2>3. CASE UNCHANGED walletVars
    BY <2>3 DEF TypeOK, WalletTyped, walletVars
  <2> QED
    BY <2>1, <2>2, <2>3 DEF ListenerStep, ReceiveMessage, ReadResponse, ListenerSendPing,
                            ListenerRecordPing, ReadPingResponse, ReadStray
<1>5. ListenerTyped' /\ inbox' \in Seq(Message)
  <2>1. CASE ReceiveMessage
    <3>1. Head(inbox) \in Message /\ Tail(inbox) \in Seq(Message)
      BY <2>1 DEF ReceiveMessage, TypeOK, PeersTyped
    <3> QED
      BY <2>1, <3>1 DEF ReceiveMessage, TypeOK, ListenerTyped, ListenerPC, FoundBy
  <2> USE DEF TypeOK, ListenerTyped, PeersTyped, ListenerPC
  <2>2. CASE ReadResponse \/ StoreComplete \/ ReadStray
    BY <2>2 DEF ReadResponse, StoreComplete, ReadStray
  <2>3. CASE TagComplete
    BY <1>3, <2>3 DEF TagComplete
  <2>4. CASE ListenerSendPing \/ ListenerRecordPing
    BY <2>4 DEF ListenerSendPing, ListenerRecordPing
  <2>5. CASE ReadPingResponse
    BY <2>5 DEF ReadPingResponse
  <2> QED
    BY <2>1, <2>2, <2>3, <2>4, <2>5 DEF ListenerStep
<1>6. PingsTyped'
  <2>1. CASE ListenerRecordPing
    BY <1>3, <2>1, PutPingTypes DEF ListenerRecordPing
  <2>2. CASE ReadPingResponse /\ context # None
    BY <2>2, RemovePingTypes DEF ReadPingResponse, TypeOK, ListenerTyped
  <2>3. CASE UNCHANGED pingVars
    BY <2>3 DEF TypeOK, PingsTyped, pingVars
  <2> QED
    BY <2>1, <2>2, <2>3 DEF ListenerStep, ReceiveMessage, ReadResponse, StoreComplete,
                            TagComplete, ListenerSendPing, ReadPingResponse, ReadStray
<1>7. atPeer' \in [Connection -> Nat] /\ HistoryTyped'
  <2>1. CASE ListenerSendPing /\ PingLeaves(message.about)
    BY <1>3, <2>1, PingLeavesTypes DEF ListenerSendPing, TypeOK, HistoryTyped
  <2>2. CASE ReadPingResponse /\ context # None
    <3>1. answered' = [answered EXCEPT ![message.about] = @ + 1]
      BY <2>2 DEF ReadPingResponse
    <3>2. answered' \in [Connection -> Nat]
      BY <1>3, <2>2, <3>1 DEF ReadPingResponse, TypeOK, HistoryTyped
    <3> QED
      BY <2>2, <3>2 DEF ReadPingResponse, TypeOK, PeersTyped, HistoryTyped
  <2>3. CASE UNCHANGED <<atPeer, pinged, answered>>
    BY <2>3 DEF TypeOK, PeersTyped, HistoryTyped
  <2> QED
    BY <2>1, <2>2, <2>3 DEF ListenerStep, ReceiveMessage, ReadResponse, StoreComplete,
                            TagComplete, ListenerSendPing, ListenerRecordPing,
                            ReadPingResponse, ReadStray
<1> QED
  BY <1>1, <1>2, <1>4, <1>5, <1>6, <1>7 DEF TypeOK, PeersTyped

\* The tracker touches the wallet and the map: what it aborts is a connection.
LEMMA TrackerTypes ==
  ASSUME TypeOK, TrackerStep
  PROVE  TypeOK'
<1>1. ListenerTyped' /\ PeersTyped' /\ AppTyped' /\ HistoryTyped' /\ now' \in Nat
  BY DEF TrackerStep, TypeOK, ListenerTyped, PeersTyped, AppTyped, HistoryTyped,
         listenerVars, peerVars, appVars, historyVars
<1>2. WalletTyped' /\ TrackerTyped' /\ PingsTyped'
  <2> USE DEF TypeOK, WalletTyped, TrackerTyped, PingsTyped, TrackerPC, walletVars, pingVars
  <2>1. CASE ScanStart
    BY <2>1 DEF ScanStart
  <2>2. CASE ScanNext
    BY <2>2 DEF ScanNext
  <2>3. CASE ScanGet
    BY <2>3 DEF ScanGet
  <2>4. CASE ScanDone
    BY <2>4 DEF ScanDone
  <2>5. CASE AbortRead
    BY <2>5 DEF AbortRead
  <2>6. CASE AbortStore
    BY <2>6 DEF AbortStore, UpdateValue, States
  <2>7. CASE AbortTag
    BY <2>7 DEF AbortTag, UpdateTags
  <2>8. CASE AbortRemove
    BY <2>8, RemovePingTypes DEF AbortRemove
  <2>9. CASE Sleep
    BY <2>9 DEF Sleep
  <2> QED
    BY <2>1, <2>2, <2>3, <2>4, <2>5, <2>6, <2>7, <2>8, <2>9 DEF TrackerStep
<1> QED
  BY <1>1, <1>2 DEF TypeOK

\* What is delivered is a message.
LEMMA DeliverTypes ==
  ASSUME PeersTyped, NEW c \in Connection, NEW type \in MessageType, Deliver(type, c)
  PROVE  inbox' \in Seq(Message)
BY ConstantsAssumption DEF PeersTyped, Deliver, Message

\* The peers touch nothing of the agent but the inbox.
LEMMA PeerTypes ==
  ASSUME TypeOK, NEW c \in Connection, PeerStep(c)
  PROVE  TypeOK'
<1>1. inbox' \in Seq(Message)
  BY DeliverTypes DEF PeerStep, PeerResponds, PeerAnswersPing, PeerSendsStray, MessageType,
                      TypeOK
<1>2. /\ replies' \in [Connection -> Nat]
      /\ atPeer' \in [Connection -> Nat]
      /\ strays' \in Nat
  <2> USE DEF TypeOK, PeersTyped
  <2>1. CASE PeerResponds(c)
    BY <2>1 DEF PeerResponds
  <2>2. CASE PeerAnswersPing(c)
    BY <2>2 DEF PeerAnswersPing
  <2>3. CASE PeerSendsStray(c)
    BY <2>3 DEF PeerSendsStray
  <2> QED
    BY <2>1, <2>2, <2>3 DEF PeerStep
<1>3. /\ WalletTyped' /\ ListenerTyped' /\ TrackerTyped' /\ PingsTyped'
      /\ AppTyped' /\ HistoryTyped' /\ now' \in Nat /\ requested' \subseteq Connection
  BY DEF PeerStep, TypeOK, WalletTyped, ListenerTyped, TrackerTyped, PingsTyped, PeersTyped,
         AppTyped, HistoryTyped, walletVars, listenerVars, trackerVars, pingVars, appVars,
         historyVars
<1> QED
  BY <1>1, <1>2, <1>3 DEF TypeOK, PeersTyped

\* The type invariant holds in every environment.
THEOREM TypeCorrect == Spec => []TypeOK
<1> USE DEF WalletTyped, ListenerTyped, TrackerTyped, PingsTyped, PeersTyped, AppTyped,
            HistoryTyped
<1>1. Init => TypeOK
  <2> SUFFICES ASSUME Init PROVE TypeOK
    OBVIOUS
  <2>1. WalletTyped /\ PingsTyped /\ HistoryTyped /\ now \in Nat
    BY DEF Init, States
  <2>2. ListenerTyped /\ TrackerTyped
    BY DEF Init, ListenerPC, TrackerPC
  <2>3. PeersTyped /\ AppTyped
    BY DEF Init, CallerPC, PingerPC
  <2> QED
    BY <2>1, <2>2, <2>3 DEF TypeOK
<1>2. TypeOK /\ [Next]_vars => TypeOK'
  <2> SUFFICES ASSUME TypeOK, [Next]_vars PROVE TypeOK'
    OBVIOUS
  <2>1. CASE Tick
    BY <2>1 DEF Tick, TypeOK, walletVars, listenerVars, trackerVars, pingVars, peerVars,
                appVars, historyVars
  <2>2. CASE UNCHANGED vars
    BY <2>2 DEF TypeOK, vars, walletVars, listenerVars, trackerVars, pingVars, peerVars,
                appVars, historyVars
  <2> QED
    BY <2>1, <2>2, CallerTypes, PingerTypes, ListenerTypes, TrackerTypes, PeerTypes DEF Next
<1> QED
  BY <1>1, <1>2, PTL DEF Spec

-----------------------------------------------------------------------------
(***************************************************************************)
(* A response cannot overtake its request                                  *)
(***************************************************************************)

\* connect() has stored "RequestSent".
Asked(c) == caller[c] \in {"stored", "returned"}

\* The record follows the thread in connect(); a completed connection never
\* gets back to a state in which it could complete again.
OrderInv ==
  \A c \in Connection :
    /\ c \in requested => caller[c] = "sent" \/ Asked(c)
    /\ state[c] \in {"RequestSent", "Complete"} => Asked(c)
    /\ c \in completed => Asked(c) /\ state[c] \in {"Complete", "Abandoned"}

\* Wherever a response is, the peer has sent it, and it was asked for it.
ReplyInv ==
  /\ \A c \in Connection : replies[c] > 0 => c \in requested
  /\ \A c \in Connection : state[c] = "Complete" => replies[c] > 0
  /\ \A i \in 1..Len(inbox) : inbox[i].type = "response" => replies[inbox[i].about] > 0
  /\ (listener # "receive" /\ message.type = "response") => replies[message.about] > 0

\* What the listener knows while it completes a connection.
ResponseInv ==
  /\ listener \in {"store", "tag", "ping", "pinged"} => message.type = "response"
  /\ listener \in {"store", "tag"} => Asked(message.about) /\ message.about \notin completed
  /\ listener = "tag" => state[message.about] \in {"Complete", "Abandoned"}

ProtocolInv == OrderInv /\ ReplyInv /\ ResponseInv

\* The rest of the inbox, once its head is taken.
LEMMA TailElements ==
  ASSUME NEW S, NEW s \in Seq(S), s # <<>>
  PROVE  /\ Head(s) = s[1] /\ Head(s) \in S /\ 1 \in 1..Len(s)
         /\ Tail(s) \in Seq(S) /\ Len(Tail(s)) = Len(s) - 1
         /\ \A i \in 1..Len(Tail(s)) : i + 1 \in 1..Len(s) /\ Tail(s)[i] = s[i + 1]
OBVIOUS

\* The inbox after a delivery.
LEMMA AppendElements ==
  ASSUME NEW S, NEW s \in Seq(S), NEW m \in S
  PROVE  /\ Append(s, m) \in Seq(S) /\ Len(Append(s, m)) = Len(s) + 1
         /\ \A i \in 1..Len(s) : Append(s, m)[i] = s[i]
         /\ Append(s, m)[Len(s) + 1] = m
         /\ \A i \in 1..Len(Append(s, m)) : i \in 1..Len(s) \/ i = Len(s) + 1
OBVIOUS

LEMMA CallerKeepsProtocol ==
  ASSUME TypeOK, ProtocolInv, NEW c \in Connection, CallerStep(c)
  PROVE  ProtocolInv'
<1> USE DEF TypeOK, WalletTyped, AppTyped, PeersTyped, ListenerTyped, Message, CallerStep,
            UpdateValue, UpdateTags, listenerVars, Asked
<1>1. ReplyInv'
  BY DEF ProtocolInv, OrderInv, ReplyInv, Connect, DeclineInvitation, SendRequest,
         StoreRequestSent, TagRequestSent, walletVars
<1>2. \A d \in Connection : Asked(d) => Asked(d)'
  BY DEF Connect, DeclineInvitation, SendRequest, StoreRequestSent, TagRequestSent, CallerPC
<1>3. \A d \in Connection : Asked(d) /\ ~(d = c /\ caller[c] = "sent") => state'[d] = state[d]
  BY DEF Connect, DeclineInvitation, SendRequest, StoreRequestSent, TagRequestSent, walletVars
<1>4. ResponseInv'
  BY <1>2, <1>3 DEF ProtocolInv, ResponseInv
<1>5. OrderInv'
  BY <1>2 DEF ProtocolInv, OrderInv, Connect, DeclineInvitation, SendRequest,
              StoreRequestSent, TagRequestSent, walletVars, CallerPC
<1> QED
  BY <1>1, <1>4, <1>5 DEF ProtocolInv

LEMMA ListenerKeepsProtocol ==
  ASSUME TypeOK, ProtocolInv, ListenerStep
  PROVE  ProtocolInv'
<1>1. /\ caller' = caller /\ requested' = requested /\ replies' = replies
      /\ replies \in [Connection -> Nat]
  BY DEF ListenerStep, appVars, TypeOK, PeersTyped
<1>2. listener # "receive" => message \in Message /\ message.about \in Connection
  BY DEF TypeOK, ListenerTyped, Message
<1>3. CASE ReceiveMessage
  <2>1. ReplyInv'
    <3>1. /\ inbox \in Seq(Message) /\ inbox # <<>>
          /\ message' = Head(inbox) /\ inbox' = Tail(inbox) /\ state' = state
      BY <1>3 DEF ReceiveMessage, TypeOK, PeersTyped, walletVars
    <3> QED
      BY <1>1, <3>1, TailElements DEF ProtocolInv, ReplyInv
  <2>2. OrderInv' /\ ResponseInv'
    BY <1>1, <1>3 DEF ReceiveMessage, ProtocolInv, OrderInv, ResponseInv, Asked, walletVars
  <2> QED
    BY <2>1, <2>2 DEF ProtocolInv
<1>4. CASE ReadResponse
  BY <1>1, <1>2, <1>4 DEF ReadResponse, ProtocolInv, OrderInv, ReplyInv, ResponseInv, Asked,
                          walletVars
<1>5. CASE StoreComplete
  <2>1. /\ state' = [state EXCEPT ![message.about] = "Complete"]
        /\ state \in [Connection -> States]
        /\ UNCHANGED <<inbox, message, completed>>
        /\ listener = "store" /\ listener' = "tag"
    BY <1>5 DEF StoreComplete, UpdateValue, TypeOK, WalletTyped
  <2> QED
    BY <1>1, <1>2, <2>1 DEF ProtocolInv, OrderInv, ReplyInv, ResponseInv, Asked
<1>6. CASE TagComplete
  BY <1>1, <1>2, <1>6 DEF TagComplete, ProtocolInv, OrderInv, ReplyInv, ResponseInv, Asked
<1>7. CASE ListenerSendPing \/ ListenerRecordPing \/ ReadPingResponse \/ ReadStray
  BY <1>1, <1>2, <1>7 DEF ListenerSendPing, ListenerRecordPing, ReadPingResponse, ReadStray,
                          ProtocolInv, OrderInv, ReplyInv, ResponseInv, Asked, walletVars
<1> QED
  BY <1>3, <1>4, <1>5, <1>6, <1>7 DEF ListenerStep

LEMMA TrackerKeepsProtocol ==
  ASSUME TypeOK, ProtocolInv, TrackerStep
  PROVE  ProtocolInv'
<1>1. UNCHANGED <<listenerVars, peerVars, appVars>>
  BY DEF TrackerStep
<1>2. CASE AbortStore
  <2>1. /\ state' = [state EXCEPT ![current] = "Abandoned"]
        /\ state \in [Connection -> States]
        /\ current \in Connection
    BY <1>2 DEF AbortStore, UpdateValue, TypeOK, WalletTyped, TrackerTyped
  <2> QED
    BY <1>1, <2>1 DEF ProtocolInv, OrderInv, ReplyInv, ResponseInv, Asked, listenerVars,
                      peerVars, appVars, TypeOK, ListenerTyped, Message
<1>3. CASE state' = state
  BY <1>1, <1>3 DEF ProtocolInv, OrderInv, ReplyInv, ResponseInv, Asked, listenerVars,
                    peerVars, appVars
<1> QED
  BY <1>2, <1>3 DEF TrackerStep, ScanStart, ScanNext, ScanGet, ScanDone, AbortRead, AbortTag,
                    AbortRemove, Sleep, walletVars

LEMMA PeerKeepsProtocol ==
  ASSUME TypeOK, ProtocolInv, NEW c \in Connection, PeerStep(c)
  PROVE  ProtocolInv'
<1>1. /\ UNCHANGED <<walletVars, listenerVars, requested, appVars>>
      /\ replies \in [Connection -> Nat] /\ inbox \in Seq(Message)
  BY DEF PeerStep, TypeOK, PeersTyped
<1>2. OrderInv' /\ ResponseInv'
  BY <1>1 DEF ProtocolInv, OrderInv, ResponseInv, Asked, walletVars, listenerVars, appVars
<1>3. PICK type \in MessageType :
        /\ Deliver(type, c)
        /\ type = "response" => c \in requested /\ replies' = [replies EXCEPT ![c] = @ + 1]
        /\ type # "response" => replies' = replies
  BY DEF PeerStep, PeerResponds, PeerAnswersPing, PeerSendsStray, MessageType
<1>4. \A d \in Connection : /\ replies[d] > 0 => replies'[d] > 0
                            /\ replies'[d] > 0 => d \in requested
  BY <1>1, <1>3 DEF ProtocolInv, ReplyInv
<1>5. type = "response" => replies'[c] > 0
  BY <1>1, <1>3
<1> DEFINE m == [type |-> type, about |-> c, from |-> KeyOf[c]]
<1>6. m \in Message /\ m.type = type /\ m.about = c /\ inbox' = Append(inbox, m)
  BY <1>3, ConstantsAssumption DEF Deliver, Message
<1> HIDE DEF m
<1>7. \A i \in 1..Len(inbox) : inbox[i].about \in Connection
  <2>1. \A i \in 1..Len(inbox) : inbox[i] \in Message
    BY <1>1
  <2> QED
    BY <2>1 DEF Message
<1>8. \A i \in 1..Len(inbox') : inbox'[i].type = "response" => replies'[inbox'[i].about] > 0
  BY <1>1, <1>4, <1>5, <1>6, <1>7, AppendElements DEF ProtocolInv, ReplyInv
<1>9. ReplyInv'
  BY <1>1, <1>4, <1>8 DEF ProtocolInv, ReplyInv, walletVars, listenerVars, TypeOK,
                          ListenerTyped, Message
<1> QED
  BY <1>2, <1>9 DEF ProtocolInv

\* Every step of every environment keeps the invariant.
LEMMA NextKeepsProtocol ==
  ASSUME TypeOK, ProtocolInv, [Next]_vars
  PROVE  ProtocolInv'
<1> USE DEF ProtocolInv, OrderInv, ReplyInv, ResponseInv, Asked
<1>1. ASSUME NEW c \in Connection, PingerStep(c)
      PROVE  ProtocolInv'
  BY <1>1 DEF PingerStep, AppSendPing, AppRecordPing, walletVars, listenerVars
<1>2. CASE Tick \/ UNCHANGED vars
  BY <1>2 DEF Tick, vars, walletVars, listenerVars, peerVars, appVars
<1> QED
  BY <1>1, <1>2, CallerKeepsProtocol, ListenerKeepsProtocol, TrackerKeepsProtocol,
     PeerKeepsProtocol DEF Next

LEMMA ProtocolCorrect == Spec => []ProtocolInv
<1>1. Init => ProtocolInv
  BY DEF Init, ProtocolInv, OrderInv, ReplyInv, ResponseInv, Asked
<1>2. TypeOK /\ ProtocolInv /\ [Next]_vars => ProtocolInv'
  BY NextKeepsProtocol
<1> QED
  BY <1>1, <1>2, TypeCorrect, PTL DEF Spec

\* However the threads and the peers interleave, a record is "Complete" only
\* after connect() has stored "RequestSent" and the peer has answered.
THEOREM CompleteIsAnswered == Spec => []CompleteOnlyAfterResponse
<1>1. ProtocolInv => CompleteOnlyAfterResponse
  BY DEF ProtocolInv, OrderInv, ReplyInv, Asked, CompleteOnlyAfterResponse
<1> QED
  BY <1>1, ProtocolCorrect, PTL

\* onCompleted is called at most once for a connection.
THEOREM CompletionIsUnique == Spec => CompletedOnce
<1>1. ProtocolInv /\ [Next]_vars
        => [(listener = "tag" /\ listener' = "ping") => message.about \notin completed]_vars
  BY DEF ProtocolInv, ResponseInv
<1> QED
  BY <1>1, ProtocolCorrect, PTL DEF Spec, CompletedOnce

-----------------------------------------------------------------------------
(***************************************************************************)
(* No response is passed over                                              *)
(***************************************************************************)

InInbox(c) == \E i \in 1..Len(inbox) : inbox[i].type = "response" /\ inbox[i].about = c

InHands(c) ==
  /\ listener \in {"dispatch", "store", "tag"}
  /\ message.type = "response" /\ message.about = c

LEMMA ListenerKeepsResponses ==
  ASSUME TypeOK, ResponsesAreKept, ListenerStep
  PROVE  ResponsesAreKept'
<1> SUFFICES ASSUME listener' # "dead", NEW c \in Connection, replies'[c] > 0
             PROVE  (c \in completed \/ InInbox(c) \/ InHands(c))'
  BY DEF ResponsesAreKept, InInbox, InHands
<1>1. listener # "dead"
  BY DEF ListenerStep, ReceiveMessage, ReadResponse, StoreComplete, TagComplete,
         ListenerSendPing, ListenerRecordPing, ReadPingResponse, ReadStray
<1>2. c \in completed \/ InInbox(c) \/ InHands(c)
  BY <1>1 DEF ListenerStep, ResponsesAreKept, InInbox, InHands
<1>3. CASE ReceiveMessage
  <2>1. /\ listener' = "dispatch" /\ completed' = completed /\ listener = "receive"
        /\ inbox # <<>> /\ message' = Head(inbox) /\ inbox' = Tail(inbox)
        /\ inbox \in Seq(Message)
    BY <1>3 DEF ReceiveMessage, TypeOK, PeersTyped
  <2>2. ~InHands(c)
    BY <2>1 DEF InHands
  <2>3. CASE c \in completed
    BY <2>1, <2>3
  <2>4. CASE InInbox(c)
    <3>1. PICK i \in 1..Len(inbox) : inbox[i].type = "response" /\ inbox[i].about = c
      BY <2>4 DEF InInbox
    <3>2. CASE i = 1
      BY <2>1, <3>1, <3>2, TailElements DEF InHands
    <3>3. CASE i # 1
      <4>1. i - 1 \in 1..Len(inbox') /\ i = (i - 1) + 1
        BY <2>1, <3>3, TailElements
      <4>2. inbox'[i - 1] = inbox[i]
        BY <2>1, <4>1, TailElements
      <4> QED
        BY <3>1, <4>1, <4>2 DEF InInbox
    <3> QED
      BY <3>2, <3>3
  <2> QED
    BY <1>2, <2>2, <2>3, <2>4
<1>4. CASE ReadResponse \/ StoreComplete
  BY <1>2, <1>4 DEF ReadResponse, StoreComplete, InInbox, InHands
<1>5. CASE TagComplete
  BY <1>2, <1>5 DEF TagComplete, InInbox, InHands
<1>6. CASE ListenerSendPing \/ ListenerRecordPing
  BY <1>2, <1>6 DEF ListenerSendPing, ListenerRecordPing, InInbox, InHands
<1>7. CASE ReadPingResponse \/ ReadStray
  BY <1>2, <1>7 DEF ReadPingResponse, ReadStray, InInbox, InHands
<1> QED
  BY <1>3, <1>4, <1>5, <1>6, <1>7 DEF ListenerStep

LEMMA PeerKeepsResponses ==
  ASSUME TypeOK, ResponsesAreKept, NEW d \in Connection, PeerStep(d)
  PROVE  ResponsesAreKept'
<1>1. UNCHANGED listenerVars /\ replies \in [Connection -> Nat] /\ inbox \in Seq(Message)
  BY DEF PeerStep, TypeOK, PeersTyped
<1>2. PICK type \in MessageType :
        /\ Deliver(type, d)
        /\ \A c \in Connection : c # d \/ type # "response" => replies'[c] = replies[c]
  BY <1>1 DEF PeerStep, PeerResponds, PeerAnswersPing, PeerSendsStray, MessageType
<1> DEFINE m == [type |-> type, about |-> d, from |-> KeyOf[d]]
<1>3. m \in Message /\ m.type = type /\ m.about = d /\ inbox' = Append(inbox, m)
  BY <1>2, ConstantsAssumption DEF Deliver, Message
<1> HIDE DEF m
<1>4. /\ \A i \in 1..Len(inbox) : i \in 1..Len(inbox') /\ inbox'[i] = inbox[i]
      /\ Len(inbox') \in 1..Len(inbox') /\ inbox'[Len(inbox')] = m
  BY <1>1, <1>3, AppendElements
<1>5. \A c \in Connection : InInbox(c) => InInbox(c)'
  BY <1>4 DEF InInbox
<1>6. type = "response" => InInbox(d)'
  BY <1>3, <1>4 DEF InInbox
<1>7. ASSUME listener # "dead", NEW c \in Connection, replies'[c] > 0
      PROVE  c \in completed \/ InInbox(c)' \/ InHands(c)
  <2>1. CASE replies'[c] = replies[c]
    BY <1>5, <1>7, <2>1 DEF ResponsesAreKept, InInbox, InHands
  <2>2. CASE c = d /\ type = "response"
    BY <1>6, <2>2
  <2> QED
    BY <1>2, <2>1, <2>2
<1> QED
  BY <1>1, <1>7 DEF ResponsesAreKept, InInbox, InHands, listenerVars

\* Whatever the peers send and the threads do, a listener that lives completes a
\* connection with the response or still has it before it
\* (ReceiveConnectionResponseAction, listen()).
THEOREM NoResponseIsLost == Spec => []ResponsesAreKept
<1>1. Init => ResponsesAreKept
  BY DEF Init, ResponsesAreKept
<1>2. TypeOK /\ ResponsesAreKept /\ [Next]_vars => ResponsesAreKept'
  <2> SUFFICES ASSUME TypeOK, ResponsesAreKept, [Next]_vars
               PROVE  ResponsesAreKept'
    OBVIOUS
  <2>1. CASE UNCHANGED <<listenerVars, inbox, replies>>
    BY <2>1 DEF ResponsesAreKept, listenerVars
  <2>2. ASSUME NEW c \in Connection, CallerStep(c) \/ PingerStep(c)
        PROVE  ResponsesAreKept'
    BY <2>1, <2>2 DEF CallerStep, PingerStep
  <2>3. CASE TrackerStep \/ Tick \/ UNCHANGED vars
    BY <2>1, <2>3 DEF TrackerStep, Tick, vars, peerVars
  <2> QED
    BY <2>2, <2>3, ListenerKeepsResponses, PeerKeepsResponses DEF Next
<1> QED
  BY <1>1, <1>2, TypeCorrect, PTL DEF Spec

-----------------------------------------------------------------------------
(***************************************************************************)
(* Keys: by what a message and a record are found                          *)
(***************************************************************************)

\* A message about a connection is signed with the key of its peer.
SenderInv ==
  /\ \A i \in 1..Len(inbox) : inbox[i].from = KeyOf[inbox[i].about]
  /\ listener # "receive" => message.from = KeyOf[message.about]

\* A key in a record is that of the connection's peer, so that the record a message is
\* dispatched with is one of its sender.
TagsAreKeys ==
  /\ \A c \in Connection : {tag[c], peerVerkey[c]} \subseteq {None, KeyOf[c]}
  /\ tracker \in {"store", "tag"} => readVerkey \in {None, KeyOf[current]}
  /\ listener = "dispatch" /\ context # None => KeyOf[context] = message.from

KeysInv == SenderInv /\ TagsAreKeys

\* The types of the threads' state, as far as the lemmas below need them.
LEMMA ThreadTypes ==
  ASSUME TypeOK
  PROVE  /\ inbox \in Seq(Message)
         /\ \A i \in 1..Len(inbox) : inbox[i] \in Message /\ inbox[i].about \in Connection
         /\ listener # "receive" => message \in Message /\ message.about \in Connection
         /\ state \in [Connection -> States]
         /\ peerVerkey \in [Connection -> VerKey \cup {None}]
         /\ tag \in [Connection -> VerKey \cup {None}]
         /\ caller \in [Connection -> CallerPC]
         /\ replies \in [Connection -> Nat]
         /\ completed \subseteq Connection
         /\ tracker \in {"get", "store", "tag", "remove"} => current \in Connection
         /\ dead \subseteq Connection
         /\ sentPings \in [Connection -> Nat \cup {None}]
         /\ atPeer \in [Connection -> Nat]
         /\ pinged \in [Connection -> Nat] /\ answered \in [Connection -> Nat]
         /\ context \in Connection \cup {None}
         /\ now \in Nat
<1>1. \A i \in 1..Len(inbox) : inbox[i] \in Message
  BY DEF TypeOK, PeersTyped
<1> QED
  BY <1>1 DEF TypeOK, WalletTyped, ListenerTyped, TrackerTyped, PingsTyped, PeersTyped,
              AppTyped, HistoryTyped, Message

\* The inbox after one message has been taken from it.
LEMMA InboxShifts ==
  ASSUME TypeOK, ReceiveMessage
  PROVE  /\ message' = inbox[1] /\ 1 \in 1..Len(inbox)
         /\ \A i \in 1..Len(inbox') : /\ i + 1 \in 1..Len(inbox) /\ i + 1 # 1
                                      /\ inbox'[i] = inbox[i + 1]
         /\ \A i, j \in 1..Len(inbox') : i + 1 = j + 1 => i = j
<1>1. /\ inbox # <<>> /\ message' = Head(inbox) /\ inbox' = Tail(inbox)
      /\ inbox \in Seq(Message)
  BY ThreadTypes DEF ReceiveMessage
<1>2. \A i \in 1..Len(inbox') : i + 1 # 1
  BY <1>1, TailElements
<1> QED
  BY <1>1, <1>2, TailElements

\* A peer adds one message, which names its connection and is signed with its key.
LEMMA PeerAppends ==
  ASSUME TypeOK, NEW c \in Connection, PeerStep(c)
  PROVE  \E m \in Message :
           /\ inbox' = Append(inbox, m) /\ m.about = c /\ m.from = KeyOf[c]
           /\ Len(inbox) \in Nat /\ Len(inbox') = Len(inbox) + 1
           /\ \A i \in 1..Len(inbox) : inbox'[i] = inbox[i]
           /\ inbox'[Len(inbox) + 1] = m
           /\ \A i \in 1..Len(inbox') : i \in 1..Len(inbox) \/ i = Len(inbox) + 1
           /\ \/ m.type = "response" /\ PeerResponds(c)
              \/ m.type = "ping_response" /\ PeerAnswersPing(c)
              \/ m.type = "stray" /\ PeerSendsStray(c)
<1>1. PICK m \in Message :
        /\ inbox' = Append(inbox, m) /\ m.about = c /\ m.from = KeyOf[c]
        /\ \/ m.type = "response" /\ PeerResponds(c)
           \/ m.type = "ping_response" /\ PeerAnswersPing(c)
           \/ m.type = "stray" /\ PeerSendsStray(c)
  BY ConstantsAssumption DEF PeerStep, PeerResponds, PeerAnswersPing, PeerSendsStray, Deliver,
                             Message, MessageType
<1>2. /\ Len(inbox) \in Nat /\ Len(inbox') = Len(inbox) + 1
      /\ \A i \in 1..Len(inbox) : inbox'[i] = inbox[i]
      /\ inbox'[Len(inbox) + 1] = m
      /\ \A i \in 1..Len(inbox') : i \in 1..Len(inbox) \/ i = Len(inbox) + 1
  BY <1>1, ThreadTypes, AppendElements
<1> QED
  BY <1>1, <1>2

\* What connect() may do to the key and the tag of its record.
LEMMA CallerClearsKeys ==
  ASSUME TypeOK, NEW c \in Connection, CallerStep(c)
  PROVE  /\ UNCHANGED <<listenerVars, trackerVars, inbox, replies, sentPings, atPeer, pinged,
                        answered, pinger>>
         /\ \A d \in Connection : d # c =>
              /\ state'[d] = state[d] /\ peerVerkey'[d] = peerVerkey[d]
              /\ tag'[d] = tag[d] /\ caller'[d] = caller[d]
         /\ tag'[c] \in {tag[c], None} /\ peerVerkey'[c] \in {peerVerkey[c], None}
         /\ Asked(c) => state'[c] = state[c] /\ peerVerkey'[c] = peerVerkey[c] /\ Asked(c)'
         /\ ~Asked(c) /\ Asked(c)' => state'[c] = "RequestSent" /\ caller[c] = "sent"
BY ThreadTypes DEF CallerStep, Connect, DeclineInvitation, SendRequest, StoreRequestSent,
     TagRequestSent, UpdateValue, UpdateTags, walletVars, pingVars, Asked

LEMMA ListenerKeepsKeys ==
  ASSUME TypeOK, KeysInv, ListenerStep
  PROVE  KeysInv'
<1>1. UNCHANGED trackerVars
  BY DEF ListenerStep
<1>2. CASE ReceiveMessage
  <2>1. SenderInv'
    BY <1>2, InboxShifts DEF KeysInv, SenderInv
  <2>2. context' # None => KeyOf[context'] = message'.from
    <3>1. /\ message' = Head(inbox)
          /\ context' \in FoundBy(message'.from) \/ context' = None
      BY <1>2 DEF ReceiveMessage
    <3>2. message'.from # None
      <4>1. message' \in Message
        BY <1>2, InboxShifts, ThreadTypes
      <4> QED
        BY <4>1, ConstantsAssumption DEF Message
    <3> QED
      BY <3>1, <3>2 DEF FoundBy, KeysInv, TagsAreKeys
  <2>3. TagsAreKeys'
    BY <1>1, <1>2, <2>2 DEF ReceiveMessage, KeysInv, TagsAreKeys, walletVars, trackerVars
  <2> QED
    BY <2>1, <2>3 DEF KeysInv
<1>3. CASE StoreComplete
  BY <1>1, <1>3, ThreadTypes DEF StoreComplete, UpdateValue, KeysInv, SenderInv, TagsAreKeys,
                                 trackerVars
<1>4. CASE TagComplete
  BY <1>1, <1>4, ThreadTypes DEF TagComplete, UpdateTags, KeysInv, SenderInv, TagsAreKeys,
                                 trackerVars
<1>5. CASE ReadResponse \/ ListenerSendPing \/ ListenerRecordPing \/ ReadPingResponse
             \/ ReadStray
  <2>1. /\ UNCHANGED <<walletVars, inbox>> /\ listener' # "dispatch"
        /\ listener' # "receive" => listener # "receive" /\ message' = message
    BY <1>5 DEF ReadResponse, ListenerSendPing, ListenerRecordPing, ReadPingResponse, ReadStray
  <2> QED
    BY <1>1, <2>1 DEF KeysInv, SenderInv, TagsAreKeys, walletVars, trackerVars
<1> QED
  BY <1>2, <1>3, <1>4, <1>5 DEF ListenerStep

LEMMA TrackerKeepsKeys ==
  ASSUME TypeOK, KeysInv, TrackerStep
  PROVE  KeysInv'
<1>1. UNCHANGED <<listenerVars, inbox>>
  BY DEF TrackerStep, peerVars
<1>2. SenderInv'
  BY <1>1 DEF KeysInv, SenderInv, listenerVars
<1>3. TagsAreKeys'
  <2>1. CASE AbortRead
    BY <1>1, <2>1, ThreadTypes DEF AbortRead, KeysInv, TagsAreKeys, walletVars, listenerVars
  <2>2. CASE AbortStore
    BY <1>1, <2>2, ThreadTypes DEF AbortStore, UpdateValue, KeysInv, TagsAreKeys, listenerVars
  <2>3. CASE AbortTag
    BY <1>1, <2>3, ThreadTypes DEF AbortTag, UpdateTags, KeysInv, TagsAreKeys, listenerVars
  <2>4. CASE UNCHANGED walletVars /\ tracker' \notin {"store", "tag"}
    BY <1>1, <2>4 DEF KeysInv, TagsAreKeys, walletVars, listenerVars
  <2> QED
    BY <2>1, <2>2, <2>3, <2>4 DEF TrackerStep, ScanStart, ScanNext, ScanGet, ScanDone,
                                  AbortRemove, Sleep
<1> QED
  BY <1>2, <1>3 DEF KeysInv

LEMMA NextKeepsKeys ==
  ASSUME TypeOK, KeysInv, [Next]_vars
  PROVE  KeysInv'
<1>1. ASSUME NEW c \in Connection, CallerStep(c)
      PROVE  KeysInv'
  BY <1>1, CallerClearsKeys DEF KeysInv, SenderInv, TagsAreKeys, listenerVars, trackerVars
<1>2. ASSUME NEW c \in Connection, PeerStep(c)
      PROVE  KeysInv'
  <2>1. UNCHANGED <<walletVars, listenerVars, trackerVars>>
    BY <1>2 DEF PeerStep
  <2>2. SenderInv'
    BY <1>2, <2>1, PeerAppends DEF KeysInv, SenderInv, listenerVars
  <2> QED
    BY <2>1, <2>2 DEF KeysInv, TagsAreKeys, walletVars, listenerVars, trackerVars
<1>3. CASE UNCHANGED <<walletVars, listenerVars, trackerVars, inbox>>
  BY <1>3 DEF KeysInv, SenderInv, TagsAreKeys, walletVars, listenerVars, trackerVars
<1>4. ASSUME NEW c \in Connection, PingerStep(c)
      PROVE  KeysInv'
  BY <1>3, <1>4 DEF PingerStep
<1>5. CASE Tick \/ UNCHANGED vars
  BY <1>3, <1>5 DEF Tick, vars, peerVars
<1> QED
  BY <1>1, <1>2, <1>4, <1>5, ListenerKeepsKeys, TrackerKeepsKeys DEF Next

LEMMA KeysCorrect == Spec => []KeysInv
<1>1. Init => KeysInv
  BY DEF Init, KeysInv, SenderInv, TagsAreKeys
<1>2. TypeOK /\ KeysInv /\ [Next]_vars => KeysInv'
  BY NextKeepsKeys
<1> QED
  BY <1>1, <1>2, TypeCorrect, PTL DEF Spec

-----------------------------------------------------------------------------
(***************************************************************************)
(* What stops the listener                                                 *)
(***************************************************************************)

\* The listener completes c, or has done so.
Completing(c) == c \in completed \/ (listener = "tag" /\ message.about = c)

\* The listener has taken a response about c and not yet completed c.
Held(c) ==
  /\ listener \in {"dispatch", "store"}
  /\ message.type = "response" /\ message.about = c

\* A record that has been asked for has left START; it has a key while it is complete,
\* and only because the listener has completed it.  What the tracker has read of a
\* record with a key is no older than that, so that it leaves it abandoned.
CompletionInv ==
  /\ \A c \in Connection :
       /\ Asked(c) => state[c] \in {"RequestSent", "Complete", "Abandoned"}
       /\ state[c] = "Complete" => peerVerkey[c] = KeyOf[c]
       /\ peerVerkey[c] # None => Completing(c)
  /\ tracker \in {"store", "tag"} /\ readVerkey # None => Completing(current)
  /\ tracker = "tag" /\ readVerkey # None => state[current] = "Abandoned"

\* A response that is the first and only one finds a connection that has not completed.
FirstResponseInv ==
  /\ \A i \in 1..Len(inbox) :
       inbox[i].type = "response" /\ replies[inbox[i].about] <= 1 =>
         state[inbox[i].about] # "Complete" /\ ~Held(inbox[i].about)
  /\ \A i, j \in 1..Len(inbox) :
       /\ inbox[i].type = "response" /\ inbox[j].type = "response"
       /\ inbox[i].about = inbox[j].about /\ replies[inbox[i].about] <= 1
       => i = j
  /\ \A c \in Connection : Held(c) /\ replies[c] <= 1 => state[c] # "Complete"

\* The sender of a ping response that is not found by its key has lost its tag.
UnfoundInv ==
  /\ listener = "dispatch" /\ message.type = "ping_response" /\ context = None
  /\ message.about \in completed /\ state[message.about] # "Abandoned"
  => tag[message.about] # KeyOf[message.about]

CauseInv == CompletionInv /\ FirstResponseInv /\ UnfoundInv

LEMMA CallerKeepsCause ==
  ASSUME TypeOK, ProtocolInv, CauseInv, NEW c \in Connection, CallerStep(c)
  PROVE  CauseInv'
<1>1. /\ UNCHANGED <<listenerVars, trackerVars, inbox, replies>>
      /\ \A d \in Connection : d # c => /\ state'[d] = state[d] /\ caller'[d] = caller[d]
                                        /\ peerVerkey'[d] = peerVerkey[d] /\ tag'[d] = tag[d]
      /\ tag'[c] \in {tag[c], None} /\ peerVerkey'[c] \in {peerVerkey[c], None}
      /\ Asked(c) => state'[c] = state[c] /\ peerVerkey'[c] = peerVerkey[c] /\ Asked(c)'
      /\ ~Asked(c) /\ Asked(c)' => state'[c] = "RequestSent" /\ caller[c] = "sent"
  BY CallerClearsKeys
<1>2. state'[c] = "Complete" => state[c] = "Complete" /\ Asked(c)
  BY ThreadTypes DEF CallerStep, Connect, DeclineInvitation, SendRequest, StoreRequestSent,
     TagRequestSent, UpdateValue, walletVars, ProtocolInv, OrderInv
<1>3. CompletionInv'
  <2>1. \A d \in Connection :
          /\ Asked(d)' => state'[d] \in {"RequestSent", "Complete", "Abandoned"}
          /\ state'[d] = "Complete" => peerVerkey'[d] = KeyOf[d]
          /\ peerVerkey'[d] # None => Completing(d)'
    BY <1>1, <1>2 DEF CauseInv, CompletionInv, Asked, Completing, listenerVars
  <2>2. tracker \in {"store", "tag"} /\ readVerkey # None =>
          current \in Connection /\ Asked(current)
    BY ThreadTypes DEF CauseInv, CompletionInv, Completing, ProtocolInv, OrderInv, ReplyInv,
                       ResponseInv
  <2> QED
    BY <1>1, <2>1, <2>2 DEF CauseInv, CompletionInv, Completing, listenerVars, trackerVars
<1>4. FirstResponseInv'
  <2>1. \A d \in Connection : state'[d] = "Complete" => state[d] = "Complete"
    BY <1>1, <1>2
  <2> QED
    BY <1>1, <2>1, ThreadTypes DEF CauseInv, FirstResponseInv, Held, listenerVars
<1>5. UnfoundInv'
  BY <1>1, ConstantsAssumption, ThreadTypes DEF CauseInv, UnfoundInv, ProtocolInv, OrderInv,
       listenerVars
<1> QED
  BY <1>3, <1>4, <1>5 DEF CauseInv

LEMMA ListenerKeepsCause ==
  ASSUME TypeOK, ProtocolInv, KeysInv, CauseInv, ListenerStep
  PROVE  CauseInv'
<1>1. UNCHANGED <<trackerVars, replies, caller>>
  BY DEF ListenerStep, appVars
<1>2. CASE ReceiveMessage
  <2>1. /\ UNCHANGED <<walletVars, completed>> /\ listener = "receive" /\ listener' = "dispatch"
        /\ context' \in FoundBy(message'.from)
             \/ (FoundBy(message'.from) = {} /\ context' = None)
    BY <1>2 DEF ReceiveMessage
  <2>2. CompletionInv'
    BY <1>1, <2>1 DEF CauseInv, CompletionInv, Completing, Asked, walletVars, trackerVars
  <2>3. FirstResponseInv'
    <3>1. /\ message' = inbox[1] /\ 1 \in 1..Len(inbox)
          /\ \A i \in 1..Len(inbox') : i + 1 \in 1..Len(inbox) /\ i + 1 # 1
                                       /\ inbox'[i] = inbox[i + 1]
          /\ \A i, j \in 1..Len(inbox') : i + 1 = j + 1 => i = j
      BY <1>2, InboxShifts
    <3>2. ASSUME NEW i \in 1..Len(inbox'), inbox'[i].type = "response",
                 replies[inbox'[i].about] <= 1
          PROVE  /\ state[inbox'[i].about] # "Complete"
                 /\ message'.type = "response" => message'.about # inbox'[i].about
      BY <3>1, <3>2 DEF CauseInv, FirstResponseInv
    <3>3. ASSUME NEW i \in 1..Len(inbox'), NEW j \in 1..Len(inbox'),
                 inbox'[i].type = "response", inbox'[j].type = "response",
                 inbox'[i].about = inbox'[j].about, replies[inbox'[i].about] <= 1
          PROVE  i = j
      BY <3>1, <3>3 DEF CauseInv, FirstResponseInv
    <3>4. message'.type = "response" /\ replies[message'.about] <= 1 =>
            state[message'.about] # "Complete"
      BY <3>1 DEF CauseInv, FirstResponseInv
    <3> QED
      BY <1>1, <2>1, <3>2, <3>3, <3>4 DEF FirstResponseInv, Held, walletVars
  <2>4. UnfoundInv'
    <3>1. message'.from = KeyOf[message'.about] /\ message'.about \in Connection
      BY <1>2, InboxShifts, ThreadTypes DEF KeysInv, SenderInv
    <3>2. context' # None \/ message'.about \notin FoundBy(message'.from)
      BY <2>1, ConstantsAssumption DEF FoundBy
    <3> QED
      BY <2>1, <3>1, <3>2 DEF UnfoundInv, FoundBy, walletVars
  <2> QED
    BY <2>2, <2>3, <2>4 DEF CauseInv
<1>3. CASE StoreComplete
  <2>1. /\ state' = [state EXCEPT ![message.about] = "Complete"]
        /\ peerVerkey' = [peerVerkey EXCEPT ![message.about] = message.from]
        /\ UNCHANGED <<tag, inbox, message, completed>>
        /\ listener = "store" /\ listener' = "tag"
    BY <1>3 DEF StoreComplete, UpdateValue
  <2>2. /\ message.about \in Connection /\ message.from = KeyOf[message.about]
        /\ message.type = "response" /\ message.about \notin completed
    BY <2>1, ThreadTypes DEF ProtocolInv, ResponseInv, KeysInv, SenderInv
  <2>3. CompletionInv'
    <3>1. \A c \in Connection :
            /\ Asked(c)' => state'[c] \in {"RequestSent", "Complete", "Abandoned"}
            /\ state'[c] = "Complete" => peerVerkey'[c] = KeyOf[c]
            /\ peerVerkey'[c] # None => Completing(c)'
      BY <1>1, <2>1, <2>2, ThreadTypes DEF CauseInv, CompletionInv, Completing, Asked
    <3>2. tracker \in {"store", "tag"} /\ readVerkey # None =>
            current \in completed /\ current # message.about /\ current \in Connection
      BY <2>1, <2>2, ThreadTypes DEF CauseInv, CompletionInv, Completing
    <3> QED
      BY <1>1, <2>1, <3>1, <3>2, ThreadTypes DEF CauseInv, CompletionInv, Completing,
                                                 trackerVars
  <2>4. FirstResponseInv'
    <3>1. \A i \in 1..Len(inbox) : inbox[i].type = "response"
             /\ replies[inbox[i].about] <= 1 => inbox[i].about # message.about
      BY <2>1, <2>2 DEF CauseInv, FirstResponseInv, Held
    <3> QED
      BY <1>1, <2>1, <2>2, <3>1, ThreadTypes DEF CauseInv, FirstResponseInv, Held
  <2>5. UnfoundInv'
    BY <2>1 DEF UnfoundInv
  <2> QED
    BY <2>3, <2>4, <2>5 DEF CauseInv
<1>4. CASE TagComplete
  <2>1. /\ completed' = completed \cup {message.about}
        /\ UNCHANGED <<state, peerVerkey, inbox, message>>
        /\ listener = "tag" /\ listener' = "ping"
    BY <1>4 DEF TagComplete
  <2> QED
    BY <1>1, <2>1, ThreadTypes DEF CauseInv, CompletionInv, FirstResponseInv, UnfoundInv,
                                   Completing, Held, Asked, trackerVars
<1>5. CASE ReadResponse \/ ListenerSendPing \/ ListenerRecordPing \/ ReadPingResponse
             \/ ReadStray
  <2>1. /\ UNCHANGED <<walletVars, inbox, completed>>
        /\ listener # "tag" /\ listener' \notin {"dispatch", "tag"}
        /\ listener' = "store" => listener = "dispatch" /\ message' = message
    BY <1>5 DEF ReadResponse, ListenerSendPing, ListenerRecordPing, ReadPingResponse, ReadStray
  <2>2. CompletionInv' /\ UnfoundInv'
    BY <1>1, <2>1 DEF CauseInv, CompletionInv, UnfoundInv, Completing, Asked, walletVars,
                      trackerVars
  <2>3. FirstResponseInv'
    BY <1>1, <2>1, ThreadTypes DEF CauseInv, FirstResponseInv, Held, walletVars
  <2> QED
    BY <2>2, <2>3 DEF CauseInv
<1> QED
  BY <1>2, <1>3, <1>4, <1>5 DEF ListenerStep

LEMMA TrackerKeepsCause ==
  ASSUME TypeOK, ProtocolInv, CauseInv, TrackerStep
  PROVE  CauseInv'
<1>1. UNCHANGED <<listenerVars, inbox, replies, caller>>
  BY DEF TrackerStep, peerVars, appVars
<1>2. /\ \A c \in Connection : state'[c] \in {state[c], "Abandoned"}
      /\ tracker # "tag" => tag' = tag
  BY ThreadTypes DEF TrackerStep, ScanStart, ScanNext, ScanGet, ScanDone, AbortRead, AbortStore,
       AbortTag, AbortRemove, Sleep, UpdateValue, walletVars
<1>3. FirstResponseInv'
  BY <1>1, <1>2, ThreadTypes DEF CauseInv, FirstResponseInv, Held, listenerVars
<1>4. CompletionInv'
  <2>1. CASE AbortRead
    <3>1. current' \in Connection /\ readVerkey' = peerVerkey[current'] /\ tracker' = "store"
          /\ walletVars' = walletVars
      BY <2>1, ThreadTypes DEF AbortRead
    <3> QED
      BY <1>1, <3>1 DEF CauseInv, CompletionInv, Completing, Asked, walletVars, listenerVars
  <2>2. CASE AbortStore
    <3>1. /\ state' = [state EXCEPT ![current] = "Abandoned"]
          /\ peerVerkey' = [peerVerkey EXCEPT ![current] = readVerkey]
          /\ current \in Connection /\ tracker = "store" /\ tracker' = "tag"
          /\ UNCHANGED <<current, readVerkey>>
      BY <2>2, ThreadTypes DEF AbortStore, UpdateValue
    <3> QED
      BY <1>1, <3>1, ThreadTypes DEF CauseInv, CompletionInv, Completing, Asked, listenerVars
  <2>3. CASE UNCHANGED <<state, peerVerkey>> /\ tracker' \notin {"store", "tag"}
    BY <1>1, <2>3 DEF CauseInv, CompletionInv, Completing, Asked, listenerVars
  <2> QED
    BY <2>1, <2>2, <2>3 DEF TrackerStep, ScanStart, ScanNext, ScanGet, ScanDone, AbortTag,
                            AbortRemove, Sleep, walletVars
<1>5. UnfoundInv'
  <2>1. CASE AbortTag
    <3>1. /\ tag' = [tag EXCEPT ![current] = readVerkey] /\ state' = state
          /\ current \in Connection /\ tracker = "tag"
      BY <2>1, ThreadTypes DEF AbortTag, UpdateTags
    <3>2. readVerkey = None \/ state[current] = "Abandoned"
      BY <3>1 DEF CauseInv, CompletionInv
    <3>3. \A c \in Connection : KeyOf[c] # None
      BY ConstantsAssumption
    <3> QED
      BY <1>1, <3>1, <3>2, <3>3, ThreadTypes DEF CauseInv, UnfoundInv, listenerVars
  <2>2. CASE tag' = tag
    BY <1>1, <1>2, <2>2, ThreadTypes DEF CauseInv, UnfoundInv, listenerVars
  <2> QED
    BY <2>1, <2>2 DEF TrackerStep, ScanStart, ScanNext, ScanGet, ScanDone, AbortRead, AbortStore,
                      AbortRemove, Sleep, walletVars
<1> QED
  BY <1>3, <1>4, <1>5 DEF CauseInv

LEMMA PeerKeepsCause ==
  ASSUME TypeOK, ProtocolInv, CauseInv, NEW c \in Connection, PeerStep(c)
  PROVE  CauseInv'
<1>1. UNCHANGED <<walletVars, listenerVars, trackerVars, caller>>
  BY DEF PeerStep, appVars
<1>2. CompletionInv' /\ UnfoundInv'
  BY <1>1 DEF CauseInv, CompletionInv, UnfoundInv, Completing, Asked, walletVars, listenerVars,
              trackerVars
<1>3. PICK m \in Message :
        /\ m.about = c
        /\ Len(inbox) \in Nat /\ Len(inbox') = Len(inbox) + 1
        /\ \A i \in 1..Len(inbox) : inbox'[i] = inbox[i]
        /\ inbox'[Len(inbox) + 1] = m
        /\ \A i \in 1..Len(inbox') : i \in 1..Len(inbox) \/ i = Len(inbox) + 1
        /\ \/ m.type = "response" /\ PeerResponds(c)
           \/ m.type = "ping_response" /\ PeerAnswersPing(c)
           \/ m.type = "stray" /\ PeerSendsStray(c)
  BY PeerAppends
<1>4. CASE PeerResponds(c) /\ m.type = "response"
  <2>1. replies' = [replies EXCEPT ![c] = @ + 1]
    BY <1>4 DEF PeerResponds
  <2>2. /\ replies'[c] = replies[c] + 1 /\ replies[c] \in Nat
        /\ \A d \in Connection : d # c => replies'[d] = replies[d]
    BY <2>1, ThreadTypes
  <2>3. replies'[c] <= 1 =>
          /\ state[c] # "Complete" /\ ~Held(c)
          /\ \A i \in 1..Len(inbox) : inbox[i].type = "response" => inbox[i].about # c
    BY <2>2 DEF ProtocolInv, ReplyInv, Held
  <2>4. ASSUME NEW i \in 1..Len(inbox'), inbox'[i].type = "response",
               replies'[inbox'[i].about] <= 1
        PROVE  state[inbox'[i].about] # "Complete" /\ ~Held(inbox'[i].about)
    <3>1. CASE i \in 1..Len(inbox)
      BY <1>3, <2>2, <2>3, <2>4, <3>1, ThreadTypes DEF CauseInv, FirstResponseInv
    <3>2. CASE i = Len(inbox) + 1
      BY <1>3, <2>3, <2>4, <3>2
    <3> QED
      BY <1>3, <3>1, <3>2
  <2>5. ASSUME NEW i \in 1..Len(inbox'), NEW j \in 1..Len(inbox'),
               inbox'[i].type = "response", inbox'[j].type = "response",
               inbox'[i].about = inbox'[j].about, replies'[inbox'[i].about] <= 1
        PROVE  i = j
    <3>1. i \in 1..Len(inbox) => inbox'[i].about # c
      BY <1>3, <2>3, <2>5
    <3>2. j \in 1..Len(inbox) => inbox'[j].about # c
      BY <1>3, <2>3, <2>5
    <3>3. CASE i \in 1..Len(inbox) /\ j \in 1..Len(inbox)
      BY <1>3, <2>2, <2>5, <3>1, <3>3, ThreadTypes DEF CauseInv, FirstResponseInv
    <3> QED
      BY <1>3, <2>5, <3>1, <3>2, <3>3
  <2>6. \A d \in Connection : Held(d) /\ replies'[d] <= 1 => state[d] # "Complete"
    BY <2>2, <2>3 DEF CauseInv, FirstResponseInv
  <2>7. FirstResponseInv'
    BY <1>1, <2>4, <2>5, <2>6 DEF FirstResponseInv, Held, walletVars, listenerVars
  <2> QED
    BY <1>2, <2>7 DEF CauseInv
<1>5. CASE (PeerAnswersPing(c) \/ PeerSendsStray(c)) /\ m.type # "response"
  <2>1. replies' = replies
    BY <1>5 DEF PeerAnswersPing, PeerSendsStray
  <2>2. \A i \in 1..Len(inbox') : inbox'[i].type = "response" =>
          i \in 1..Len(inbox) /\ inbox'[i] = inbox[i]
    BY <1>3, <1>5
  <2>3. FirstResponseInv'
    BY <1>1, <2>1, <2>2 DEF CauseInv, FirstResponseInv, Held, walletVars, listenerVars
  <2> QED
    BY <1>2, <2>3 DEF CauseInv
<1> QED
  BY <1>3, <1>4, <1>5

LEMMA CauseCorrect == Spec => []CauseInv
<1>1. Init => CauseInv
  BY DEF Init, CauseInv, CompletionInv, FirstResponseInv, UnfoundInv, Completing, Held, Asked
<1>2. TypeOK /\ ProtocolInv /\ KeysInv /\ CauseInv /\ [Next]_vars => CauseInv'
  <2> SUFFICES ASSUME TypeOK, ProtocolInv, KeysInv, CauseInv, [Next]_vars
               PROVE  CauseInv'
    OBVIOUS
  <2>1. CASE UNCHANGED <<walletVars, listenerVars, trackerVars, inbox, replies, caller>>
    BY <2>1 DEF CauseInv, CompletionInv, FirstResponseInv, UnfoundInv, Completing, Held, Asked,
                walletVars, listenerVars, trackerVars
  <2>2. ASSUME NEW c \in Connection, PingerStep(c)
        PROVE  CauseInv'
    BY <2>1, <2>2 DEF PingerStep
  <2>3. CASE Tick \/ UNCHANGED vars
    BY <2>1, <2>3 DEF Tick, vars, peerVars, appVars
  <2> QED
    BY <2>2, <2>3, CallerKeepsCause, ListenerKeepsCause, TrackerKeepsCause, PeerKeepsCause
       DEF Next
<1> QED
  BY <1>1, <1>2, TypeCorrect, ProtocolCorrect, KeysCorrect, PTL DEF Spec

\* However the threads, the peers and the network interleave, an exception leaves
\* listen() only for one of the causes that DeathHasCause names.
THEOREM DeathsAreExplained == Spec => DeathHasCause
<1> DEFINE Cause ==
      \/ listener = "ping"
      \/ message.type = "stray"
      \/ state[message.about] = "Abandoned"
      \/ /\ message.type = "response"
         /\ caller[message.about] = "sent" \/ replies[message.about] > 1
      \/ /\ message.type = "ping_response"
         /\ \/ message.about \notin completed
            \/ tag[message.about] # peerVerkey[message.about]
<1>1. ASSUME TypeOK, ProtocolInv, CauseInv, [Next]_vars
      PROVE  [listener # "dead" /\ listener' = "dead" => Cause]_vars
  <2> SUFFICES ASSUME listener # "dead", listener' = "dead" PROVE Cause
    OBVIOUS
  <2>1. ListenerStep
    BY <1>1 DEF Next, vars, CallerStep, PingerStep, PeerStep, TrackerStep, Tick, listenerVars
  <2>2. CASE ReadResponse
    <3>1. /\ listener = "dispatch" /\ message.type = "response"
          /\ state[message.about] # "RequestSent"
          /\ message.about \in Connection /\ replies[message.about] \in Nat
      BY <1>1, <2>2, ThreadTypes DEF ReadResponse
    <3>2. replies[message.about] > 0 /\ (caller[message.about] = "sent" \/ Asked(message.about))
      BY <1>1, <3>1 DEF ProtocolInv, ReplyInv, OrderInv
    <3>3. replies[message.about] <= 1 => state[message.about] # "Complete"
      BY <1>1, <3>1 DEF CauseInv, FirstResponseInv, Held
    <3> QED
      BY <1>1, <3>1, <3>2, <3>3 DEF CauseInv, CompletionInv
  <2>3. CASE ReadPingResponse
    <3>1. /\ listener = "dispatch" /\ message.type = "ping_response" /\ context = None
          /\ message.about \in Connection
      BY <1>1, <2>3, ThreadTypes DEF ReadPingResponse
    <3>2. ASSUME message.about \in completed, state[message.about] # "Abandoned"
          PROVE  tag[message.about] # peerVerkey[message.about]
      <4>1. tag[message.about] # KeyOf[message.about]
        BY <1>1, <3>1, <3>2 DEF CauseInv, UnfoundInv
      <4>2. peerVerkey[message.about] = KeyOf[message.about]
        BY <1>1, <3>1, <3>2 DEF CauseInv, CompletionInv, ProtocolInv, OrderInv
      <4> QED
        BY <4>1, <4>2
    <3> QED
      BY <3>1, <3>2
  <2>4. CASE ListenerSendPing \/ ReadStray
    BY <2>4 DEF ListenerSendPing, ReadStray
  <2> QED
    BY <2>1, <2>2, <2>3, <2>4 DEF ListenerStep, ReceiveMessage, StoreComplete, TagComplete,
                                  ListenerRecordPing
<1> QED
  BY <1>1, TypeCorrect, ProtocolCorrect, CauseCorrect, PTL DEF Spec, DeathHasCause

-----------------------------------------------------------------------------
(***************************************************************************)
(* Pings and their answers                                                 *)
(***************************************************************************)

\* How many members of a sequence are in M.
Places(s, M) == {i \in 1..Len(s) : s[i] \in M}
HowMany(s, M) == Cardinality(Places(s, M))

LEMMA HowManyType ==
  ASSUME NEW S, NEW s \in Seq(S), NEW M
  PROVE  IsFiniteSet(Places(s, M)) /\ HowMany(s, M) \in Nat
<1>1. IsFiniteSet(1..Len(s))
  BY FS_Interval
<1>2. IsFiniteSet(Places(s, M))
  BY <1>1, FS_Subset DEF Places
<1> QED
  BY <1>2, FS_CardinalityType DEF HowMany

\* One more at the end of the sequence.
LEMMA HowManyAppended ==
  ASSUME NEW S, NEW s \in Seq(S), NEW m \in S, NEW M
  PROVE  HowMany(Append(s, m), M) = HowMany(s, M) + (IF m \in M THEN 1 ELSE 0)
<1> DEFINE new == Len(s) + 1
<1>1. IsFiniteSet(Places(s, M)) /\ HowMany(s, M) \in Nat
  BY HowManyType
<1>2. /\ Len(s) \in Nat /\ Len(Append(s, m)) = new /\ Append(s, m)[new] = m
      /\ \A i \in 1..Len(s) : Append(s, m)[i] = s[i]
      /\ new \notin 1..Len(s) /\ 1..new = 1..Len(s) \cup {new}
  BY AppendElements
<1>3. new \notin Places(s, M)
  BY <1>2 DEF Places
<1>4. Places(Append(s, m), M) = IF m \in M THEN Places(s, M) \cup {new} ELSE Places(s, M)
  BY <1>2 DEF Places
<1>5. Cardinality(Places(s, M) \cup {new}) = Cardinality(Places(s, M)) + 1
  BY <1>1, <1>3, FS_AddElement
<1> HIDE DEF new
<1>6. CASE m \in M
  BY <1>4, <1>5, <1>6 DEF HowMany
<1>7. CASE m \notin M
  BY <1>1, <1>4, <1>7 DEF HowMany
<1> QED
  BY <1>6, <1>7

\* One less at its head.
LEMMA HowManyLeft ==
  ASSUME NEW S, NEW s \in Seq(S), s # <<>>, NEW M
  PROVE  HowMany(s, M) = HowMany(Tail(s), M) + (IF Head(s) \in M THEN 1 ELSE 0)
<1> DEFINE Rest  == Places(s, M) \ {1}
           shift == [i \in Places(Tail(s), M) |-> i + 1]
<1>1. IsFiniteSet(Places(s, M)) /\ HowMany(s, M) \in Nat
  BY HowManyType
<1>2. /\ Tail(s) \in Seq(S) /\ Len(s) \in Nat /\ Len(Tail(s)) = Len(s) - 1 /\ Len(s) >= 1
      /\ Head(s) = s[1] /\ 1 \in 1..Len(s)
      /\ \A i \in 1..Len(Tail(s)) : i + 1 \in 1..Len(s) /\ Tail(s)[i] = s[i + 1]
  BY TailElements
<1>3. IsFiniteSet(Places(Tail(s), M)) /\ HowMany(Tail(s), M) \in Nat
  BY <1>2, HowManyType
<1>4. ExistsBijection(Places(Tail(s), M), Rest)
  <2>1. \A i \in Places(Tail(s), M) : i \in Nat /\ shift[i] = i + 1 /\ shift[i] \in Rest
    BY <1>2 DEF Places
  <2>2. \A j \in Rest : j - 1 \in Places(Tail(s), M) /\ shift[j - 1] = j
    <3> SUFFICES ASSUME NEW j \in Rest
                 PROVE  j - 1 \in Places(Tail(s), M) /\ shift[j - 1] = j
      OBVIOUS
    <3>1. j \in 1..Len(s) /\ j # 1 /\ s[j] \in M
      BY DEF Places
    <3>2. j - 1 \in 1..Len(Tail(s)) /\ (j - 1) + 1 = j
      BY <1>2, <3>1
    <3>3. Tail(s)[j - 1] = s[j]
      BY <1>2, <3>2
    <3> QED
      BY <3>1, <3>2, <3>3 DEF Places
  <2>3. shift \in [Places(Tail(s), M) -> Rest]
    BY <2>1
  <2>4. \A i, j \in Places(Tail(s), M) : shift[i] = shift[j] => i = j
    BY <2>1
  <2>5. \A j \in Rest : \E i \in Places(Tail(s), M) : shift[i] = j
    BY <2>2
  <2> HIDE DEF shift, Rest
  <2> QED
    BY <2>3, <2>4, <2>5 DEF ExistsBijection, Bijection, Injection, Surjection, IsInjective
<1>5. Cardinality(Rest) = HowMany(Tail(s), M)
  BY <1>3, <1>4, FS_Bijection DEF HowMany
<1>6. 1 \in Places(s, M) <=> Head(s) \in M
  BY <1>2 DEF Places
<1>7. Cardinality(Rest) = IF Head(s) \in M THEN HowMany(s, M) - 1 ELSE HowMany(s, M)
  BY <1>1, <1>6, FS_RemoveElement DEF HowMany
<1> QED
  BY <1>1, <1>3, <1>5, <1>7
\* The answers to pings of c.
Answers(c) == {m \in Message : m.type = "ping_response" /\ m.about = c}

\* The listener has taken one of them.
Taken(c) ==
  IF listener = "dispatch" /\ message.type = "ping_response" /\ message.about = c THEN 1 ELSE 0

\* No ping is answered twice: the answers that the listener has processed, has taken and
\* will take, and those that the peer may still give, are to different pings.
AnswersArePinged ==
  /\ \A c \in Connection :
       answered[c] + Taken(c) + HowMany(inbox, Answers(c)) + atPeer[c] <= pinged[c]
  /\ listener = "pinged" => answered[message.about] < pinged[message.about]

LEMMA AnswersNat ==
  ASSUME TypeOK
  PROVE  \A c \in Connection :
           /\ {answered[c], HowMany(inbox, Answers(c)), atPeer[c], pinged[c]} \subseteq Nat
           /\ Taken(c) \in {0, 1}
BY ThreadTypes, HowManyType DEF Taken

LEMMA PingLeavesCounted ==
  ASSUME TypeOK, NEW c \in Connection, PingLeaves(c)
  PROVE  /\ pinged'[c] = pinged[c] + 1 /\ atPeer'[c] \in {atPeer[c], atPeer[c] + 1}
         /\ \A d \in Connection : d # c => pinged'[d] = pinged[d] /\ atPeer'[d] = atPeer[d]
BY ThreadTypes DEF PingLeaves

LEMMA ListenerKeepsPinged ==
  ASSUME TypeOK, AnswersArePinged, ListenerStep
  PROVE  AnswersArePinged'
<1>1. CASE ReceiveMessage
  <2>1. /\ UNCHANGED <<answered, atPeer, pinged>> /\ listener = "receive"
        /\ listener' = "dispatch" /\ message' = Head(inbox) /\ inbox' = Tail(inbox)
        /\ inbox \in Seq(Message) /\ inbox # <<>> /\ message' \in Message
    BY <1>1, TailElements, ThreadTypes DEF ReceiveMessage
  <2>2. ASSUME NEW c \in Connection
        PROVE  Taken(c)' + HowMany(inbox', Answers(c)) = Taken(c) + HowMany(inbox, Answers(c))
    <3>1. HowMany(inbox, Answers(c))
            = HowMany(inbox', Answers(c)) + (IF message' \in Answers(c) THEN 1 ELSE 0)
      BY <2>1, HowManyLeft
    <3>2. Taken(c) = 0 /\ Taken(c)' = IF message' \in Answers(c) THEN 1 ELSE 0
      BY <2>1 DEF Taken, Answers
    <3>3. HowMany(inbox', Answers(c)) \in Nat
      BY <2>1, TailElements, HowManyType
    <3> QED
      BY <3>1, <3>2, <3>3
  <2>3. ASSUME NEW c \in Connection
        PROVE  answered[c] + Taken(c)' + HowMany(inbox', Answers(c)) + atPeer[c] <= pinged[c]
    <3>1. Taken(c)' \in {0, 1} /\ HowMany(inbox', Answers(c)) \in Nat
      BY <2>1, TailElements, HowManyType DEF Taken
    <3> QED
      BY <2>2, <3>1, AnswersNat DEF AnswersArePinged
  <2> QED
    BY <2>1, <2>3 DEF AnswersArePinged
<1>2. CASE ListenerSendPing /\ listener' = "pinged"
  <2>1. /\ UNCHANGED <<answered, inbox, message>> /\ listener = "ping"
        /\ PingLeaves(message.about) /\ message.about \in Connection
    BY <1>2, ThreadTypes DEF ListenerSendPing
  <2>2. \A c \in Connection : Taken(c)' = 0
    BY <1>2 DEF Taken
  <2>3. \A c \in Connection : answered[c] + HowMany(inbox, Answers(c)) + atPeer[c] <= pinged[c]
    BY AnswersNat DEF AnswersArePinged
  <2>4. /\ pinged'[message.about] = pinged[message.about] + 1
        /\ atPeer'[message.about] \in {atPeer[message.about], atPeer[message.about] + 1}
        /\ \A d \in Connection : d # message.about =>
              pinged'[d] = pinged[d] /\ atPeer'[d] = atPeer[d]
    BY <2>1, PingLeavesCounted
  <2>5. \A c \in Connection :
          answered[c] + 0 + HowMany(inbox, Answers(c)) + atPeer'[c] <= pinged'[c]
    BY <2>1, <2>3, <2>4, AnswersNat
  <2>6. answered[message.about] < pinged'[message.about]
    BY <2>1, <2>3, <2>4, AnswersNat
  <2> QED
    BY <2>1, <2>2, <2>5, <2>6 DEF AnswersArePinged
<1>3. CASE ReadPingResponse /\ context # None
  <2>1. /\ UNCHANGED <<inbox, atPeer, pinged>> /\ listener = "dispatch"
        /\ message.type = "ping_response" /\ listener' = "receive"
        /\ answered' = [answered EXCEPT ![message.about] = @ + 1]
        /\ message.about \in Connection
    BY <1>3, ThreadTypes DEF ReadPingResponse
  <2>2. \A c \in Connection : answered'[c] + Taken(c)' = answered[c] + Taken(c)
    BY <2>1, ThreadTypes DEF Taken
  <2>3. \A c \in Connection : answered'[c] \in Nat /\ Taken(c)' \in {0, 1}
    BY <2>1, ThreadTypes DEF Taken
  <2>4. \A c \in Connection :
          answered'[c] + Taken(c)' + HowMany(inbox, Answers(c)) + atPeer[c] <= pinged[c]
    BY <2>2, <2>3, AnswersNat DEF AnswersArePinged
  <2> QED
    BY <2>1, <2>4 DEF AnswersArePinged
<1>4. CASE UNCHANGED <<inbox, atPeer, pinged, answered>> /\ listener' \notin {"dispatch", "pinged"}
  <2>1. \A c \in Connection : Taken(c)' = 0
    BY <1>4 DEF Taken
  <2>2. \A c \in Connection :
          answered[c] + 0 + HowMany(inbox, Answers(c)) + atPeer[c] <= pinged[c]
    BY AnswersNat DEF AnswersArePinged
  <2> QED
    BY <1>4, <2>1, <2>2 DEF AnswersArePinged
<1> QED
  BY <1>1, <1>2, <1>3, <1>4 DEF ListenerStep, ReadResponse, StoreComplete, TagComplete,
       ListenerSendPing, ListenerRecordPing, ReadPingResponse, ReadStray

LEMMA PeerKeepsPinged ==
  ASSUME TypeOK, AnswersArePinged, NEW c \in Connection, PeerStep(c)
  PROVE  AnswersArePinged'
<1>1. UNCHANGED <<listener, message, answered, pinged>>
  BY DEF PeerStep, listenerVars, historyVars
<1>2. PICK m \in Message :
        /\ inbox' = Append(inbox, m) /\ m.about = c
        /\ \/ m.type = "ping_response" /\ atPeer[c] > 0 /\ atPeer' = [atPeer EXCEPT ![c] = @ - 1]
           \/ m.type # "ping_response" /\ atPeer' = atPeer
  BY PeerAppends DEF PeerResponds, PeerAnswersPing, PeerSendsStray
<1>3. ASSUME NEW d \in Connection
      PROVE  HowMany(inbox', Answers(d)) + atPeer'[d] = HowMany(inbox, Answers(d)) + atPeer[d]
  <2>1. HowMany(inbox', Answers(d))
          = HowMany(inbox, Answers(d)) + (IF m \in Answers(d) THEN 1 ELSE 0)
    BY <1>2, ThreadTypes, HowManyAppended
  <2>2. m \in Answers(d) <=> m.type = "ping_response" /\ d = c
    BY <1>2 DEF Answers
  <2>3. CASE m \in Answers(d)
    <3>1. d = c /\ atPeer'[c] = atPeer[c] - 1
      BY <1>2, <2>2, <2>3, ThreadTypes
    <3> QED
      BY <2>1, <2>3, <3>1, AnswersNat
  <2>4. CASE m \notin Answers(d)
    <3>1. atPeer'[d] = atPeer[d]
      BY <1>2, <2>2, <2>4, ThreadTypes
    <3> QED
      BY <2>1, <2>4, <3>1, AnswersNat
  <2> QED
    BY <2>3, <2>4
<1>4. ASSUME NEW d \in Connection
      PROVE  answered[d] + Taken(d) + HowMany(inbox', Answers(d)) + atPeer'[d] <= pinged[d]
  <2>1. HowMany(inbox', Answers(d)) \in Nat /\ atPeer'[d] \in Nat
    <3>1. inbox' \in Seq(Message)
      BY <1>2, ThreadTypes
    <3>2. HowMany(inbox', Answers(d)) \in Nat
      BY <3>1, HowManyType
    <3>3. atPeer'[d] \in Nat
      <4>1. atPeer \in [Connection -> Nat]
        BY ThreadTypes
      <4>2. atPeer'[d] = atPeer[d] \/ (atPeer[d] > 0 /\ atPeer'[d] = atPeer[d] - 1)
        BY <1>2, <4>1
      <4> QED
        BY <4>1, <4>2
    <3> QED
      BY <3>2, <3>3
  <2> QED
    BY <1>3, <2>1, AnswersNat DEF AnswersArePinged
<1> QED
  BY <1>1, <1>4 DEF AnswersArePinged, Taken

LEMMA PingsCorrect == Spec => []AnswersArePinged
<1>1. Init => AnswersArePinged
  <2>1. \A M : Places(<<>>, M) = {}
    BY DEF Places
  <2>2. \A M : HowMany(<<>>, M) = 0
    BY <2>1, FS_EmptySet DEF HowMany
  <2> QED
    BY <2>2 DEF Init, AnswersArePinged, Taken
<1>2. TypeOK /\ AnswersArePinged /\ [Next]_vars => AnswersArePinged'
  <2> SUFFICES ASSUME TypeOK, AnswersArePinged, [Next]_vars
               PROVE  AnswersArePinged'
    OBVIOUS
  <2>1. CASE UNCHANGED <<listener, message, inbox, atPeer, pinged, answered>>
    BY <2>1 DEF AnswersArePinged, Taken
  <2>2. ASSUME NEW c \in Connection, PingerStep(c)
        PROVE  AnswersArePinged'
    <3>1. CASE AppSendPing(c)
      <4>1. UNCHANGED <<listener, message, inbox, answered>> /\ PingLeaves(c)
        BY <2>2, <3>1 DEF PingerStep, AppSendPing, listenerVars
      <4>2. /\ pinged'[c] = pinged[c] + 1 /\ atPeer'[c] \in {atPeer[c], atPeer[c] + 1}
            /\ \A d \in Connection : d # c => pinged'[d] = pinged[d] /\ atPeer'[d] = atPeer[d]
        BY <4>1, PingLeavesCounted
      <4>3. \A d \in Connection :
              answered[d] + Taken(d) + HowMany(inbox, Answers(d)) + atPeer'[d] <= pinged'[d]
        BY <4>2, AnswersNat DEF AnswersArePinged
      <4>4. listener = "pinged" => answered[message.about] < pinged'[message.about]
        <5>1. listener = "pinged" =>
                /\ answered[message.about] < pinged[message.about]
                /\ pinged'[message.about] >= pinged[message.about]
                /\ message.about \in Connection
          <6>1. listener = "pinged" => message.about \in Connection
            BY ThreadTypes
          <6>2. \A d \in Connection : pinged'[d] >= pinged[d]
            BY <4>2, AnswersNat
          <6> QED
            BY <6>1, <6>2 DEF AnswersArePinged
        <5>2. \A d \in Connection : pinged'[d] \in Nat
          BY <4>2, AnswersNat
        <5> QED
          BY <5>1, <5>2, AnswersNat
      <4> QED
        BY <4>1, <4>3, <4>4 DEF AnswersArePinged, Taken
    <3>2. CASE AppRecordPing(c)
      BY <2>1, <2>2, <3>2 DEF PingerStep, AppRecordPing, listenerVars
    <3> QED
      BY <2>2, <3>1, <3>2 DEF PingerStep
  <2>3. ASSUME NEW c \in Connection, CallerStep(c)
        PROVE  AnswersArePinged'
    BY <2>1, <2>3 DEF CallerStep, listenerVars
  <2>4. CASE TrackerStep \/ Tick \/ UNCHANGED vars
    BY <2>1, <2>4 DEF TrackerStep, Tick, vars, listenerVars, peerVars, historyVars
  <2> QED
    BY <2>2, <2>3, <2>4, ListenerKeepsPinged, PeerKeepsPinged DEF Next
<1> QED
  BY <1>1, <1>2, TypeCorrect, PTL DEF Spec

\* However pings and answers cross, and whoever sends them, a connection whose peer has
\* a key of its own is watched in vain only because sendTrustPing of the application
\* has told the tracker of a ping later than the answer (ReceiveTrustPingResponseAction,
\* SendTrustPingAction).
THEOREM OnlyLateRecords == Spec => OnlyLateRecordsMislead
<1> DEFINE Misled ==
      \A c \in Connection :
        /\ \A d \in Connection : KeyOf[c] = KeyOf[d] => c = d
        /\ WatchedInVain(c)' /\ ~WatchedInVain(c)
        => pinger[c] = "sent" /\ pinger'[c] = "idle"
<1>1. ASSUME TypeOK, KeysInv, AnswersArePinged, [Next]_vars
      PROVE  Misled
  <2> SUFFICES ASSUME NEW c \in Connection,
                      \A d \in Connection : KeyOf[c] = KeyOf[d] => c = d,
                      WatchedInVain(c)', ~WatchedInVain(c)
               PROVE  pinger[c] = "sent" /\ pinger'[c] = "idle"
    OBVIOUS
  <2>1. \/ sentPings[c] = None /\ sentPings'[c] # None
        \/ answered[c] < pinged[c] /\ answered'[c] >= pinged'[c]
    BY <1>1, AnswersNat DEF WatchedInVain
  <2>0. ~UNCHANGED <<sentPings, answered, pinged>>
    BY DEF WatchedInVain
  <2>2. CASE ListenerStep
    <3>1. CASE ListenerRecordPing
      <4>1. /\ sentPings' = [sentPings EXCEPT ![message.about] = now]
            /\ UNCHANGED <<answered, pinged>> /\ answered[message.about] < pinged[message.about]
        BY <1>1, <3>1 DEF ListenerRecordPing, PutPing, AnswersArePinged
      <4>2. c = message.about
        BY <1>1, <2>1, <4>1, ThreadTypes
      <4> QED
        BY <1>1, <4>1, <4>2, AnswersNat DEF WatchedInVain
    <3>2. CASE ReadPingResponse /\ context # None
      <4>1. /\ sentPings' = [sentPings EXCEPT ![context] = None] /\ pinged' = pinged
            /\ answered' = [answered EXCEPT ![message.about] = @ + 1]
            /\ KeyOf[context] = message.from /\ message.from = KeyOf[message.about]
            /\ context \in Connection /\ message.about \in Connection
        BY <1>1, <3>2, ThreadTypes DEF ReadPingResponse, RemovePing, KeysInv, SenderInv,
                                       TagsAreKeys
      <4>2. c = message.about
        BY <1>1, <2>1, <4>1, ThreadTypes
      <4>3. context = c
        BY <4>1, <4>2
      <4> QED
        BY <1>1, <4>1, <4>3, ThreadTypes DEF WatchedInVain
    <3>3. CASE ListenerSendPing
      <4>1. message.about \in Connection /\ UNCHANGED <<sentPings, answered>>
            /\ (PingLeaves(message.about) \/ pinged' = pinged)
        BY <1>1, <3>3, ThreadTypes DEF ListenerSendPing, pingVars
      <4>2. pinged'[c] \in {pinged[c], pinged[c] + 1}
        BY <1>1, <4>1, PingLeavesCounted
      <4> QED
        BY <1>1, <2>1, <4>1, <4>2, AnswersNat
    <3> QED
      BY <2>0, <2>2, <3>1, <3>2, <3>3 DEF ListenerStep, ReceiveMessage, ReadResponse,
           StoreComplete, TagComplete, ReadPingResponse, ReadStray, pingVars
  <2>3. ASSUME NEW d \in Connection, PingerStep(d)
        PROVE  pinger[c] = "sent" /\ pinger'[c] = "idle"
    <3>1. CASE AppSendPing(d)
      <4>1. UNCHANGED <<sentPings, answered>> /\ pinged'[c] \in {pinged[c], pinged[c] + 1}
        BY <1>1, <2>3, <3>1, PingLeavesCounted DEF PingerStep, AppSendPing, pingVars
      <4> QED
        BY <1>1, <2>1, <4>1, AnswersNat
    <3>2. CASE AppRecordPing(d)
      <4>1. /\ sentPings' = [sentPings EXCEPT ![d] = now] /\ UNCHANGED <<answered, pinged>>
            /\ pinger[d] = "sent" /\ pinger' = [pinger EXCEPT ![d] = "idle"]
            /\ pinger \in [Connection -> PingerPC]
        BY <1>1, <2>3, <3>2 DEF PingerStep, AppRecordPing, PutPing, TypeOK, AppTyped
      <4>2. d = c
        BY <1>1, <2>1, <4>1, ThreadTypes
      <4> QED
        BY <4>1, <4>2
    <3> QED
      BY <2>3, <3>1, <3>2 DEF PingerStep
  <2>4. CASE TrackerStep
    <3>1. UNCHANGED <<answered, pinged>> /\ sentPings'[c] \in {sentPings[c], None}
      BY <1>1, <2>4, ThreadTypes DEF TrackerStep, ScanStart, ScanNext, ScanGet, ScanDone,
           AbortRead, AbortStore, AbortTag, AbortRemove, Sleep, RemovePing, pingVars,
           historyVars
    <3> QED
      BY <2>1, <3>1 DEF WatchedInVain
  <2>5. CASE UNCHANGED <<sentPings, answered, pinged>>
    BY <2>0, <2>5
  <2>6. ASSUME NEW d \in Connection, CallerStep(d) \/ PeerStep(d)
        PROVE  pinger[c] = "sent" /\ pinger'[c] = "idle"
    BY <2>5, <2>6 DEF CallerStep, PeerStep, pingVars, historyVars
  <2>7. CASE Tick \/ UNCHANGED vars
    BY <2>5, <2>7 DEF Tick, vars, pingVars, historyVars
  <2> QED
    BY <1>1, <2>2, <2>3, <2>4, <2>6, <2>7 DEF Next
<1>2. TypeOK /\ KeysInv /\ AnswersArePinged /\ [Next]_vars => [Misled]_vars
  BY <1>1
<1> HIDE DEF Misled
<1>3. Spec => [][Misled]_vars
  BY <1>2, TypeCorrect, KeysCorrect, PingsCorrect, PTL DEF Spec
<1> QED
  BY <1>3 DEF Misled, OnlyLateRecordsMislead

-----------------------------------------------------------------------------
(***************************************************************************)
(* A scan misses no overdue ping                                           *)
(***************************************************************************)

\* The ping of c was overdue at the timestamp of the scan.
Overdue(c) == sentPings[c] # None /\ sampled > sentPings[c] + Timeout

\* Until then its key is still to be visited, or the tracker is at it.
ScanInv ==
  Scanning =>
    /\ sampled <= now
    /\ \A c \in Connection :
         Overdue(c) => c \in unvisited \cup dead \/ (tracker = "get" /\ c = current)

\* When the iterator is at its end, every overdue ping is among deadConnections.
ScanMissesNone ==
  tracker = "scan" /\ unvisited = {} => \A c \in Connection : Overdue(c) => c \in dead

\* No thread but the tracker makes a ping overdue: a new timestamp is the present.
LEMMA OthersKeepScan ==
  ASSUME TypeOK, ScanInv, UNCHANGED trackerVars, now' \in Nat, now' >= now,
         \A c \in Connection : sentPings'[c] \in {sentPings[c], now, None}
  PROVE  ScanInv'
<1>1. /\ now \in Nat /\ sampled \in Nat /\ Timeout \in Nat /\ None \notin Nat
      /\ sentPings \in [Connection -> Nat \cup {None}]
  BY ConstantsAssumption DEF TypeOK, TrackerTyped, PingsTyped
<1>2. \A c \in Connection : Scanning /\ Overdue(c)' => Overdue(c)
  <2> SUFFICES ASSUME Scanning, NEW c \in Connection, Overdue(c)' PROVE Overdue(c)
    OBVIOUS
  <2>1. sampled <= now /\ sampled' = sampled
    BY DEF ScanInv, trackerVars
  <2>2. sentPings'[c] # now /\ sentPings'[c] # None
    BY <1>1, <2>1 DEF Overdue
  <2> QED
    BY <2>1, <2>2 DEF Overdue
<1> QED
  BY <1>1, <1>2 DEF ScanInv, Scanning, trackerVars

LEMMA TrackerKeepsScan ==
  ASSUME TypeOK, ScanInv, TrackerStep
  PROVE  ScanInv'
<1>1. /\ now' = now /\ now \in Nat /\ None \notin Nat
      /\ sentPings \in [Connection -> Nat \cup {None}]
  BY ConstantsAssumption DEF TrackerStep, TypeOK, PingsTyped
<1>2. CASE ScanStart
  BY <1>1, <1>2 DEF ScanStart, ScanInv, Overdue, pingVars
<1>3. CASE ScanNext
  BY <1>1, <1>3 DEF ScanNext, ScanInv, Scanning, Overdue, pingVars
<1>4. CASE ScanGet
  BY <1>1, <1>4 DEF ScanGet, ScanInv, Scanning, Overdue, pingVars
<1>5. CASE tracker' \notin {"scan", "get"}
  BY <1>5 DEF ScanInv, Scanning
<1> QED
  BY <1>2, <1>3, <1>4, <1>5 DEF TrackerStep, ScanDone, AbortRead, AbortStore, AbortTag,
                                AbortRemove, Sleep

\* However the other threads change the map during a scan, no overdue ping escapes it:
\* TrackingService finds every dead connection, or throws.
THEOREM ScanIsComplete == Spec => []ScanMissesNone
<1>1. Init => ScanInv
  BY DEF Init, ScanInv, Scanning
<1>2. TypeOK /\ ScanInv /\ [Next]_vars => ScanInv'
  <2> SUFFICES ASSUME TypeOK, ScanInv, [Next]_vars
               PROVE  ScanInv'
    OBVIOUS
  <2>1. now \in Nat /\ sentPings \in [Connection -> Nat \cup {None}]
    BY DEF TypeOK, PingsTyped
  <2>2. ASSUME NEW c \in Connection, CallerStep(c) \/ PeerStep(c) PROVE ScanInv'
    BY <2>1, <2>2, OthersKeepScan DEF CallerStep, PeerStep, pingVars
  <2>3. ASSUME NEW c \in Connection, PingerStep(c) PROVE ScanInv'
    <3>1. \A d \in Connection : sentPings'[d] \in {sentPings[d], now, None}
      BY <2>1, <2>3 DEF PingerStep, AppSendPing, AppRecordPing, PutPing, pingVars
    <3> QED
      BY <2>1, <2>3, <3>1, OthersKeepScan DEF PingerStep
  <2>4. CASE ListenerStep
    <3>1. \A d \in Connection : sentPings'[d] \in {sentPings[d], now, None}
      BY <2>1, <2>4 DEF ListenerStep, ReceiveMessage, ReadResponse, StoreComplete, TagComplete,
           ListenerSendPing, ListenerRecordPing, ReadPingResponse, ReadStray, PutPing,
           RemovePing, pingVars
    <3> QED
      BY <2>1, <2>4, <3>1, OthersKeepScan DEF ListenerStep
  <2>5. CASE Tick
    BY <2>1, <2>5, OthersKeepScan DEF Tick, pingVars
  <2>6. CASE UNCHANGED vars
    BY <2>1, <2>6, OthersKeepScan DEF vars, pingVars
  <2> QED
    BY <2>2, <2>3, <2>4, <2>5, <2>6, TrackerKeepsScan DEF Next
<1>3. ScanInv => ScanMissesNone
  BY DEF ScanInv, Scanning, ScanMissesNone
<1> QED
  BY <1>1, <1>2, <1>3, TypeCorrect, PTL DEF Spec

=============================================================================
