----------------------- MODULE ConnectionAgentRefinement -----------------------
(***************************************************************************)
(* The threads of ConnectionAgent keep the promise of ConnectionLifecycle, *)
(* for every set of connections and all bounds, provided the application   *)
(* pings no connection before its onCompleted callback.  With an earlier   *)
(* ping the promise is broken: the tracker can abort a connection between  *)
(* the listener's read of the record and its store of "Complete".          *)
(***************************************************************************)
EXTENDS ConnectionAgent_proofs

\* The application pings no connection before its onCompleted callback.
NoEarlyPing == "early_ping" \notin Env \/ MaxAppPings = 0

\* The record follows the thread in connect() until that has stored "RequestSent".
RecordInv ==
  \A c \in Connection :
    /\ state[c] = "absent" <=> caller[c] = "idle"
    /\ caller[c] \in {"invited", "sent"} => state[c] = "START"
    /\ caller[c] \in {"idle", "invited", "sent"} => peerVerkey[c] = None

\* Only completed connections are pinged, tracked or aborted.
PingedInv ==
  /\ \A c \in Connection :
       (sentPings[c] # None \/ pinger[c] # "idle" \/ atPeer[c] > 0) => c \in completed
  /\ listener \in {"ping", "pinged"} => message.about \in completed
  /\ unvisited \subseteq completed
  /\ dead \subseteq completed
  /\ tracker \in {"get", "store", "tag", "remove"} => current \in completed

\* What a thread has read of a record still holds when it overwrites the record.
RewriteInv ==
  /\ listener = "store" => state[message.about] = "RequestSent"
  /\ tracker = "store" => readVerkey = peerVerkey[current]

LifecycleInv == RecordInv /\ SenderInv /\ PingedInv /\ RewriteInv

-----------------------------------------------------------------------------
LEMMA CallerKeepsLifecycle ==
  ASSUME TypeOK, ProtocolInv, LifecycleInv, NEW c \in Connection, CallerStep(c)
  PROVE  LifecycleInv'
<1>1. SenderInv' /\ PingedInv'
  BY DEF LifecycleInv, SenderInv, PingedInv, CallerStep, listenerVars, trackerVars, pingVars
<1> USE DEF TypeOK, WalletTyped, AppTyped, CallerPC, CallerStep, UpdateValue
<1>2. RecordInv'
  BY DEF LifecycleInv, RecordInv, Connect, DeclineInvitation, SendRequest, StoreRequestSent,
         TagRequestSent, walletVars
<1>3. \A d \in Connection :
        Asked(d) => state'[d] = state[d] /\ peerVerkey'[d] = peerVerkey[d]
  BY DEF Connect, DeclineInvitation, SendRequest, StoreRequestSent, TagRequestSent, walletVars,
         Asked
<1>4. RewriteInv'
  <2>1. listener = "store" => message.about \in Connection /\ Asked(message.about)
    BY DEF ProtocolInv, ResponseInv, ListenerTyped, Message
  <2>2. tracker = "store" => current \in Connection /\ Asked(current)
    BY DEF ProtocolInv, OrderInv, LifecycleInv, PingedInv, TrackerTyped
  <2> QED
    BY <1>3, <2>1, <2>2 DEF LifecycleInv, RewriteInv, listenerVars, trackerVars
<1> QED
  BY <1>1, <1>2, <1>4 DEF LifecycleInv

LEMMA PingerKeepsLifecycle ==
  ASSUME NoEarlyPing, TypeOK, LifecycleInv, NEW c \in Connection, PingerStep(c)
  PROVE  LifecycleInv'
<1>1. RecordInv' /\ SenderInv' /\ RewriteInv'
  BY DEF LifecycleInv, RecordInv, SenderInv, RewriteInv, PingerStep, walletVars, listenerVars,
         trackerVars
<1>2. c \in completed
  <2>1. appPings[c] \in Nat
    BY DEF TypeOK, AppTyped
  <2> QED
    BY <2>1 DEF NoEarlyPing, LifecycleInv, PingedInv, PingerStep, AppSendPing, AppRecordPing,
                MayPing
<1>3. PingedInv'
  <2>1. \A d \in Connection \ {c} :
          sentPings'[d] = sentPings[d] /\ pinger'[d] = pinger[d] /\ atPeer'[d] = atPeer[d]
    BY DEF PingerStep, AppSendPing, AppRecordPing, PingLeaves, PutPing, pingVars, TypeOK,
           AppTyped, PingsTyped, PeersTyped
  <2> QED
    BY <1>2, <2>1 DEF LifecycleInv, PingedInv, PingerStep, listenerVars, trackerVars
<1> QED
  BY <1>1, <1>3 DEF LifecycleInv

LEMMA ListenerKeepsLifecycle ==
  ASSUME TypeOK, ProtocolInv, LifecycleInv, ListenerStep
  PROVE  LifecycleInv'
<1>1. UNCHANGED <<trackerVars, appVars>>
  BY DEF ListenerStep
<1>2. listener # "receive" => message \in Message /\ message.about \in Connection
  BY DEF TypeOK, ListenerTyped, Message
<1>3. CASE ReceiveMessage
  <2>1. UNCHANGED <<walletVars, completed, pingVars, atPeer>> /\ listener' = "dispatch"
    BY <1>3 DEF ReceiveMessage
  <2>2. SenderInv'
    <3>1. /\ inbox \in Seq(Message) /\ inbox # <<>>
          /\ message' = Head(inbox) /\ inbox' = Tail(inbox)
      BY <1>3 DEF ReceiveMessage, TypeOK, PeersTyped
    <3> QED
      BY <3>1, TailElements DEF LifecycleInv, SenderInv
  <2> QED
    BY <1>1, <2>1, <2>2 DEF LifecycleInv, RecordInv, PingedInv, RewriteInv, walletVars,
                            pingVars, trackerVars, appVars
<1>4. CASE ReadResponse \/ ReadStray
  BY <1>1, <1>4 DEF ReadResponse, ReadStray, LifecycleInv, RecordInv, SenderInv, PingedInv,
                    RewriteInv, walletVars, pingVars, trackerVars, appVars
<1>5. CASE StoreComplete
  <2>1. /\ state' = [state EXCEPT ![message.about] = "Complete"]
        /\ peerVerkey' = [peerVerkey EXCEPT ![message.about] = message.from]
        /\ state \in [Connection -> States]
        /\ peerVerkey \in [Connection -> VerKey \cup {None}]
        /\ UNCHANGED <<inbox, message, completed, pingVars, atPeer>>
        /\ listener = "store" /\ listener' = "tag"
    BY <1>5 DEF StoreComplete, UpdateValue, TypeOK, WalletTyped
  <2>2. Asked(message.about) /\ message.about \notin completed
    BY <2>1 DEF ProtocolInv, ResponseInv
  <2>3. RecordInv'
    BY <1>1, <1>2, <2>1, <2>2 DEF LifecycleInv, RecordInv, Asked, appVars
  <2>4. RewriteInv'
    <3>1. tracker = "store" => current \in completed /\ current \in Connection
      BY DEF LifecycleInv, PingedInv, TypeOK, TrackerTyped
    <3> QED
      BY <1>1, <2>1, <2>2, <3>1 DEF LifecycleInv, RewriteInv, trackerVars
  <2> QED
    BY <1>1, <2>1, <2>3, <2>4 DEF LifecycleInv, SenderInv, PingedInv, pingVars, trackerVars,
                                  appVars
<1>6. CASE TagComplete
  BY <1>1, <1>6 DEF TagComplete, LifecycleInv, RecordInv, SenderInv, PingedInv, RewriteInv,
                    pingVars, trackerVars, appVars
<1>7. CASE ListenerSendPing
  <2>1. \A d \in Connection : atPeer'[d] > 0 => d \in completed
    BY <1>2, <1>7 DEF ListenerSendPing, PingLeaves, LifecycleInv, PingedInv, TypeOK, PeersTyped
  <2> QED
    BY <1>1, <1>7, <2>1 DEF ListenerSendPing, LifecycleInv, RecordInv, SenderInv, PingedInv,
                            RewriteInv, walletVars, pingVars, trackerVars, appVars
<1>8. CASE ListenerRecordPing
  <2>1. \A d \in Connection : sentPings'[d] # None => d \in completed
    BY <1>2, <1>8 DEF ListenerRecordPing, PutPing, LifecycleInv, PingedInv, TypeOK, PingsTyped
  <2> QED
    BY <1>1, <1>8, <2>1 DEF ListenerRecordPing, LifecycleInv, RecordInv, SenderInv, PingedInv,
                            RewriteInv, walletVars, trackerVars, appVars
<1>9. CASE ReadPingResponse
  <2>1. \A d \in Connection : sentPings'[d] # None => d \in completed
    BY <1>9 DEF ReadPingResponse, RemovePing, LifecycleInv, PingedInv, TypeOK, PingsTyped,
                pingVars
  <2> QED
    BY <1>1, <1>9, <2>1 DEF ReadPingResponse, LifecycleInv, RecordInv, SenderInv, PingedInv,
                            RewriteInv, walletVars, trackerVars, appVars
<1> QED
  BY <1>3, <1>4, <1>5, <1>6, <1>7, <1>8, <1>9 DEF ListenerStep

LEMMA TrackerKeepsLifecycle ==
  ASSUME TypeOK, ProtocolInv, LifecycleInv, TrackerStep
  PROVE  LifecycleInv'
<1>1. UNCHANGED <<listenerVars, peerVars, appVars>>
  BY DEF TrackerStep
<1>2. SenderInv'
  BY <1>1 DEF LifecycleInv, SenderInv, listenerVars, peerVars
<1>3. PingedInv'
  <2>1. \A c \in Connection : sentPings'[c] # None => sentPings[c] # None
    BY DEF TrackerStep, ScanStart, ScanNext, ScanGet, ScanDone, AbortRead, AbortStore,
           AbortTag, AbortRemove, Sleep, RemovePing, pingVars, TypeOK, PingsTyped
  <2>2. /\ unvisited' \subseteq completed
        /\ dead' \subseteq completed
        /\ tracker' \in {"get", "store", "tag", "remove"} => current' \in completed
    BY DEF TrackerStep, ScanStart, ScanNext, ScanGet, ScanDone, AbortRead, AbortStore,
           AbortTag, AbortRemove, Sleep, LifecycleInv, PingedInv
  <2> QED
    BY <1>1, <2>1, <2>2 DEF LifecycleInv, PingedInv, listenerVars, peerVars, appVars
<1>4. RecordInv' /\ RewriteInv'
  <2>1. CASE AbortStore
    <3>1. /\ state' = [state EXCEPT ![current] = "Abandoned"]
          /\ peerVerkey' = [peerVerkey EXCEPT ![current] = readVerkey]
          /\ state \in [Connection -> States]
          /\ peerVerkey \in [Connection -> VerKey \cup {None}]
          /\ current \in Connection /\ tracker' = "tag"
      BY <2>1 DEF AbortStore, UpdateValue, TypeOK, WalletTyped, TrackerTyped
    <3>2. current \in completed /\ Asked(current)
      BY <2>1, <3>1 DEF AbortStore, LifecycleInv, PingedInv, ProtocolInv, OrderInv
    <3>3. listener = "store" => message.about \notin completed
      BY DEF ProtocolInv, ResponseInv
    <3> QED
      BY <1>1, <3>1, <3>2, <3>3 DEF LifecycleInv, RecordInv, RewriteInv, Asked, listenerVars,
                                    appVars
  <2>2. CASE AbortRead
    BY <1>1, <2>2 DEF AbortRead, LifecycleInv, RecordInv, RewriteInv, walletVars, listenerVars,
                      appVars
  <2>3. CASE UNCHANGED <<state, peerVerkey>> /\ tracker' # "store"
    BY <1>1, <2>3 DEF LifecycleInv, RecordInv, RewriteInv, listenerVars, appVars
  <2> QED
    BY <2>1, <2>2, <2>3 DEF TrackerStep, ScanStart, ScanNext, ScanGet, ScanDone, AbortTag,
                            AbortRemove, Sleep, walletVars
<1> QED
  BY <1>2, <1>3, <1>4 DEF LifecycleInv

LEMMA PeerKeepsLifecycle ==
  ASSUME TypeOK, LifecycleInv, NEW c \in Connection, PeerStep(c)
  PROVE  LifecycleInv'
<1>1. UNCHANGED <<walletVars, listenerVars, trackerVars, pingVars, appVars>>
  BY DEF PeerStep
<1>2. PICK m \in Message : inbox' = Append(inbox, m) /\ m.from = KeyOf[m.about]
  BY ConstantsAssumption DEF PeerStep, PeerResponds, PeerAnswersPing, PeerSendsStray, Deliver,
                             Message, MessageType
<1>3. SenderInv'
  <2>1. inbox \in Seq(Message)
    BY DEF TypeOK, PeersTyped
  <2> QED
    BY <1>1, <1>2, <2>1, AppendElements DEF LifecycleInv, SenderInv, listenerVars
<1>4. \A d \in Connection : atPeer'[d] > 0 => atPeer[d] > 0
  BY DEF PeerStep, PeerResponds, PeerAnswersPing, PeerSendsStray, TypeOK, PeersTyped
<1> QED
  BY <1>1, <1>3, <1>4 DEF LifecycleInv, RecordInv, PingedInv, RewriteInv, walletVars,
                          listenerVars, trackerVars, pingVars, appVars

LEMMA NextKeepsLifecycle ==
  ASSUME NoEarlyPing, TypeOK, ProtocolInv, LifecycleInv, [Next]_vars
  PROVE  LifecycleInv'
<1>1. CASE Tick \/ UNCHANGED vars
  BY <1>1 DEF Tick, vars, walletVars, listenerVars, trackerVars, pingVars, peerVars, appVars,
              LifecycleInv, RecordInv, SenderInv, PingedInv, RewriteInv
<1> QED
  BY <1>1, CallerKeepsLifecycle, PingerKeepsLifecycle, ListenerKeepsLifecycle,
     TrackerKeepsLifecycle, PeerKeepsLifecycle DEF Next

LEMMA LifecycleCorrect ==
  ASSUME NoEarlyPing
  PROVE  Spec => []LifecycleInv
<1>1. Init => LifecycleInv
  BY DEF Init, LifecycleInv, RecordInv, SenderInv, PingedInv, RewriteInv
<1>2. TypeOK /\ ProtocolInv /\ LifecycleInv /\ [Next]_vars => LifecycleInv'
  BY NextKeepsLifecycle
<1> QED
  BY <1>1, <1>2, TypeCorrect, ProtocolCorrect, PTL DEF Spec

-----------------------------------------------------------------------------
(***************************************************************************)
(* The refinement                                                          *)
(***************************************************************************)

\* A step of connect() invites, declines, requests, or is a stutter.
LEMMA CallerImplements ==
  ASSUME TypeOK, LifecycleInv, NEW c \in Connection, CallerStep(c)
  PROVE  [Lifecycle!Next]_Lifecycle!vars
<1>1. replies' = replies /\ state \in [Connection -> States]
      /\ peerVerkey \in [Connection -> VerKey \cup {None}]
  BY DEF CallerStep, TypeOK, WalletTyped
<1>2. caller[c] \in {"idle", "invited", "sent"} => peerVerkey[c] = None
  BY DEF LifecycleInv, RecordInv
<1>3. ASSUME caller[c] \in {"idle", "invited", "sent"}, UpdateValue(c, "START", None) \/
             UpdateValue(c, "RequestSent", None) \/ UpdateValue(c, "Abandoned", None)
      PROVE  peerVerkey' = peerVerkey
  BY <1>1, <1>2, <1>3 DEF UpdateValue
<1>4. CASE Connect(c)
  <2>1. Lifecycle!Invite(c)
    BY <1>1, <1>3, <1>4 DEF Connect, UpdateValue, LifecycleInv, RecordInv, Lifecycle!Invite,
                            Lifecycle!Move
  <2> QED
    BY <2>1 DEF Lifecycle!Next
<1>5. CASE DeclineInvitation(c)
  <2>1. Lifecycle!Decline(c)
    BY <1>1, <1>3, <1>5 DEF DeclineInvitation, UpdateValue, LifecycleInv, RecordInv,
                            Lifecycle!Decline, Lifecycle!Move
  <2> QED
    BY <2>1 DEF Lifecycle!Next
<1>6. CASE StoreRequestSent(c)
  <2>1. Lifecycle!Request(c)
    BY <1>1, <1>3, <1>6 DEF StoreRequestSent, UpdateValue, LifecycleInv, RecordInv,
                            Lifecycle!Request, Lifecycle!Move
  <2> QED
    BY <2>1 DEF Lifecycle!Next
<1>7. CASE SendRequest(c) \/ TagRequestSent(c)
  BY <1>1, <1>7 DEF SendRequest, TagRequestSent, walletVars, Lifecycle!vars
<1> QED
  BY <1>4, <1>5, <1>6, <1>7 DEF CallerStep

\* A step of the listener completes a connection that is in "RequestSent" and has
\* been answered, or is a stutter.
LEMMA ListenerImplements ==
  ASSUME TypeOK, ProtocolInv, LifecycleInv, ListenerStep
  PROVE  [Lifecycle!Next]_Lifecycle!vars
<1>1. replies' = replies
  BY DEF ListenerStep
<1>2. CASE StoreComplete
  <2>1. message.about \in Connection /\ message.from = KeyOf[message.about]
    BY <1>2 DEF StoreComplete, TypeOK, ListenerTyped, Message, LifecycleInv, SenderInv
  <2>2. state[message.about] = "RequestSent" /\ replies[message.about] > 0
    BY <1>2 DEF StoreComplete, LifecycleInv, RewriteInv, ProtocolInv, ReplyInv, ResponseInv
  <2>3. Lifecycle!Complete(message.about)
    BY <1>1, <1>2, <2>1, <2>2 DEF StoreComplete, UpdateValue, Lifecycle!Complete,
                                  Lifecycle!Move
  <2> QED
    BY <2>1, <2>3 DEF Lifecycle!Next
<1>3. CASE UNCHANGED <<state, peerVerkey>>
  BY <1>1, <1>3 DEF Lifecycle!vars
<1> QED
  BY <1>2, <1>3 DEF ListenerStep, ReceiveMessage, ReadResponse, TagComplete, ListenerSendPing,
                    ListenerRecordPing, ReadPingResponse, ReadStray, walletVars

\* A step of the tracker abandons a complete connection, or is a stutter: an
\* abandoned record is only written over with itself.
LEMMA TrackerImplements ==
  ASSUME TypeOK, ProtocolInv, LifecycleInv, TrackerStep
  PROVE  [Lifecycle!Next]_Lifecycle!vars
<1>1. replies' = replies
  BY DEF TrackerStep, peerVars
<1>2. CASE AbortStore
  <2>1. /\ current \in Connection
        /\ state[current] \in {"Complete", "Abandoned"}
        /\ readVerkey = peerVerkey[current]
    BY <1>2 DEF AbortStore, TypeOK, TrackerTyped, LifecycleInv, PingedInv, RewriteInv,
                ProtocolInv, OrderInv
  <2>2. peerVerkey' = peerVerkey
    BY <1>2, <2>1 DEF AbortStore, UpdateValue, TypeOK, WalletTyped
  <2>3. CASE state[current] = "Complete"
    <3>1. Lifecycle!Abandon(current)
      BY <1>1, <1>2, <2>2, <2>3 DEF AbortStore, UpdateValue, Lifecycle!Abandon, Lifecycle!Move
    <3> QED
      BY <2>1, <3>1 DEF Lifecycle!Next
  <2>4. CASE state[current] = "Abandoned"
    <3>1. state' = state
      BY <1>2, <2>1, <2>4 DEF AbortStore, UpdateValue, TypeOK, WalletTyped
    <3> QED
      BY <1>1, <2>2, <3>1 DEF Lifecycle!vars
  <2> QED
    BY <2>1, <2>3, <2>4
<1>3. CASE UNCHANGED <<state, peerVerkey>>
  BY <1>1, <1>3 DEF Lifecycle!vars
<1> QED
  BY <1>2, <1>3 DEF TrackerStep, ScanStart, ScanNext, ScanGet, ScanDone, AbortRead, AbortTag,
                    AbortRemove, Sleep, walletVars

\* A step of a peer answers a connection that has been started, or is a stutter.
LEMMA PeerImplements ==
  ASSUME TypeOK, ProtocolInv, LifecycleInv, NEW c \in Connection, PeerStep(c)
  PROVE  [Lifecycle!Next]_Lifecycle!vars
<1>1. UNCHANGED <<state, peerVerkey>>
  BY DEF PeerStep, walletVars
<1>2. CASE PeerResponds(c)
  <2>1. state[c] # "absent"
    BY <1>2 DEF PeerResponds, ProtocolInv, OrderInv, Asked, LifecycleInv, RecordInv
  <2>2. {d \in Connection : replies'[d] > 0} = {d \in Connection : replies[d] > 0} \cup {c}
    BY <1>2 DEF PeerResponds, TypeOK, PeersTyped
  <2>3. Lifecycle!Answer(c)
    BY <1>1, <2>1, <2>2 DEF Lifecycle!Answer
  <2> QED
    BY <2>3 DEF Lifecycle!Next
<1>3. CASE replies' = replies
  BY <1>1, <1>3 DEF Lifecycle!vars
<1> QED
  BY <1>2, <1>3 DEF PeerStep, PeerAnswersPing, PeerSendsStray

\* The records go through the states of the protocol in their order, complete
\* once and with the key of their peer, and keep it; abandoned is abandoned.
THEOREM ImplementsLifecycle ==
  ASSUME NoEarlyPing
  PROVE  Spec => LifecycleSpec
<1>1. Init => Lifecycle!Init
  BY DEF Init, Lifecycle!Init
<1>2. TypeOK /\ ProtocolInv /\ LifecycleInv /\ [Next]_vars => [Lifecycle!Next]_Lifecycle!vars
  <2> SUFFICES ASSUME TypeOK, ProtocolInv, LifecycleInv, [Next]_vars
               PROVE  [Lifecycle!Next]_Lifecycle!vars
    OBVIOUS
  <2>1. ASSUME NEW c \in Connection, PingerStep(c)
        PROVE  [Lifecycle!Next]_Lifecycle!vars
    BY <2>1 DEF PingerStep, walletVars, Lifecycle!vars
  <2>2. CASE Tick \/ UNCHANGED vars
    BY <2>2 DEF Tick, vars, walletVars, peerVars, Lifecycle!vars
  <2> QED
    BY <2>1, <2>2, CallerImplements, ListenerImplements, TrackerImplements, PeerImplements
       DEF Next
<1> QED
  BY <1>1, <1>2, TypeCorrect, ProtocolCorrect, LifecycleCorrect, PTL
     DEF Spec, LifecycleSpec, Lifecycle!Spec

=============================================================================
