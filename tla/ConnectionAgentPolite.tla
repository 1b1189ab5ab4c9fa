------------------------- MODULE ConnectionAgentPolite -------------------------
(***************************************************************************)
(* What the agent owes to an application, a network or peers that behave,  *)
(* each theorem from what it needs of them:                                *)
(*   - if the application pings no connection before its onCompleted       *)
(*     callback, a completed connection stays found by the key of its      *)
(*     peer, but for a connect() that has not returned, and no complete    *)
(*     connection with a silent peer is left unwatched;                    *)
(*   - if no response arrives before connect() has returned either, no     *)
(*     peer repeats its response or sends a message without a handler, and *)
(*     no send throws, then the listener never dies.                       *)
(* Sends may be lost, and the tracker may abandon what it likes.           *)
(***************************************************************************)
EXTENDS ConnectionAgentRefinement

-----------------------------------------------------------------------------
(***************************************************************************)
(* A completed connection stays found                                      *)
(***************************************************************************)

\* The record of a completed connection keeps the key of its peer, whoever rewrites it.
KeyInv ==
  /\ \A c \in completed : peerVerkey[c] = KeyOf[c]
  /\ listener = "tag" => peerVerkey[message.about] = KeyOf[message.about]
  /\ tracker \in {"store", "tag"} => readVerkey = KeyOf[current]

LEMMA CallerKeepsKey ==
  ASSUME TypeOK, ProtocolInv, KeyInv, NEW c \in Connection, CallerStep(c)
  PROVE  KeyInv'
<1>1. /\ UNCHANGED <<listenerVars, trackerVars>>
      /\ \A d \in Connection : d # c => peerVerkey'[d] = peerVerkey[d]
      /\ Asked(c) => peerVerkey'[c] = peerVerkey[c]
  BY CallerClearsKeys
<1>2. \A d \in completed : d \in Connection /\ Asked(d)
  BY ThreadTypes DEF ProtocolInv, OrderInv
<1>3. listener = "tag" => message.about \in Connection /\ Asked(message.about)
  BY ThreadTypes DEF ProtocolInv, ResponseInv
<1> QED
  BY <1>1, <1>2, <1>3 DEF KeyInv, listenerVars, trackerVars

LEMMA ListenerKeepsKey ==
  ASSUME TypeOK, ProtocolInv, LifecycleInv, KeyInv, ListenerStep
  PROVE  KeyInv'
<1>1. UNCHANGED trackerVars
  BY DEF ListenerStep
<1>2. CASE StoreComplete
  <2>1. message.about \in Connection /\ message.from = KeyOf[message.about]
    BY <1>2, ThreadTypes DEF StoreComplete, LifecycleInv, SenderInv
  <2> QED
    BY <1>1, <1>2, <2>1, ThreadTypes DEF StoreComplete, UpdateValue, KeyInv, trackerVars
<1>3. CASE TagComplete
  BY <1>1, <1>3 DEF TagComplete, KeyInv, trackerVars
<1>4. CASE UNCHANGED <<walletVars, completed>> /\ listener' # "tag"
  BY <1>1, <1>4 DEF KeyInv, walletVars, trackerVars
<1> QED
  BY <1>2, <1>3, <1>4 DEF ListenerStep, ReceiveMessage, ReadResponse, ListenerSendPing,
                          ListenerRecordPing, ReadPingResponse, ReadStray

LEMMA TrackerKeepsKey ==
  ASSUME TypeOK, LifecycleInv, KeyInv, TrackerStep
  PROVE  KeyInv'
<1>1. UNCHANGED listenerVars
  BY DEF TrackerStep
<1>2. CASE AbortRead
  <2>1. current' \in completed /\ readVerkey' = peerVerkey[current'] /\ walletVars' = walletVars
    BY <1>2 DEF AbortRead, LifecycleInv, PingedInv
  <2> QED
    BY <1>1, <2>1 DEF KeyInv, walletVars, listenerVars
<1>3. CASE AbortStore
  <2>1. current \in Connection /\ readVerkey = KeyOf[current]
    BY <1>3, ThreadTypes DEF AbortStore, KeyInv
  <2> QED
    BY <1>1, <1>3, <2>1, ThreadTypes DEF AbortStore, UpdateValue, KeyInv, listenerVars
<1>4. CASE UNCHANGED peerVerkey /\ tracker' \notin {"store", "tag"}
  BY <1>1, <1>4 DEF KeyInv, listenerVars
<1> QED
  BY <1>2, <1>3, <1>4 DEF TrackerStep, ScanStart, ScanNext, ScanGet, ScanDone, AbortTag,
                          AbortRemove, Sleep, walletVars

LEMMA KeyCorrect ==
  ASSUME NoEarlyPing
  PROVE  Spec => []KeyInv
<1>1. Init => KeyInv
  BY DEF Init, KeyInv
<1>2. TypeOK /\ ProtocolInv /\ LifecycleInv /\ KeyInv /\ [Next]_vars => KeyInv'
  <2> SUFFICES ASSUME TypeOK, ProtocolInv, LifecycleInv, KeyInv, [Next]_vars
               PROVE  KeyInv'
    OBVIOUS
  <2>1. CASE UNCHANGED <<walletVars, listenerVars, trackerVars>>
    BY <2>1 DEF KeyInv, walletVars, listenerVars, trackerVars
  <2>2. ASSUME NEW c \in Connection, PingerStep(c) \/ PeerStep(c)
        PROVE  KeyInv'
    BY <2>1, <2>2 DEF PingerStep, PeerStep
  <2>3. CASE Tick \/ UNCHANGED vars
    BY <2>1, <2>3 DEF Tick, vars
  <2> QED
    BY <2>2, <2>3, CallerKeepsKey, ListenerKeepsKey, TrackerKeepsKey DEF Next
<1> QED
  BY <1>1, <1>2, TypeCorrect, ProtocolCorrect, LifecycleCorrect, PTL DEF Spec

\* A step that leaves a completed connection without its key in its tag.
Unfinds(c) ==
  /\ c \in completed' /\ c \notin FoundBy(KeyOf[c])'
  /\ c \in completed => c \in FoundBy(KeyOf[c])

\* The tags that the threads write are keys, but for the one of connect().
LEMMA OnlyConnectUnfinds ==
  ASSUME TypeOK, ProtocolInv, LifecycleInv, KeyInv, [Next]_vars,
         NEW c \in Connection, Unfinds(c)
  PROVE  caller[c] = "stored" /\ caller'[c] = "returned"
<1>1. c \in completed' /\ tag'[c] # KeyOf[c] /\ (c \in completed => tag[c] = KeyOf[c])
  BY DEF Unfinds, FoundBy
<1>2. ASSUME NEW d \in Connection, CallerStep(d)
      PROVE  caller[c] = "stored" /\ caller'[c] = "returned"
  <2>1. completed' = completed /\ (d # c => tag'[c] = tag[c])
    BY <1>2, CallerClearsKeys DEF listenerVars
  <2>2. d = c /\ Asked(c)
    BY <1>1, <2>1 DEF ProtocolInv, OrderInv
  <2> QED
    BY <1>1, <1>2, <2>1, <2>2, ThreadTypes DEF CallerStep, Connect, DeclineInvitation,
       SendRequest, StoreRequestSent, TagRequestSent, Asked, walletVars
<1>3. CASE ListenerStep
  <2>1. CASE TagComplete
    <3>1. message.about \in Connection /\ message.from = KeyOf[message.about]
      BY <2>1, ThreadTypes DEF TagComplete, LifecycleInv, SenderInv
    <3> QED
      BY <1>1, <2>1, <3>1, ThreadTypes DEF TagComplete, UpdateTags
  <2>2. CASE UNCHANGED <<tag, completed>>
    BY <1>1, <2>2
  <2> QED
    BY <1>3, <2>1, <2>2 DEF ListenerStep, ReceiveMessage, ReadResponse, StoreComplete,
         ListenerSendPing, ListenerRecordPing, ReadPingResponse, ReadStray, walletVars
<1>4. CASE TrackerStep
  <2>1. completed' = completed
    BY <1>4 DEF TrackerStep, listenerVars
  <2>2. CASE AbortTag
    BY <1>1, <2>1, <2>2, ThreadTypes DEF AbortTag, UpdateTags, KeyInv
  <2>3. CASE tag' = tag
    BY <1>1, <2>1, <2>3
  <2> QED
    BY <1>4, <2>2, <2>3 DEF TrackerStep, ScanStart, ScanNext, ScanGet, ScanDone, AbortRead,
                            AbortStore, AbortRemove, Sleep, walletVars
<1>5. ~UNCHANGED <<tag, completed>>
  BY <1>1
<1>6. \A d \in Connection : ~PingerStep(d) /\ ~PeerStep(d)
  BY <1>5 DEF PingerStep, PeerStep, walletVars, listenerVars
<1>7. ~Tick /\ ~UNCHANGED vars
  BY <1>5 DEF Tick, vars, walletVars, listenerVars
<1> QED
  BY <1>2, <1>3, <1>4, <1>6, <1>7 DEF Next

\* If the application pings no connection too early, a connection whose onCompleted has
\* been called stays found by the key of its peer, in every step of every thread but the
\* last write of its own connect() (storeConnectionRecord, AbortConnection).
THEOREM FoundForGood ==
  ASSUME NoEarlyPing
  PROVE  Spec => CompletedStaysFound
<1> DEFINE Kept == \A c \in Connection :
             Unfinds(c) => caller[c] = "stored" /\ caller'[c] = "returned"
<1>1. TypeOK /\ ProtocolInv /\ LifecycleInv /\ KeyInv /\ [Next]_vars => [Kept]_vars
  BY OnlyConnectUnfinds
<1> HIDE DEF Kept
<1>2. Spec => [][Kept]_vars
  BY <1>1, TypeCorrect, ProtocolCorrect, LifecycleCorrect, KeyCorrect, PTL DEF Spec
<1> QED
  BY <1>2 DEF Kept, Unfinds, CompletedStaysFound

-----------------------------------------------------------------------------
(***************************************************************************)
(* A silent peer is watched                                                *)
(***************************************************************************)

\* No answer to any ping has come that was signed with the key of the peer of c.
Silent(c) == \A d \in Connection : KeyOf[c] = KeyOf[d] => answered[d] = 0

\* A call that has sent a ping to c has not yet told the tracker.
Telling(c) == pinger[c] # "idle" \/ (listener = "pinged" /\ message.about = c)

\* A silent peer that has been pinged is watched until the record is abandoned, which
\* it is before its entry goes.
WatchInv ==
  /\ \A c \in Connection :
       /\ pinged[c] > 0 => c \in completed
       /\ pinged[c] > 0 /\ Silent(c) /\ ~Telling(c) =>
            sentPings[c] # None \/ state[c] = "Abandoned"
  /\ tracker \in {"tag", "remove"} => state[current] = "Abandoned"

LEMMA CallerKeepsWatch ==
  ASSUME TypeOK, ProtocolInv, LifecycleInv, WatchInv, NEW c \in Connection, CallerStep(c)
  PROVE  WatchInv'
<1>1. /\ UNCHANGED <<listenerVars, trackerVars, sentPings, pinged, answered, pinger>>
      /\ \A d \in Connection : d # c \/ Asked(d) => state'[d] = state[d]
  BY CallerClearsKeys
<1>2. \A d \in completed : Asked(d) /\ d \in Connection
  BY ThreadTypes DEF ProtocolInv, OrderInv
<1>3. tracker \in {"tag", "remove"} => current \in completed
  BY DEF LifecycleInv, PingedInv
<1> QED
  BY <1>1, <1>2, <1>3 DEF WatchInv, Silent, Telling, listenerVars, trackerVars

LEMMA ListenerKeepsWatch ==
  ASSUME TypeOK, ProtocolInv, KeysInv, LifecycleInv, WatchInv, ListenerStep
  PROVE  WatchInv'
<1>1. UNCHANGED <<trackerVars, pinger>>
  BY DEF ListenerStep, appVars
<1>2. tracker \in {"tag", "remove"} => current \in completed /\ current \in Connection
  BY ThreadTypes DEF LifecycleInv, PingedInv
<1>3. CASE StoreComplete
  <2>1. /\ state' = [state EXCEPT ![message.about] = "Complete"] /\ listener' = "tag"
        /\ UNCHANGED <<message, completed, sentPings, pinged, answered>>
        /\ message.about \in Connection /\ message.about \notin completed
        /\ listener # "pinged"
    BY <1>3, ThreadTypes DEF StoreComplete, UpdateValue, pingVars, ProtocolInv, ResponseInv
  <2>2. \A d \in Connection : d \in completed => state'[d] = state[d]
    BY <2>1, ThreadTypes
  <2> QED
    BY <1>1, <1>2, <2>1, <2>2 DEF WatchInv, Silent, Telling, trackerVars
<1>4. CASE TagComplete
  <2>1. /\ completed' = completed \cup {message.about} /\ listener' = "ping"
        /\ UNCHANGED <<state, message, sentPings, pinged, answered>> /\ listener # "pinged"
    BY <1>4 DEF TagComplete, pingVars
  <2> QED
    BY <1>1, <2>1 DEF WatchInv, Silent, Telling, trackerVars
<1>5. CASE ListenerSendPing /\ listener' = "pinged"
  <2>1. /\ UNCHANGED <<state, message, completed, sentPings, answered>> /\ listener = "ping"
        /\ PingLeaves(message.about) /\ message.about \in Connection
        /\ message.about \in completed
    BY <1>5, ThreadTypes DEF ListenerSendPing, walletVars, pingVars, LifecycleInv, PingedInv
  <2>2. \A d \in Connection : d # message.about => pinged'[d] = pinged[d]
    BY <2>1, PingLeavesCounted
  <2> QED
    BY <1>1, <1>5, <2>1, <2>2 DEF WatchInv, Silent, Telling, trackerVars
<1>6. CASE ListenerRecordPing
  <2>1. /\ UNCHANGED <<state, completed, pinged, answered>> /\ listener' = "receive"
        /\ sentPings' = [sentPings EXCEPT ![message.about] = now]
        /\ message.about \in Connection
    BY <1>6, ThreadTypes DEF ListenerRecordPing, PutPing, walletVars
  <2>2. /\ sentPings'[message.about] # None
        /\ \A d \in Connection : d # message.about => sentPings'[d] = sentPings[d]
    BY <2>1, ThreadTypes, ConstantsAssumption
  <2> QED
    BY <1>1, <2>1, <2>2 DEF WatchInv, Silent, Telling, trackerVars
<1>7. CASE ReadPingResponse /\ context # None
  <2>1. /\ UNCHANGED <<state, completed, pinged>> /\ listener' = "receive"
        /\ listener = "dispatch"
        /\ sentPings' = [sentPings EXCEPT ![context] = None]
        /\ answered' = [answered EXCEPT ![message.about] = @ + 1]
        /\ context \in Connection /\ message.about \in Connection
        /\ KeyOf[context] = KeyOf[message.about]
    BY <1>7, ThreadTypes DEF ReadPingResponse, RemovePing, walletVars, KeysInv, SenderInv,
                             TagsAreKeys
  <2>2. answered'[message.about] # 0 /\ \A d \in Connection : answered'[d] = 0 => answered[d] = 0
    BY <2>1, ThreadTypes
  <2>3. \A d \in Connection : Silent(d)' => Silent(d) /\ d # context
    BY <2>1, <2>2 DEF Silent
  <2>4. \A d \in Connection : d # context => sentPings'[d] = sentPings[d]
    BY <2>1, ThreadTypes
  <2> QED
    BY <1>1, <2>1, <2>3, <2>4 DEF WatchInv, Telling, trackerVars
<1>8. CASE /\ UNCHANGED <<state, completed, sentPings, pinged, answered>>
           /\ listener # "pinged" /\ listener' # "pinged"
  BY <1>1, <1>8 DEF WatchInv, Silent, Telling, trackerVars
<1> QED
  BY <1>3, <1>4, <1>5, <1>6, <1>7, <1>8 DEF ListenerStep, ReceiveMessage, ReadResponse,
       ListenerSendPing, ReadPingResponse, ReadStray, walletVars, pingVars

LEMMA TrackerKeepsWatch ==
  ASSUME TypeOK, WatchInv, TrackerStep
  PROVE  WatchInv'
<1>1. UNCHANGED <<listenerVars, pinger, pinged, answered>>
  BY DEF TrackerStep, appVars, historyVars
<1>2. CASE AbortStore
  <2>1. /\ state' = [state EXCEPT ![current] = "Abandoned"]
        /\ UNCHANGED <<sentPings, current>> /\ current \in Connection
    BY <1>2, ThreadTypes DEF AbortStore, UpdateValue, pingVars
  <2> QED
    BY <1>1, <2>1, ThreadTypes DEF WatchInv, Silent, Telling, listenerVars
<1>3. CASE AbortTag
  BY <1>1, <1>3 DEF AbortTag, WatchInv, Silent, Telling, pingVars, listenerVars
<1>4. CASE AbortRemove
  <2>1. /\ sentPings' = [sentPings EXCEPT ![current] = None]
        /\ state' = state /\ tracker' = "abort"
        /\ current \in Connection /\ state[current] = "Abandoned"
    BY <1>4, ThreadTypes DEF AbortRemove, RemovePing, walletVars, WatchInv
  <2> QED
    BY <1>1, <2>1, ThreadTypes DEF WatchInv, Silent, Telling, listenerVars
<1>5. CASE UNCHANGED <<state, sentPings>> /\ tracker' \notin {"tag", "remove"}
  BY <1>1, <1>5 DEF WatchInv, Silent, Telling, listenerVars
<1> QED
  BY <1>2, <1>3, <1>4, <1>5 DEF TrackerStep, ScanStart, ScanNext, ScanGet, ScanDone, AbortRead,
                                Sleep, walletVars, pingVars

LEMMA PingerKeepsWatch ==
  ASSUME NoEarlyPing, TypeOK, LifecycleInv, WatchInv, NEW c \in Connection, PingerStep(c)
  PROVE  WatchInv'
<1>1. UNCHANGED <<state, listenerVars, trackerVars, answered>>
  BY DEF PingerStep, walletVars
<1>2. pinger \in [Connection -> PingerPC] /\ appPings[c] \in Nat
  BY DEF TypeOK, AppTyped
<1>3. CASE AppSendPing(c)
  <2>1. /\ sentPings' = sentPings /\ pinger' = [pinger EXCEPT ![c] = "sent"] /\ PingLeaves(c)
        /\ c \in completed
    BY <1>2, <1>3 DEF AppSendPing, MayPing, NoEarlyPing, pingVars
  <2>2. \A d \in Connection : d # c => pinged'[d] = pinged[d] /\ pinger'[d] = pinger[d]
    BY <1>2, <2>1, PingLeavesCounted
  <2>3. pinger'[c] # "idle"
    BY <1>2, <2>1
  <2> QED
    BY <1>1, <2>1, <2>2, <2>3 DEF WatchInv, Silent, Telling, listenerVars, trackerVars
<1>4. CASE AppRecordPing(c)
  <2>1. /\ sentPings' = [sentPings EXCEPT ![c] = now] /\ pinged' = pinged
        /\ pinger' = [pinger EXCEPT ![c] = "idle"]
    BY <1>4 DEF AppRecordPing, PutPing
  <2>2. /\ sentPings'[c] # None
        /\ \A d \in Connection : d # c => sentPings'[d] = sentPings[d] /\ pinger'[d] = pinger[d]
    BY <1>2, <2>1, ThreadTypes, ConstantsAssumption
  <2> QED
    BY <1>1, <2>1, <2>2 DEF WatchInv, Silent, Telling, listenerVars, trackerVars
<1> QED
  BY <1>3, <1>4 DEF PingerStep

LEMMA WatchCorrect ==
  ASSUME NoEarlyPing
  PROVE  Spec => []WatchInv
<1>1. Init => WatchInv
  BY DEF Init, WatchInv
<1>2. TypeOK /\ ProtocolInv /\ KeysInv /\ LifecycleInv /\ WatchInv /\ [Next]_vars => WatchInv'
  <2> SUFFICES ASSUME TypeOK, ProtocolInv, KeysInv, LifecycleInv, WatchInv, [Next]_vars
               PROVE  WatchInv'
    OBVIOUS
  <2>1. CASE UNCHANGED <<state, listenerVars, trackerVars, sentPings, pinger, historyVars>>
    BY <2>1 DEF WatchInv, Silent, Telling, listenerVars, trackerVars, historyVars
  <2>2. ASSUME NEW c \in Connection, PeerStep(c)
        PROVE  WatchInv'
    BY <2>1, <2>2 DEF PeerStep, walletVars, pingVars, appVars
  <2>3. CASE Tick \/ UNCHANGED vars
    BY <2>1, <2>3 DEF Tick, vars, walletVars, pingVars, appVars
  <2> QED
    BY <2>2, <2>3, CallerKeepsWatch, PingerKeepsWatch, ListenerKeepsWatch, TrackerKeepsWatch
       DEF Next
<1> QED
  BY <1>1, <1>2, TypeCorrect, ProtocolCorrect, KeysCorrect, LifecycleCorrect, PTL DEF Spec

\* If the application pings no connection too early, a peer from which no answer has
\* come is watched as long as its connection is complete, whatever the tracker removes
\* and however the calls that ping it interleave (TrackingService, abortDeadConnections).
THEOREM SilentPeersAreWatched ==
  ASSUME NoEarlyPing
  PROVE  Spec => []SilentPeersAreTracked
<1>1. WatchInv => SilentPeersAreTracked
  BY DEF WatchInv, Silent, Telling, SilentPeersAreTracked
<1> QED
  BY <1>1, WatchCorrect, PTL

-----------------------------------------------------------------------------
(***************************************************************************)
(* A listener that survives                                                *)
(***************************************************************************)

\* No response arrives before connect() has returned.
NoPromptResponse == "prompt_response" \notin Env

\* Nobody repeats a response or sends a message without a handler, no send throws,
\* and nobody responds or pings too early.
Polite ==
  /\ Env \subseteq {"send_lost"}
  /\ MaxReplies <= 1
  /\ MaxStrays = 0

\* No exception has left listen().
ListenerAlive == listener # "dead"

\* Whatever a peer or the listener has done for a connection came after connect(), and a
\* completed connection is found by the key of its peer.
PatientInv ==
  \A c \in Connection :
    /\ replies[c] > 0 \/ c \in completed => caller[c] = "returned"
    /\ c \in completed => c \in FoundBy(KeyOf[c])

LEMMA PatientCorrect ==
  ASSUME NoPromptResponse, NoEarlyPing
  PROVE  Spec => []PatientInv
<1>1. Init => PatientInv
  BY DEF Init, PatientInv
<1>2. TypeOK /\ ProtocolInv /\ LifecycleInv /\ KeyInv /\ PatientInv /\ [Next]_vars => PatientInv'
  <2> SUFFICES ASSUME TypeOK, ProtocolInv, LifecycleInv, KeyInv, PatientInv, [Next]_vars,
                      NEW c \in Connection
               PROVE  /\ replies'[c] > 0 \/ c \in completed' => caller'[c] = "returned"
                      /\ c \in completed' => c \in FoundBy(KeyOf[c])'
    BY DEF PatientInv
  <2>1. caller[c] = "returned" => caller'[c] = "returned"
    <3>1. ASSUME NEW d \in Connection, CallerStep(d)
          PROVE  caller[c] = "returned" => caller'[c] = "returned"
      BY <3>1, ThreadTypes DEF CallerStep, Connect, DeclineInvitation, SendRequest,
                               StoreRequestSent, TagRequestSent
    <3> QED
      BY <3>1 DEF Next, PingerStep, PeerStep, ListenerStep, TrackerStep, Tick, vars, appVars
  <2>2. replies'[c] > 0 => replies[c] > 0 \/ caller[c] = "returned"
    <3>1. ASSUME NEW d \in Connection, PeerStep(d)
          PROVE  replies'[c] > 0 => replies[c] > 0 \/ caller[c] = "returned"
      BY <3>1, ThreadTypes DEF PeerStep, PeerResponds, PeerAnswersPing, PeerSendsStray,
                               NoPromptResponse
    <3> QED
      BY <3>1 DEF Next, CallerStep, PingerStep, ListenerStep, TrackerStep, Tick, vars, peerVars
  <2>3. c \in completed' => c \in completed \/ replies[c] > 0
    <3>1. TagComplete => replies[message.about] > 0
      BY DEF TagComplete, ProtocolInv, ReplyInv, ResponseInv
    <3>2. ListenerStep => completed' = completed \/ TagComplete
      BY DEF ListenerStep, ReceiveMessage, ReadResponse, StoreComplete, ListenerSendPing,
             ListenerRecordPing, ReadPingResponse, ReadStray
    <3>3. TagComplete => completed' = completed \cup {message.about}
      BY DEF TagComplete
    <3> QED
      BY <3>1, <3>2, <3>3 DEF Next, CallerStep, PingerStep, PeerStep, TrackerStep, Tick, vars,
                              listenerVars
  <2>4. replies'[c] > 0 \/ c \in completed' => caller'[c] = "returned" /\ caller[c] # "stored"
    BY <2>1, <2>2, <2>3 DEF PatientInv
  <2>5. ~Unfinds(c)
    BY <2>4, OnlyConnectUnfinds DEF Unfinds
  <2> QED
    BY <2>4, <2>5 DEF PatientInv, Unfinds
<1> QED
  BY <1>1, <1>2, TypeCorrect, ProtocolCorrect, LifecycleCorrect, KeyCorrect, PTL DEF Spec

\* A peer answers once; until then the record waits.
OnceInv ==
  \A c \in Connection :
    /\ replies[c] \in {0, 1}
    /\ replies[c] = 0 /\ Asked(c) => state[c] = "RequestSent"
    /\ c \in completed => replies[c] > 0

\* A response in the inbox is the only one of its connection, which waits for it;
\* a ping response is one of a completed connection.
InboxInv ==
  /\ \A i \in 1..Len(inbox) :
       /\ inbox[i].type # "stray"
       /\ inbox[i].type = "ping_response" => inbox[i].about \in completed
       /\ inbox[i].type = "response" =>
            /\ state[inbox[i].about] = "RequestSent"
            /\ (listener \in {"dispatch", "store"} /\ message.type = "response")
                 => message.about # inbox[i].about
  /\ \A i, j \in 1..Len(inbox) :
       (/\ inbox[i].type = "response" /\ inbox[j].type = "response"
        /\ inbox[i].about = inbox[j].about)
         => i = j

\* No message that the listener dispatches makes its handler throw.
DispatchInv ==
  listener = "dispatch" =>
    /\ message.type # "stray"
    /\ message.type = "ping_response" => context # None
    /\ message.type = "response" => state[message.about] = "RequestSent"

PoliteInv == OnceInv /\ InboxInv /\ DispatchInv /\ ListenerAlive

LEMMA CallerKeepsPolite ==
  ASSUME Polite, TypeOK, ProtocolInv, LifecycleInv, PatientInv, PoliteInv, NEW c \in Connection, CallerStep(c)
  PROVE  PoliteInv'
<1>1. UNCHANGED <<listenerVars, trackerVars, inbox, replies>>
  BY DEF CallerStep
<1>2. caller[c] # "returned" /\ replies[c] = 0 /\ c \notin completed
  BY ThreadTypes DEF CallerStep, Connect, DeclineInvitation, SendRequest, StoreRequestSent,
                     TagRequestSent, PatientInv, PoliteInv, OnceInv
<1>3. \A d \in Connection \ {c} : /\ state'[d] = state[d] /\ peerVerkey'[d] = peerVerkey[d]
                                  /\ tag'[d] = tag[d] /\ caller'[d] = caller[d]
  BY ThreadTypes DEF CallerStep, Connect, DeclineInvitation, SendRequest, StoreRequestSent,
                     TagRequestSent, UpdateValue, UpdateTags, walletVars
<1>4. Asked(c)' => state'[c] = "RequestSent"
  BY <1>2, ThreadTypes DEF CallerStep, Connect, DeclineInvitation, SendRequest,
       StoreRequestSent, TagRequestSent, UpdateValue, Asked, PoliteInv, OnceInv
<1>5. OnceInv'
  BY <1>1, <1>2, <1>3, <1>4 DEF PoliteInv, OnceInv, Asked, listenerVars
<1>6. /\ \A i \in 1..Len(inbox) : inbox[i].type = "response" => inbox[i].about # c
      /\ (listener # "receive" /\ message.type = "response") => message.about # c
  BY <1>2 DEF ProtocolInv, ReplyInv
<1>7. InboxInv' /\ DispatchInv'
  BY <1>1, <1>3, <1>6, ThreadTypes DEF PoliteInv, InboxInv, DispatchInv, listenerVars
<1> QED
  BY <1>1, <1>5, <1>7 DEF PoliteInv, ListenerAlive, listenerVars

LEMMA ListenerKeepsPolite ==
  ASSUME Polite, TypeOK, ProtocolInv, LifecycleInv, PatientInv, PoliteInv, ListenerStep
  PROVE  PoliteInv'
<1>1. UNCHANGED <<trackerVars, replies, caller>>
  BY DEF ListenerStep, appVars
<1>2. CASE ReceiveMessage
  <2>1. /\ UNCHANGED <<walletVars, completed>>
        /\ listener = "receive" /\ listener' = "dispatch"
        /\ inbox # <<>> /\ message' = Head(inbox) /\ inbox' = Tail(inbox)
    BY <1>2 DEF ReceiveMessage
  <2>2. OnceInv' /\ ListenerAlive'
    BY <1>1, <2>1 DEF PoliteInv, OnceInv, ListenerAlive, Asked, walletVars
  <2>3. /\ message' = inbox[1] /\ 1 \in 1..Len(inbox)
        /\ \A i \in 1..Len(inbox') : i + 1 \in 1..Len(inbox) /\ inbox'[i] = inbox[i + 1]
        /\ \A i \in 1..Len(inbox') : i + 1 # 1 /\ \A j \in 1..Len(inbox') : i + 1 = j + 1 => i = j
        /\ Len(inbox') \in Nat
    BY <2>1, ThreadTypes, TailElements
  <2>4. InboxInv'
    <3>1. ASSUME NEW i \in 1..Len(inbox')
          PROVE  /\ inbox'[i].type # "stray"
                 /\ inbox'[i].type = "ping_response" => inbox'[i].about \in completed
                 /\ inbox'[i].type = "response" => state[inbox'[i].about] = "RequestSent"
                 /\ inbox'[i].type = "response" /\ message'.type = "response"
                      => message'.about # inbox'[i].about
      BY <2>3 DEF PoliteInv, InboxInv
    <3>2. ASSUME NEW i \in 1..Len(inbox'), NEW j \in 1..Len(inbox'),
                 inbox'[i].type = "response", inbox'[j].type = "response",
                 inbox'[i].about = inbox'[j].about
          PROVE  i = j
      BY <2>3, <3>2 DEF PoliteInv, InboxInv
    <3> QED
      BY <2>1, <3>1, <3>2 DEF InboxInv, walletVars
  <2>5. DispatchInv'
    <3>1. /\ message'.type # "stray"
          /\ message'.type = "response" => state[message'.about] = "RequestSent"
      BY <2>3 DEF PoliteInv, InboxInv
    <3>2. message'.type = "ping_response" => context' # None
      <4> SUFFICES ASSUME message'.type = "ping_response" PROVE context' # None
        OBVIOUS
      <4>1. message'.about \in completed /\ message'.from = KeyOf[message'.about]
        BY <2>3 DEF PoliteInv, InboxInv, LifecycleInv, SenderInv
      <4>2. message'.about \in FoundBy(Head(inbox).from)
        BY <2>1, <4>1, ThreadTypes DEF PatientInv, FoundBy
      <4> QED
        BY <1>2, <4>2, ConstantsAssumption DEF ReceiveMessage, FoundBy
    <3> QED
      BY <2>1, <3>1, <3>2 DEF DispatchInv, walletVars
  <2> QED
    BY <2>2, <2>4, <2>5 DEF PoliteInv
<1>3. CASE ReadResponse
  <2>1. listener' = "store"
    BY <1>3 DEF ReadResponse, PoliteInv, DispatchInv
  <2> QED
    BY <1>1, <1>3, <2>1 DEF ReadResponse, PoliteInv, OnceInv, InboxInv, DispatchInv,
                            ListenerAlive, Asked, walletVars
<1>4. CASE StoreComplete
  <2>1. /\ state' = [state EXCEPT ![message.about] = "Complete"]
        /\ peerVerkey' = [peerVerkey EXCEPT ![message.about] = message.from]
        /\ UNCHANGED <<tag, inbox, message, completed>>
        /\ listener = "store" /\ listener' = "tag"
    BY <1>4 DEF StoreComplete, UpdateValue
  <2>2. /\ message.about \in Connection /\ message.type = "response"
        /\ message.about \notin completed
        /\ replies[message.about] > 0 /\ message.from = KeyOf[message.about]
    BY <2>1, ThreadTypes DEF ProtocolInv, ReplyInv, ResponseInv, LifecycleInv, SenderInv
  <2>3. OnceInv'
    BY <1>1, <2>1, <2>2, ThreadTypes DEF PoliteInv, OnceInv, Asked
  <2>4. InboxInv'
    BY <2>1, <2>2, ThreadTypes DEF PoliteInv, InboxInv
  <2> QED
    BY <2>1, <2>3, <2>4 DEF PoliteInv, DispatchInv, ListenerAlive
<1>5. CASE TagComplete
  <2>1. /\ tag' = [tag EXCEPT ![message.about] = message.from]
        /\ completed' = completed \cup {message.about}
        /\ UNCHANGED <<state, peerVerkey, inbox, message>>
        /\ listener = "tag" /\ listener' = "ping"
    BY <1>5 DEF TagComplete, UpdateTags
  <2>2. /\ message.about \in Connection /\ replies[message.about] > 0
        /\ message.from = KeyOf[message.about]
    BY <2>1, ThreadTypes DEF ProtocolInv, ReplyInv, ResponseInv, LifecycleInv, SenderInv
  <2> QED
    BY <1>1, <2>1, <2>2, ThreadTypes DEF PoliteInv, OnceInv, InboxInv, DispatchInv,
                                         ListenerAlive, Asked
<1>6. CASE ListenerSendPing \/ ListenerRecordPing \/ ReadPingResponse
  <2>1. UNCHANGED <<walletVars, inbox, completed>> /\ listener' \in {"pinged", "receive"}
    BY <1>6 DEF ListenerSendPing, ListenerRecordPing, ReadPingResponse, Polite, PoliteInv,
                DispatchInv
  <2> QED
    BY <1>1, <2>1 DEF PoliteInv, OnceInv, InboxInv, DispatchInv, ListenerAlive, Asked,
                      walletVars
<1>7. ~ReadStray
  BY DEF ReadStray, PoliteInv, DispatchInv
<1> QED
  BY <1>2, <1>3, <1>4, <1>5, <1>6, <1>7 DEF ListenerStep

LEMMA TrackerKeepsPolite ==
  ASSUME Polite, TypeOK, ProtocolInv, LifecycleInv, PatientInv, PoliteInv, TrackerStep
  PROVE  PoliteInv'
<1>1. UNCHANGED <<listenerVars, peerVars, appVars>>
  BY DEF TrackerStep
<1>2. tracker \in {"store", "tag"} => /\ current \in Connection /\ current \in completed
                                     /\ state[current] \in {"Complete", "Abandoned"}
  BY ThreadTypes DEF LifecycleInv, PingedInv, ProtocolInv, OrderInv
<1>3. OnceInv' /\ InboxInv' /\ DispatchInv'
  <2>1. CASE AbortStore
    <3>1. \A c \in Connection : state[c] = "RequestSent" => state'[c] = "RequestSent"
      BY <1>2, <2>1, ThreadTypes DEF AbortStore, UpdateValue
    <3>2. \A c \in Connection : replies[c] = 0 /\ Asked(c) => state[c] = "RequestSent"
      BY DEF PoliteInv, OnceInv
    <3>3. OnceInv'
      BY <1>1, <3>1, <3>2 DEF PoliteInv, OnceInv, Asked, listenerVars, peerVars, appVars
    <3>4. InboxInv' /\ DispatchInv'
      BY <1>1, <3>1, ThreadTypes DEF PoliteInv, InboxInv, DispatchInv, listenerVars, peerVars
    <3> QED
      BY <3>3, <3>4
  <2>2. CASE state' = state
    BY <1>1, <2>2 DEF PoliteInv, OnceInv, InboxInv, DispatchInv, Asked, listenerVars,
                      peerVars, appVars
  <2> QED
    BY <2>1, <2>2 DEF TrackerStep, ScanStart, ScanNext, ScanGet, ScanDone, AbortRead, AbortTag,
                      AbortRemove, Sleep, walletVars
<1> QED
  BY <1>1, <1>3 DEF PoliteInv, ListenerAlive, listenerVars

LEMMA PeerKeepsPolite ==
  ASSUME Polite, TypeOK, ProtocolInv, LifecycleInv, PatientInv, PoliteInv, NEW c \in Connection, PeerStep(c)
  PROVE  PoliteInv'
<1>1. UNCHANGED <<walletVars, listenerVars, trackerVars, caller>>
  BY DEF PeerStep, appVars
<1>2. DispatchInv' /\ ListenerAlive'
  BY <1>1 DEF PoliteInv, DispatchInv, ListenerAlive, walletVars, listenerVars
<1>3. PICK m \in Message :
        /\ inbox' = Append(inbox, m) /\ m.about = c
        /\ \/ m.type = "response" /\ PeerResponds(c)
           \/ m.type = "ping_response" /\ PeerAnswersPing(c)
  BY ConstantsAssumption DEF PeerStep, PeerResponds, PeerAnswersPing, PeerSendsStray, Deliver,
                             Message, MessageType, Polite, TypeOK, PeersTyped
<1>4. /\ Len(inbox) \in Nat /\ Len(inbox') = Len(inbox) + 1
      /\ \A i \in 1..Len(inbox) : inbox'[i] = inbox[i]
      /\ inbox'[Len(inbox) + 1] = m
      /\ \A i \in 1..Len(inbox') : i \in 1..Len(inbox) \/ i = Len(inbox) + 1
  BY <1>3, ThreadTypes, AppendElements
<1>5. CASE PeerResponds(c) /\ m.type = "response"
  <2>1. replies[c] = 0 /\ caller[c] = "returned" /\ state[c] = "RequestSent"
    BY <1>5, ThreadTypes, ConstantsAssumption DEF PeerResponds, Polite, PoliteInv, OnceInv, Asked
  <2>2. OnceInv'
    BY <1>1, <1>5, <2>1, ThreadTypes DEF PeerResponds, PoliteInv, OnceInv, Asked, walletVars,
                                         listenerVars
  <2>3. /\ \A i \in 1..Len(inbox) : inbox[i].type = "response" => inbox[i].about # c
        /\ (listener # "receive" /\ message.type = "response") => message.about # c
    BY <2>1 DEF ProtocolInv, ReplyInv
  <2>4. InboxInv'
    <3>1. ASSUME NEW i \in 1..Len(inbox')
          PROVE  /\ inbox'[i].type # "stray"
                 /\ inbox'[i].type = "ping_response" => inbox'[i].about \in completed
                 /\ inbox'[i].type = "response" =>
                      /\ state[inbox'[i].about] = "RequestSent"
                      /\ (listener \in {"dispatch", "store"} /\ message.type = "response")
                           => message.about # inbox'[i].about
      <4>1. CASE i \in 1..Len(inbox)
        BY <1>4, <4>1 DEF PoliteInv, InboxInv
      <4>2. CASE i = Len(inbox) + 1
        BY <1>4, <1>3, <1>5, <2>1, <2>3, <4>2
      <4> QED
        BY <1>4, <4>1, <4>2
    <3>2. ASSUME NEW i \in 1..Len(inbox'), NEW j \in 1..Len(inbox'),
                 inbox'[i].type = "response", inbox'[j].type = "response",
                 inbox'[i].about = inbox'[j].about
          PROVE  i = j
      <4>1. i \in 1..Len(inbox) => inbox'[i].about # c
        BY <1>4, <2>3, <3>2
      <4>2. j \in 1..Len(inbox) => inbox'[j].about # c
        BY <1>4, <2>3, <3>2
      <4>3. CASE i \in 1..Len(inbox) /\ j \in 1..Len(inbox)
        BY <1>4, <3>2, <4>3 DEF PoliteInv, InboxInv
      <4> QED
        BY <1>4, <1>3, <3>2, <4>1, <4>2, <4>3
    <3> QED
      BY <1>1, <3>1, <3>2 DEF InboxInv, walletVars, listenerVars
  <2> QED
    BY <1>2, <2>2, <2>4 DEF PoliteInv
<1>6. CASE PeerAnswersPing(c) /\ m.type = "ping_response"
  <2>1. replies' = replies /\ c \in completed
    BY <1>6 DEF PeerAnswersPing, LifecycleInv, PingedInv
  <2>2. OnceInv'
    BY <1>1, <2>1 DEF PoliteInv, OnceInv, Asked, walletVars, listenerVars
  <2>3. InboxInv'
    <3>1. ASSUME NEW i \in 1..Len(inbox')
          PROVE  \/ i \in 1..Len(inbox) /\ inbox'[i] = inbox[i]
                 \/ inbox'[i].type = "ping_response" /\ inbox'[i].about \in completed
      BY <1>4, <1>3, <1>6, <2>1
    <3> QED
      BY <1>1, <3>1 DEF PoliteInv, InboxInv, walletVars, listenerVars
  <2> QED
    BY <1>2, <2>2, <2>3 DEF PoliteInv
<1> QED
  BY <1>3, <1>5, <1>6

LEMMA NextKeepsPolite ==
  ASSUME Polite, TypeOK, ProtocolInv, LifecycleInv, PatientInv, PoliteInv, [Next]_vars
  PROVE  PoliteInv'
<1> USE DEF PoliteInv, OnceInv, InboxInv, DispatchInv, ListenerAlive, Asked
<1>1. ASSUME NEW c \in Connection, PingerStep(c)
      PROVE  PoliteInv'
  BY <1>1 DEF PingerStep, walletVars, listenerVars, trackerVars
<1>2. CASE Tick \/ UNCHANGED vars
  BY <1>2 DEF Tick, vars, walletVars, listenerVars, trackerVars, peerVars, appVars
<1> QED
  BY <1>1, <1>2, CallerKeepsPolite, ListenerKeepsPolite, TrackerKeepsPolite, PeerKeepsPolite
     DEF Next

LEMMA PoliteCorrect ==
  ASSUME Polite
  PROVE  Spec => []PoliteInv
<1>1. Init => PoliteInv
  BY DEF Init, PoliteInv, OnceInv, InboxInv, DispatchInv, ListenerAlive, Asked
<1>2. /\ TypeOK /\ ProtocolInv /\ LifecycleInv /\ PatientInv /\ PoliteInv /\ [Next]_vars
      => PoliteInv'
  BY NextKeepsPolite
<1>3. NoPromptResponse /\ NoEarlyPing
  BY DEF Polite, NoPromptResponse, NoEarlyPing
<1> QED
  BY <1>1, <1>2, <1>3, TypeCorrect, ProtocolCorrect, LifecycleCorrect, PatientCorrect, PTL
     DEF Spec

\* If nobody responds too early or again, no message lacks a handler and no send throws,
\* then no exception leaves listen().
THEOREM ListenerSurvives ==
  ASSUME Polite
  PROVE  Spec => []ListenerAlive
<1>1. PoliteInv => ListenerAlive
  BY DEF PoliteInv
<1> QED
  BY <1>1, PoliteCorrect, PTL

=============================================================================
