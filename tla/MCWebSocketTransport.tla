------------------------ MODULE MCWebSocketTransport ------------------------
\* Small instances of WebSocketTransport.
EXTENDS WebSocketTransport, TLC

CONSTANTS t1, t2, t3, e1, mail

\* Two calls for one endpoint.
Pair == t1 :> e1 @@ t2 :> e1

\* Another, for an endpoint that is no WebSocket.
Three == Pair @@ t3 :> mail

OneEach   == t1 :> 1 @@ t2 :> 1
TwoAndOne == t1 :> 2 @@ t2 :> 1 @@ t3 :> 0
=============================================================================
