-------------------------- MODULE MCConnectionAgent --------------------------
\* Small instances of ConnectionAgent: two connections, to peers with a key each or to
\* one peer.
EXTENDS ConnectionAgent, TLC

CONSTANTS c1, c2, k1, k2

OneKey    == c1 :> k1
TwoKeys   == c1 :> k1 @@ c2 :> k2
SharedKey == c1 :> k1 @@ c2 :> k1

\* Exchanging two connections to one peer changes nothing.
Exchange == {c1 :> c2 @@ c2 :> c1}
=============================================================================
