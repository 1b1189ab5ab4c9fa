------------------------ MODULE MCCredentialExchange ------------------------
\* Small instances of CredentialExchange.
EXTENDS CredentialExchange, TLC

CONSTANTS o1, o2, r1

\* The presentation needs one of two credentials, so that its ack may come while the
\* exchange of the other is open.
First == r1 :> {o1}
=============================================================================
