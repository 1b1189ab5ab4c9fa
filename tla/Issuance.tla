------------------------------ MODULE Issuance ------------------------------
(***************************************************************************)
(* What the application (CredReceiverController) and an issuer may rely on *)
(* in the issuance of a credential, per thread: the callbacks come in the  *)
(* order onOfferReceived, onRequestSent, onCredentialReceived, onDone;     *)
(* there is at most one open request, a request is answered by at most one *)
(* credential, and onDone says that this credential is in the wallet.      *)
(***************************************************************************)
EXTENDS Naturals

CONSTANT Offer

VARIABLES
  view,      \* the last callback
  requests,  \* how many requests have been sent
  stored     \* how many credentials have been stored

vars == <<view, requests, stored>>

Init ==
  /\ view = [t \in Offer |-> "none"]
  /\ requests = [t \in Offer |-> 0]
  /\ stored = [t \in Offer |-> 0]

Open(t) == requests[t] = stored[t] + 1

Notify(t, from, to) ==
  /\ view[t] \in from
  /\ view' = [view EXCEPT ![t] = to]
  /\ UNCHANGED <<requests, stored>>

OfferReceived(t) == ~Open(t) /\ Notify(t, {"none", "done"}, "offered")

Send(t) ==
  /\ view[t] = "offered"
  /\ ~Open(t)
  /\ requests' = [requests EXCEPT ![t] = @ + 1]
  /\ UNCHANGED <<view, stored>>

RequestSent(t) == Open(t) /\ Notify(t, {"offered"}, "requested")

\* Again and again, if the application declines the credential.
CredentialReceived(t) == Open(t) /\ Notify(t, {"requested", "received"}, "received")

Store(t) ==
  /\ view[t] = "received"
  /\ Open(t)
  /\ stored' = [stored EXCEPT ![t] = @ + 1]
  /\ UNCHANGED <<view, requests>>

Done(t) == ~Open(t) /\ Notify(t, {"received"}, "done")

Next ==
  \E t \in Offer :
    \/ OfferReceived(t) \/ Send(t) \/ RequestSent(t)
    \/ CredentialReceived(t) \/ Store(t) \/ Done(t)

Spec == Init /\ [][Next]_vars
=============================================================================
