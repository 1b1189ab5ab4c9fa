------------------------- MODULE CredentialExchange -------------------------
(***************************************************************************)
(* The issuance of credentials and their presentation                      *)
(* (ReceiveCredentialOfferAction, ReceiveCredentialAction,                 *)
(* ReceivePresentationRequestAction) on the listener's thread, with the    *)
(* exchange records in the wallet, the issuers and verifiers that send     *)
(* messages, and the application that answers the callbacks.               *)
(* One step for each effect that the actions have on the wallet, the       *)
(* network or the application, together with the calls that lead to it:    *)
(* of the wallet, the ledger and the transport, each of which may throw.   *)
(* An exception of an action leaves listen(), which is not started again.  *)
(* An exchange is named by its thread, the id of the offer; a presentation *)
(* by the id of its request.  The n-th request of a thread has number n.   *)
(***************************************************************************)
EXTENDS Naturals, Sequences

CONSTANTS
  Offer,       \* threads of credential offers
  Request,     \* ids of presentation requests
  Needs,       \* the threads whose credentials a presentation needs
  None,        \* no message
  MaxRepeats   \* bound: how many messages are sent again

ASSUME ExchangeAssumption ==
  /\ Needs \in [Request -> SUBSET Offer]
  /\ Offer \cap Request = {}
  /\ MaxRepeats \in Nat

VARIABLES
  inbox,      \* incoming messages
  pc,         \* pc of the listener
  current,    \* the message that it processes
  record,     \* the number of the request in the exchange record, 0: no record
  offered,    \* threads whose offer has been sent
  got,        \* requests that an issuer has got
  issued,     \* requests that have been answered by a credential
  asked,      \* presentation requests that have been sent
  shown,      \* requests whose presentation a verifier has got
  acked,      \* requests whose presentation a verifier has answered
  repeats,    \* how many messages have been sent again
  view,       \* history: the last callback about a thread
  requests,   \* history: how many requests have been sent
  stored,     \* history: how many credentials have been stored
  presented,  \* history: presentation requests that onDone has reported
  trouble     \* history: what has gone wrong outside of the agent

listenerVars == <<pc, current>>
peerVars     == <<offered, issued, asked, acked, repeats>>
exchangeVars == <<record, view, requests, stored>>
sentVars     == <<got, shown>>
outside      == <<sentVars, trouble>>
vars == <<inbox, listenerVars, peerVars, exchangeVars, presented, outside>>

OfferMessage      == [type : {"offer"}, thread : Offer, number : {0}]
CredentialMessage == [type : {"credential"}, thread : Offer, number : Nat \ {0}]
RequestMessage    == [type : {"request"}, thread : Request, number : {0}]
AckMessage       == [type : {"ack"}, thread : Request, number : {0}]
Message == OfferMessage \cup CredentialMessage \cup RequestMessage \cup AckMessage

OfferPC      == {"offer", "lookup", "askOffer", "send", "store", "sent"}
CredentialPC == {"credential", "askCredential", "keep", "remove", "done"}
RequestPC    == {"request", "prove", "present", "presented"}
AckPC        == {"ack"}

Trouble == {"loss", "repeat", "refusal", "early", "exception"}

TypeOK ==
  /\ inbox \in Seq(Message)
  /\ pc \in {"receive", "dead"} \cup OfferPC \cup CredentialPC \cup RequestPC \cup AckPC
  /\ current \in Message \cup {None}
  /\ record \in [Offer -> Nat]
  /\ offered \subseteq Offer
  /\ got \in [Offer -> SUBSET (Nat \ {0})]
  /\ issued \in [Offer -> SUBSET (Nat \ {0})]
  /\ asked \subseteq Request
  /\ shown \subseteq Request
  /\ acked \subseteq Request
  /\ repeats \in Nat
  /\ view \in [Offer -> {"none", "offered", "requested", "received", "done"}]
  /\ requests \in [Offer -> Nat]
  /\ stored \in [Offer -> Nat]
  /\ presented \subseteq Request
  /\ trouble \subseteq Trouble
  /\ pc \in OfferPC => current \in OfferMessage
  /\ pc \in CredentialPC => current \in CredentialMessage
  /\ pc \in RequestPC => current \in RequestMessage
  /\ pc \in AckPC => current \in AckMessage

Init ==
  /\ inbox = <<>>
  /\ pc = "receive"
  /\ current = None
  /\ record = [t \in Offer |-> 0]
  /\ offered = {}
  /\ got = [t \in Offer |-> {}]
  /\ issued = [t \in Offer |-> {}]
  /\ asked = {}
  /\ shown = {}
  /\ acked = {}
  /\ repeats = 0
  /\ view = [t \in Offer |-> "none"]
  /\ requests = [t \in Offer |-> 0]
  /\ stored = [t \in Offer |-> 0]
  /\ presented = {}
  /\ trouble = {}

-----------------------------------------------------------------------------
(***************************************************************************)
(* Issuers and verifiers                                                   *)
(***************************************************************************)

\* A message arrives, or is lost on its way.
Arrive(message, mishap) ==
  \/ inbox' = Append(inbox, message) /\ trouble' = trouble \cup mishap
  \/ UNCHANGED inbox /\ trouble' = trouble \cup mishap \cup {"loss"}

\* What a peer does again is counted.
Again(again) ==
  /\ again => repeats < MaxRepeats
  /\ repeats' = IF again THEN repeats + 1 ELSE repeats

Mishap(name, happened) == IF happened THEN {name} ELSE {}

SendOffer(t) ==
  /\ Again(t \in offered)
  /\ offered' = offered \cup {t}
  /\ Arrive([type |-> "offer", thread |-> t, number |-> 0],
            Mishap("repeat", t \in offered))
  /\ UNCHANGED <<listenerVars, issued, asked, acked, sentVars, exchangeVars, presented>>

IssueCredential(t, n) ==
  /\ n \in got[t]
  /\ Again(n \in issued[t])
  /\ issued' = [issued EXCEPT ![t] = @ \cup {n}]
  /\ Arrive([type |-> "credential", thread |-> t, number |-> n],
            Mishap("repeat", n \in issued[t]))
  /\ UNCHANGED <<listenerVars, offered, asked, acked, sentVars, exchangeVars, presented>>

\* A request is early if a credential for it has not been issued.
AskForPresentation(r) ==
  /\ r \notin asked
  /\ asked' = asked \cup {r}
  /\ Arrive([type |-> "request", thread |-> r, number |-> 0],
            Mishap("early", \E t \in Needs[r] : issued[t] = {}))
  /\ UNCHANGED <<listenerVars, offered, issued, acked, repeats, sentVars, exchangeVars,
                 presented>>

\* A verifier answers the presentation that it has got, as its protocol lets it: with
\* an ack or a problem report.
AckPresentation(r) ==
  /\ r \in shown \ acked
  /\ acked' = acked \cup {r}
  /\ Arrive([type |-> "ack", thread |-> r, number |-> 0], {})
  /\ UNCHANGED <<listenerVars, offered, issued, asked, repeats, sentVars, exchangeVars,
                 presented>>

PeerStep ==
  \/ \E t \in Offer : SendOffer(t) \/ \E n \in got[t] : IssueCredential(t, n)
  \/ \E r \in Request : AskForPresentation(r) \/ AckPresentation(r)

-----------------------------------------------------------------------------
(***************************************************************************)
(* The listener                                                            *)
(***************************************************************************)

Goto(from, to) ==
  /\ pc = from
  /\ pc' = to
  /\ UNCHANGED <<inbox, current, peerVars>>

thread == current.thread

Notify(callback) == view' = [view EXCEPT ![thread] = callback]

Refuse == UNCHANGED sentVars /\ trouble' = trouble \cup {"refusal"}

\* Mistaken variant: the last message comes first.
ReceiveLast ==
  /\ pc = "receive"
  /\ inbox # <<>>
  /\ current' = inbox[Len(inbox)]
  /\ inbox' = SubSeq(inbox, 1, Len(inbox) - 1)
  /\ pc' = inbox[Len(inbox)].type
  /\ UNCHANGED <<peerVars, exchangeVars, presented, outside>>

\* The message chooses the action.
Receive ==
  /\ pc = "receive"
  /\ inbox # <<>>
  /\ current' = Head(inbox)
  /\ inbox' = Tail(inbox)
  /\ pc' = Head(inbox).type
  /\ UNCHANGED <<peerVars, exchangeVars, presented, outside>>

\* A message cannot be read, or its sender is not known, or a call of the wallet,
\* of the ledger or of the transport throws.
Throw ==
  /\ pc \in {"offer", "credential", "request", "lookup", "send", "store", "keep",
             "remove", "prove", "present"}
  /\ pc' = "dead"
  /\ trouble' = trouble \cup {"exception"}
  /\ UNCHANGED <<inbox, current, peerVars, sentVars, exchangeVars, presented>>

-----------------------------------------------------------------------------
(***************************************************************************)
(* ReceiveCredentialOfferAction                                            *)
(***************************************************************************)

\* Mistaken variant: the wallet is not asked for a record.
AcceptOffer ==
  /\ Goto("offer", "lookup")
  /\ UNCHANGED <<exchangeVars, presented, outside>>

CheckOffer ==
  /\ \/ Goto("offer", "dead") /\ record[thread] # 0
     \/ Goto("offer", "lookup") /\ record[thread] = 0
  /\ UNCHANGED <<exchangeVars, presented, outside>>

LookupDefinition ==
  /\ Goto("lookup", "askOffer")
  /\ UNCHANGED <<exchangeVars, presented, outside>>

\* To decline an offer is TODO().
AskOffer ==
  /\ \/ Goto("askOffer", "send") /\ UNCHANGED outside
     \/ Goto("askOffer", "dead") /\ Refuse
  /\ Notify("offered")
  /\ UNCHANGED <<record, requests, stored, presented>>

SendRequest ==
  /\ Goto("send", "store")
  /\ requests' = [requests EXCEPT ![thread] = @ + 1]
  /\ \/ /\ got' = [got EXCEPT ![thread] = @ \cup {requests'[thread]}]
        /\ UNCHANGED trouble
     \/ UNCHANGED got /\ trouble' = trouble \cup {"loss"}
  /\ UNCHANGED <<record, view, stored, shown, presented>>

StoreRecord ==
  /\ Goto("store", "sent")
  /\ record' = [record EXCEPT ![thread] = requests[thread]]
  /\ UNCHANGED <<view, requests, stored, presented, outside>>

NotifySent ==
  /\ Goto("sent", "receive")
  /\ Notify("requested")
  /\ UNCHANGED <<record, requests, stored, presented, outside>>

-----------------------------------------------------------------------------
(***************************************************************************)
(* ReceiveCredentialAction                                                 *)
(***************************************************************************)

CheckCredential ==
  /\ \/ Goto("credential", "dead") /\ record[thread] = 0
     \/ Goto("credential", "askCredential") /\ record[thread] # 0
  /\ UNCHANGED <<exchangeVars, presented, outside>>

\* A credential that is declined is forgotten, its exchange is not.
AskCredential ==
  /\ \/ Goto("askCredential", "keep") /\ UNCHANGED outside
     \/ Goto("askCredential", "receive") /\ Refuse
  /\ Notify("received")
  /\ UNCHANGED <<record, requests, stored, presented>>

\* Mistaken variant: the action ends when the credential has been stored.
StoreAndLeave ==
  /\ Goto("keep", "receive")
  /\ stored' = [stored EXCEPT ![thread] = @ + 1]
  /\ UNCHANGED <<record, view, requests, presented, outside>>

\* libindy checks the credential against the data of the request.
StoreCredential ==
  /\ \/ /\ Goto("keep", "remove")
        /\ current.number = record[thread]
        /\ stored' = [stored EXCEPT ![thread] = @ + 1]
     \/ /\ Goto("keep", "dead")
        /\ current.number # record[thread]
        /\ UNCHANGED stored
  /\ UNCHANGED <<record, view, requests, presented, outside>>

\* Mistaken variants: the record is emptied, or is left behind.
EmptyRecord ==
  /\ Goto("remove", "done")
  /\ record' = [record EXCEPT ![thread] = None]
  /\ UNCHANGED <<view, requests, stored, presented, outside>>

KeepRecord ==
  /\ Goto("remove", "done")
  /\ UNCHANGED <<exchangeVars, presented, outside>>

RemoveRecord ==
  /\ Goto("remove", "done")
  /\ record' = [record EXCEPT ![thread] = 0]
  /\ UNCHANGED <<view, requests, stored, presented, outside>>

NotifyDone ==
  /\ Goto("done", "receive")
  /\ Notify("done")
  /\ UNCHANGED <<record, requests, stored, presented, outside>>

-----------------------------------------------------------------------------
(***************************************************************************)
(* ReceivePresentationRequestAction                                        *)
(***************************************************************************)

AskPresentation ==
  /\ \/ Goto("request", "prove") /\ UNCHANGED outside
     \/ Goto("request", "receive") /\ Refuse
  /\ UNCHANGED <<exchangeVars, presented>>

\* The search for credentials finds none for an attribute, or one for each.
CreatePresentation ==
  /\ \/ Goto("prove", "dead") /\ \E t \in Needs[thread] : stored[t] = 0
     \/ Goto("prove", "present") /\ \A t \in Needs[thread] : stored[t] > 0
  /\ UNCHANGED <<exchangeVars, presented, outside>>

SendPresentation ==
  /\ Goto("present", "presented")
  /\ shown' = shown \cup {thread}
  /\ UNCHANGED <<exchangeVars, presented, got, trouble>>

NotifyPresented ==
  /\ Goto("presented", "receive")
  /\ presented' = presented \cup {thread}
  /\ UNCHANGED <<exchangeVars, outside>>

\* The types of an ack and of a problem report are "to be done", which no message
\* matches: single() throws.
ReadAck ==
  /\ Goto("ack", "dead")
  /\ UNCHANGED <<exchangeVars, presented, outside>>

-----------------------------------------------------------------------------
OfferStep ==
  \/ CheckOffer \/ LookupDefinition \/ AskOffer \/ SendRequest \/ StoreRecord
  \/ NotifySent

CredentialStep ==
  \/ CheckCredential \/ AskCredential \/ StoreCredential \/ RemoveRecord
  \/ NotifyDone

PresentationStep ==
  AskPresentation \/ CreatePresentation \/ SendPresentation \/ NotifyPresented

ListenerStep ==
  Receive \/ Throw \/ OfferStep \/ CredentialStep \/ PresentationStep \/ ReadAck

Next == PeerStep \/ ListenerStep

Spec == Init /\ [][Next]_vars

\* The listener runs, and an issuer answers the request that it gets.  Nobody
\* has to send an offer or a presentation request, or to send anything again.
Fairness ==
  /\ WF_vars(ListenerStep)
  /\ \A t \in Offer :
       WF_vars(IssueCredential(t, requests[t]) /\ requests[t] \notin issued[t])

FairSpec == Spec /\ Fairness

-----------------------------------------------------------------------------
(***************************************************************************)
(* Properties                                                              *)
(***************************************************************************)

\* Callbacks, requests and credentials come as Issuance says, whatever is sent
\* again, is declined or fails.
Contract == INSTANCE Issuance

ContractSpec == Contract!Spec

\* The listener has ended with the ack that a verifier has sent.
EndedByAck == pc = "dead" /\ current.type = "ack"

\* The listener survives any number of exchanges that overlap in its queue: it dies
\* only after something has gone wrong elsewhere, or of an ack.
ListenerSurvives == pc = "dead" => trouble # {} \/ EndedByAck

\* Between two messages an exchange record stands for exactly the requests that
\* are open: no record is left behind, and none is missing when the credential
\* comes.
RecordsAreOpenRequests ==
  pc = "receive" =>
    \A t \in Offer :
      /\ record[t] # 0 <=> requests[t] > stored[t]
      /\ record[t] # 0 => record[t] = requests[t]

\* An offer ends in onDone, and a presentation request in onDone, unless
\* something goes wrong elsewhere or an ack ends the listener.
ExchangesEnd ==
  /\ \A t \in Offer : t \in offered ~> (view[t] = "done" \/ trouble # {} \/ EndedByAck)
  /\ \A r \in Request : r \in asked ~> (r \in presented \/ trouble # {} \/ EndedByAck)

=============================================================================
