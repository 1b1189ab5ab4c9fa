---------------------- MODULE CredentialExchange_proofs ---------------------
(***************************************************************************)
(* CredentialExchange implements Issuance, whatever is sent again, is      *)
(* declined or fails, and keeps exactly the records of open requests, for  *)
(* any number of exchanges.                                                *)
(***************************************************************************)
EXTENDS CredentialExchange, SequenceTheorems, TLAPS

USE ExchangeAssumption

\* What the messages of each kind are.
LEMMA MessageFields ==
  ASSUME NEW m \in Message
  PROVE  /\ m.type \in {"offer", "credential", "request", "ack"}
         /\ m.type = "offer" => m \in OfferMessage
         /\ m.type = "credential" => m \in CredentialMessage
         /\ m.type = "request" => m \in RequestMessage
         /\ m.type = "ack" => m \in AckMessage
BY DEF Message, OfferMessage, CredentialMessage, RequestMessage, AckMessage

LEMMA ThreadOfMessage ==
  /\ \A m \in OfferMessage \cup CredentialMessage : m.thread \in Offer
  /\ \A m \in RequestMessage \cup AckMessage : m.thread \in Request
BY DEF OfferMessage, CredentialMessage, RequestMessage, AckMessage

\* A message that arrives or is lost leaves a queue of messages.
LEMMA ArriveTyped ==
  ASSUME TypeOK, NEW m \in Message, NEW mishap, Arrive(m, mishap),
         mishap \subseteq Trouble
  PROVE  inbox' \in Seq(Message) /\ trouble' \subseteq Trouble
<1>1. Append(inbox, m) \in Seq(Message)
  BY DEF TypeOK
<1> QED
  BY <1>1 DEF Arrive, TypeOK, Trouble

\* A peer adds a message and leaves the agent alone.
LEMMA PeerTyped ==
  ASSUME TypeOK, PeerStep
  PROVE  TypeOK'
<1>0. \A b : Mishap("repeat", b) \subseteq Trouble
              /\ Mishap("early", b) \subseteq Trouble
  BY DEF Mishap, Trouble
<1>1. ASSUME NEW t \in Offer, SendOffer(t) PROVE TypeOK'
  <2>1. [type |-> "offer", thread |-> t, number |-> 0] \in Message
    BY DEF Message, OfferMessage
  <2>2. inbox' \in Seq(Message) /\ trouble' \subseteq Trouble
    <3>1. Mishap("repeat", t \in offered) \subseteq Trouble
      BY <1>0
    <3> QED
      BY <1>1, <2>1, <3>1, ArriveTyped DEF SendOffer
  <2>3. repeats' \in Nat
    BY <1>1 DEF SendOffer, Again, TypeOK
  <2>4. offered' \subseteq Offer /\ UNCHANGED <<pc, current, record, issued, asked,
                          shown, acked, got, view, requests, stored, presented>>
    BY <1>1 DEF SendOffer, listenerVars, sentVars, exchangeVars, TypeOK
  <2> QED
    BY <2>2, <2>3, <2>4 DEF TypeOK
<1>2. ASSUME NEW t \in Offer, NEW n \in got[t], IssueCredential(t, n)
      PROVE  TypeOK'
  <2>0. n \in Nat \ {0}
    BY DEF TypeOK
  <2>1. [type |-> "credential", thread |-> t, number |-> n] \in Message
    BY <2>0 DEF Message, CredentialMessage
  <2>2. inbox' \in Seq(Message) /\ trouble' \subseteq Trouble
    <3>1. Mishap("repeat", n \in issued[t]) \subseteq Trouble
      BY <1>0
    <3> QED
      BY <1>2, <2>1, <3>1, ArriveTyped DEF IssueCredential
  <2>3. repeats' \in Nat
    BY <1>2 DEF IssueCredential, Again, TypeOK
  <2>4. issued' \in [Offer -> SUBSET (Nat \ {0})]
    BY <1>2, <2>0 DEF IssueCredential, TypeOK
  <2>5. UNCHANGED <<pc, current, record, offered, asked, shown, acked, got, view, requests,
                    stored, presented>>
    BY <1>2 DEF IssueCredential, listenerVars, sentVars, exchangeVars
  <2> QED
    BY <2>2, <2>3, <2>4, <2>5 DEF TypeOK
<1>3. ASSUME NEW r \in Request, AskForPresentation(r) PROVE TypeOK'
  <2>1. [type |-> "request", thread |-> r, number |-> 0] \in Message
    BY DEF Message, RequestMessage
  <2>2. inbox' \in Seq(Message) /\ trouble' \subseteq Trouble
    BY <1>0, <1>3, <2>1, ArriveTyped DEF AskForPresentation
  <2>3. asked' \subseteq Request /\ UNCHANGED <<pc, current, record, offered, issued,
                          shown, acked, repeats, got, view, requests, stored, presented>>
    BY <1>3 DEF AskForPresentation, listenerVars, sentVars, exchangeVars, TypeOK
  <2> QED
    BY <2>2, <2>3 DEF TypeOK
<1>4. ASSUME NEW r \in Request, AckPresentation(r) PROVE TypeOK'
  <2>1. [type |-> "ack", thread |-> r, number |-> 0] \in Message
    BY DEF Message, AckMessage
  <2>2. inbox' \in Seq(Message) /\ trouble' \subseteq Trouble
    BY <1>4, <2>1, ArriveTyped DEF AckPresentation
  <2>3. acked' \subseteq Request /\ UNCHANGED <<pc, current, record, offered, issued,
                          asked, shown, repeats, got, view, requests, stored, presented>>
    BY <1>4 DEF AckPresentation, listenerVars, sentVars, exchangeVars, TypeOK
  <2> QED
    BY <2>2, <2>3 DEF TypeOK
<1> QED
  BY <1>1, <1>2, <1>3, <1>4 DEF PeerStep

LEMMA ListenerTyped ==
  ASSUME TypeOK, ListenerStep
  PROVE  TypeOK'
<1> USE ThreadOfMessage
    DEF TypeOK, OfferPC, CredentialPC, RequestPC, AckPC, thread, Goto, Notify, Refuse,
        peerVars, exchangeVars, sentVars, outside, Trouble
<1>1. CASE Receive
  <2>1. Head(inbox) \in Message /\ Tail(inbox) \in Seq(Message)
    BY <1>1 DEF Receive
  <2> QED
    BY <1>1, <2>1, MessageFields DEF Receive
<1>2. CASE Throw
  BY <1>2 DEF Throw
<1>3. CASE OfferStep
  <2>1. CASE CheckOffer
    BY <2>1 DEF CheckOffer
  <2>2. CASE LookupDefinition
    BY <2>2 DEF LookupDefinition
  <2>3. CASE AskOffer
    BY <2>3 DEF AskOffer
  <2>4. CASE SendRequest
    <3>1. thread \in Offer /\ requests[thread] + 1 \in Nat \ {0}
      BY <2>4 DEF SendRequest
    <3>2. requests' \in [Offer -> Nat] /\ requests'[thread] = requests[thread] + 1
      BY <2>4, <3>1 DEF SendRequest
    <3>3. got' \in [Offer -> SUBSET (Nat \ {0})] /\ trouble' \subseteq Trouble
      <4>1. \/ got' = [got EXCEPT ![thread] = @ \cup {requests'[thread]}]
               /\ trouble' = trouble
            \/ got' = got /\ trouble' = trouble \cup {"loss"}
        BY <2>4 DEF SendRequest
      <4>2. got[thread] \cup {requests'[thread]} \in SUBSET (Nat \ {0})
        BY <3>1, <3>2
      <4>3. [got EXCEPT ![thread] = @ \cup {requests'[thread]}]
              \in [Offer -> SUBSET (Nat \ {0})]
        BY <3>1, <4>2 DEF TypeOK
      <4> QED
        BY <4>1, <4>3 DEF TypeOK, Trouble
    <3> QED
      BY <2>4, <3>2, <3>3 DEF SendRequest
  <2>5. CASE StoreRecord
    BY <2>5 DEF StoreRecord
  <2>6. CASE NotifySent
    BY <2>6 DEF NotifySent
  <2> QED
    BY <1>3, <2>1, <2>2, <2>3, <2>4, <2>5, <2>6 DEF OfferStep
<1>4. CASE CredentialStep
  <2>1. CASE CheckCredential
    BY <2>1 DEF CheckCredential
  <2>2. CASE AskCredential
    BY <2>2 DEF AskCredential
  <2>3. CASE StoreCredential
    <3>1. thread \in Offer /\ stored[thread] + 1 \in Nat
      BY <2>3 DEF StoreCredential
    <3>2. stored' \in [Offer -> Nat]
      <4>1. stored' = [stored EXCEPT ![thread] = @ + 1] \/ stored' = stored
        BY <2>3 DEF StoreCredential
      <4>2. stored \in [Offer -> Nat]
        OBVIOUS
      <4> HIDE DEF TypeOK, thread
      <4> QED
        BY <3>1, <4>1, <4>2
    <3> QED
      BY <2>3, <3>2 DEF StoreCredential
  <2>4. CASE RemoveRecord
    BY <2>4 DEF RemoveRecord
  <2>5. CASE NotifyDone
    BY <2>5 DEF NotifyDone
  <2> QED
    BY <1>4, <2>1, <2>2, <2>3, <2>4, <2>5 DEF CredentialStep
<1>5. CASE PresentationStep \/ ReadAck
  BY <1>5 DEF PresentationStep, AskPresentation, CreatePresentation,
              SendPresentation, NotifyPresented, ReadAck
<1> QED
  BY <1>1, <1>2, <1>3, <1>4, <1>5 DEF ListenerStep

\* Every variable keeps its type; in particular an action only ever sees a
\* message of its own kind.
THEOREM TypeCorrect == Spec => []TypeOK
<1>1. Init => TypeOK
  BY DEF Init, TypeOK, OfferPC, CredentialPC, RequestPC, AckPC
<1>2. TypeOK /\ [Next]_vars => TypeOK'
  <2>1. TypeOK /\ UNCHANGED vars => TypeOK'
    BY DEF TypeOK, vars, listenerVars, peerVars, exchangeVars, sentVars, outside
  <2> QED
    BY <2>1, PeerTyped, ListenerTyped DEF Next
<1> QED
  BY <1>1, <1>2, PTL DEF Spec

-----------------------------------------------------------------------------
(***************************************************************************)
(* Where an exchange stands                                                *)
(***************************************************************************)

IsOpen(t) == requests[t] = stored[t] + 1

\* While no action is at work on the exchange.
Settled(t) ==
  \/ /\ requests[t] = stored[t]
     /\ record[t] = 0
     /\ view[t] \in {"none", "done"}
  \/ /\ IsOpen(t)
     /\ record[t] = requests[t]
     /\ view[t] \in {"requested", "received"}

\* What the actions know of their exchange between two steps.
InOffer(t) ==
  /\ pc = "offer" => Settled(t)
  /\ pc \in {"lookup", "askOffer"} =>
       requests[t] = stored[t] /\ record[t] = 0 /\ view[t] \in {"none", "done"}
  /\ pc = "send" =>
       requests[t] = stored[t] /\ record[t] = 0 /\ view[t] = "offered"
  /\ pc = "store" => IsOpen(t) /\ record[t] = 0 /\ view[t] = "offered"
  /\ pc = "sent" => IsOpen(t) /\ record[t] = requests[t] /\ view[t] = "offered"

InCredential(t) ==
  /\ pc = "credential" => Settled(t)
  /\ pc = "askCredential" =>
       IsOpen(t) /\ record[t] = requests[t] /\ view[t] \in {"requested", "received"}
  /\ pc = "keep" => IsOpen(t) /\ record[t] = requests[t] /\ view[t] = "received"
  /\ pc = "remove" =>
       requests[t] = stored[t] /\ record[t] # 0 /\ view[t] = "received"
  /\ pc = "done" =>
       requests[t] = stored[t] /\ record[t] = 0 /\ view[t] = "received"

AtWorkOn(t) == pc \in OfferPC \cup CredentialPC /\ thread = t

Consistent ==
  pc # "dead" =>
    \A t \in Offer :
      /\ ~AtWorkOn(t) => Settled(t)
      /\ AtWorkOn(t) => InOffer(t) /\ InCredential(t)

LEMMA StepConsistent ==
  ASSUME TypeOK, Consistent, [Next]_vars
  PROVE  Consistent'
<1> SUFFICES ASSUME pc' # "dead", NEW t \in Offer
             PROVE  (/\ ~AtWorkOn(t) => Settled(t)
                     /\ AtWorkOn(t) => InOffer(t) /\ InCredential(t))'
  BY DEF Consistent
<1> USE ThreadOfMessage
    DEF TypeOK, OfferPC, CredentialPC, RequestPC, AckPC, thread, Goto, Notify, Refuse,
        peerVars, exchangeVars, sentVars, outside, Consistent, AtWorkOn, Settled, IsOpen,
        InOffer, InCredential
<1>1. CASE Receive
  <2>1. Head(inbox) \in Message
    BY <1>1 DEF Receive
  <2> QED
    BY <1>1, <2>1, MessageFields DEF Receive
<1>2. CASE Throw
  BY <1>2 DEF Throw
<1>3. CASE OfferStep
  <2>1. CASE CheckOffer
    BY <2>1 DEF CheckOffer
  <2>2. CASE LookupDefinition
    BY <2>2 DEF LookupDefinition
  <2>3. CASE AskOffer
    BY <2>3 DEF AskOffer
  <2>4. CASE SendRequest
    BY <2>4 DEF SendRequest
  <2>5. CASE StoreRecord
    BY <2>5 DEF StoreRecord
  <2>6. CASE NotifySent
    BY <2>6 DEF NotifySent
  <2> QED
    BY <1>3, <2>1, <2>2, <2>3, <2>4, <2>5, <2>6 DEF OfferStep
<1>4. CASE CredentialStep
  <2>1. CASE CheckCredential
    BY <2>1 DEF CheckCredential
  <2>2. CASE AskCredential
    BY <2>2 DEF AskCredential
  <2>3. CASE StoreCredential
    BY <2>3 DEF StoreCredential
  <2>4. CASE RemoveRecord
    BY <2>4 DEF RemoveRecord
  <2>5. CASE NotifyDone
    BY <2>5 DEF NotifyDone
  <2> QED
    BY <1>4, <2>1, <2>2, <2>3, <2>4, <2>5 DEF CredentialStep
<1>5. CASE PresentationStep \/ ReadAck
  BY <1>5 DEF PresentationStep, AskPresentation, CreatePresentation,
              SendPresentation, NotifyPresented, ReadAck
<1>6. CASE PeerStep \/ UNCHANGED vars
  <2>1. UNCHANGED <<listenerVars, exchangeVars>>
    BY <1>6 DEF PeerStep, SendOffer, IssueCredential, AskForPresentation, AckPresentation, vars
  <2> QED
    BY <2>1 DEF listenerVars
<1> QED
  BY <1>1, <1>2, <1>3, <1>4, <1>5, <1>6 DEF Next, ListenerStep

THEOREM ConsistentAlways == Spec => []Consistent
<1>1. Init => Consistent
  BY DEF Init, Consistent, AtWorkOn, Settled, OfferPC, CredentialPC
<1> QED
  BY <1>1, StepConsistent, TypeCorrect, PTL DEF Spec

\* Between two messages the records are those of the open requests.
THEOREM RecordsMatch == Spec => []RecordsAreOpenRequests
<1>1. ASSUME TypeOK, Consistent PROVE RecordsAreOpenRequests
  <2> SUFFICES ASSUME pc = "receive", NEW t \in Offer
               PROVE  /\ record[t] # 0 <=> requests[t] > stored[t]
                      /\ record[t] # 0 => record[t] = requests[t]
    BY DEF RecordsAreOpenRequests
  <2>1. Settled(t)
    BY <1>1 DEF Consistent, AtWorkOn, OfferPC, CredentialPC
  <2>2. requests[t] \in Nat /\ stored[t] \in Nat
    BY <1>1 DEF TypeOK
  <2> QED
    BY <2>1, <2>2 DEF Settled, IsOpen
<1> QED
  BY <1>1, ConsistentAlways, TypeCorrect, PTL

-----------------------------------------------------------------------------
(***************************************************************************)
(* What holds as long as nothing has gone wrong elsewhere                  *)
(***************************************************************************)

WasSent(m) ==
  /\ m.type = "offer" => m.thread \in offered
  /\ m.type = "credential" => m.number \in issued[m.thread]
  /\ m.type = "request" => m.thread \in asked
  /\ m.type = "ack" => m.thread \in acked

\* No message comes twice.
EachOnce ==
  /\ \A k \in 1..Len(inbox) : WasSent(inbox[k])
  /\ \A k, l \in 1..Len(inbox) : k # l => inbox[k] # inbox[l]
  /\ pc # "receive" => WasSent(current) /\ \A k \in 1..Len(inbox) : inbox[k] # current

\* So there is one request for a thread, and one credential.
OneRequest(t) ==
  /\ requests[t] <= 1
  /\ t \notin offered => requests[t] = 0
  /\ \A n \in got[t] : n = 1 /\ requests[t] = 1
  /\ issued[t] \subseteq got[t]
  /\ issued[t] = {} => stored[t] = 0

\* What a message asks for has not been done before.
IsNew(m) ==
  /\ m.type = "offer" => requests[m.thread] = 0
  /\ m.type = "credential" => stored[m.thread] = 0

AllNew ==
  /\ \A k \in 1..Len(inbox) : IsNew(inbox[k])
  /\ pc \in {"offer", "lookup", "askOffer", "send", "credential", "askCredential", "keep"} =>
       IsNew(current)

\* The credential of t is in the wallet, or is on its way there before the message
\* behind the k-th one.
Coming(t, k) ==
  \/ stored[t] > 0
  \/ \E l \in 1..k : inbox[l].type = "credential" /\ inbox[l].thread = t
  \/ pc \in {"credential", "askCredential", "keep"} /\ thread = t

NeedsCome ==
  /\ \A t \in Offer : issued[t] # {} => Coming(t, Len(inbox))
  /\ \A k \in 1..Len(inbox) :
       inbox[k].type = "request" => \A t \in Needs[inbox[k].thread] : Coming(t, k - 1)
  /\ pc \in {"request", "prove"} => \A t \in Needs[thread] : stored[t] > 0

Flawless ==
  pc # "dead" /\ EachOnce /\ (\A t \in Offer : OneRequest(t)) /\ AllNew /\ NeedsCome

Smooth == trouble = {} => Flawless \/ EndedByAck

\* A message is known by its type, its thread and its number.
LEMMA SameMessage ==
  ASSUME NEW m \in Message, NEW n \in Message,
         m.type = n.type, m.thread = n.thread, m.number = n.number
  PROVE  m = n
BY DEF Message, OfferMessage, CredentialMessage, RequestMessage, AckMessage

\* What arrives behind the queue when nothing goes wrong.
LEMMA Arrived ==
  ASSUME TypeOK, NEW m \in Message, NEW mishap, Arrive(m, mishap), trouble' = {}
  PROVE  /\ trouble = {} /\ mishap = {}
         /\ Len(inbox) \in Nat /\ Len(inbox') = Len(inbox) + 1
         /\ inbox'[Len(inbox) + 1] = m
         /\ \A k \in 1..Len(inbox) : inbox'[k] = inbox[k]
<1>1. inbox \in Seq(Message)
  BY DEF TypeOK
<1>2. inbox' = Append(inbox, m)
  BY DEF Arrive
<1>3. trouble = {} /\ mishap = {}
  BY DEF Arrive
<1> QED
  BY <1>1, <1>2, <1>3

\* A new message behind the others keeps what holds of the others.
LEMMA ArrivedOnce ==
  ASSUME TypeOK, EachOnce, pc # "dead", NEW m \in Message, ~WasSent(m),
         Len(inbox') = Len(inbox) + 1,
         inbox'[Len(inbox) + 1] = m,
         \A k \in 1..Len(inbox) : inbox'[k] = inbox[k],
         UNCHANGED <<pc, current>>,
         WasSent(m)', \A n \in Message : WasSent(n) => WasSent(n)'
  PROVE  EachOnce'
<1>1. Len(inbox) \in Nat /\ \A k \in 1..Len(inbox) : inbox[k] \in Message
  BY DEF TypeOK
<1>2. \A k \in 1..Len(inbox') : k \in 1..Len(inbox) \/ k = Len(inbox) + 1
  BY <1>1
<1>3. (\A k \in 1..Len(inbox) : WasSent(inbox[k]))'
  <2> SUFFICES ASSUME NEW k \in 1..Len(inbox') PROVE WasSent(inbox[k])'
    OBVIOUS
  <2>1. CASE k \in 1..Len(inbox)
    <3>1. PICK n \in Message : n = inbox[k] /\ WasSent(n)
      BY <1>1, <2>1 DEF EachOnce
    <3>2. WasSent(n)' /\ n = inbox'[k]
      BY <2>1, <3>1
    <3> QED
      BY <3>2 DEF WasSent
  <2>2. CASE k = Len(inbox) + 1
    <3>1. WasSent(m)' /\ m = inbox'[k]
      BY <2>2
    <3> QED
      BY <3>1 DEF WasSent
  <2> QED
    BY <1>2, <2>1, <2>2
<1>4. \A k \in 1..Len(inbox) : inbox[k] # m
  BY DEF EachOnce
<1>5. \A k, l \in 1..Len(inbox') : k # l => inbox'[k] # inbox'[l]
  BY <1>2, <1>4 DEF EachOnce
<1>6. ASSUME pc # "receive"
      PROVE  WasSent(current)' /\ \A k \in 1..Len(inbox') : inbox'[k] # current'
  <2>1. WasSent(current) /\ current # m /\ \A k \in 1..Len(inbox) : inbox[k] # current
    BY <1>6 DEF EachOnce
  <2>2. PICK n \in Message : n = current
    BY <1>6 DEF TypeOK, Message, OfferPC, CredentialPC, RequestPC, AckPC
  <2>3. WasSent(n)' /\ n = current'
    BY <2>1, <2>2
  <2>4. WasSent(current)'
    BY <2>3 DEF WasSent
  <2> QED
    BY <1>2, <2>1, <2>4
<1> QED
  BY <1>3, <1>5, <1>6 DEF EachOnce

\* A new message behind the others delays none of what they need.
LEMMA ArrivedComing ==
  ASSUME TypeOK, NeedsCome, NEW m \in Message,
         Len(inbox') = Len(inbox) + 1,
         inbox'[Len(inbox) + 1] = m,
         \A k \in 1..Len(inbox) : inbox'[k] = inbox[k],
         UNCHANGED <<pc, current, stored>>
  PROVE  /\ \A t \in Offer, n \in Nat :
              issued[t] # {} /\ n = Len(inbox) => Coming(t, n)' /\ Coming(t, n + 1)'
         /\ \A k \in 1..Len(inbox) :
              inbox[k].type = "request" => \A t \in Needs[inbox[k].thread] : Coming(t, k - 1)'
<1>1. Len(inbox) \in Nat
  BY DEF TypeOK
<1>2. ASSUME NEW t, NEW n \in Nat, n <= Len(inbox), Coming(t, n) PROVE Coming(t, n)'
  <2>1. CASE \E l \in 1..n : inbox[l].type = "credential" /\ inbox[l].thread = t
    <3>1. PICK l \in 1..n : inbox[l].type = "credential" /\ inbox[l].thread = t
      BY <2>1
    <3>2. l \in 1..Len(inbox)
      BY <1>1, <1>2
    <3> QED
      BY <3>1, <3>2 DEF Coming
  <2> QED
    BY <1>2, <2>1 DEF Coming, thread
<1>3. ASSUME NEW t \in Offer, NEW n \in Nat, issued[t] # {}, n = Len(inbox)
      PROVE  Coming(t, n)' /\ Coming(t, n + 1)'
  <2>1. Coming(t, n)'
    BY <1>2, <1>3 DEF NeedsCome
  <2>2. 1..n \subseteq 1..(n + 1)
    OBVIOUS
  <2> QED
    BY <2>1, <2>2 DEF Coming
<1>4. ASSUME NEW k \in 1..Len(inbox), inbox[k].type = "request",
             NEW t \in Needs[inbox[k].thread]
      PROVE  Coming(t, k - 1)'
  <2>1. Coming(t, k - 1) /\ k - 1 \in Nat /\ k - 1 <= Len(inbox)
    BY <1>1, <1>4 DEF NeedsCome
  <2> QED
    BY <1>2, <2>1
<1> QED
  BY <1>3, <1>4

LEMMA PeerSmooth ==
  ASSUME TypeOK, Flawless, PeerStep, trouble' = {}
  PROVE  Flawless'
<1>1. Len(inbox) \in Nat
  BY DEF TypeOK
<1>2. ASSUME NEW t \in Offer, SendOffer(t) PROVE Flawless'
  <2> DEFINE m == [type |-> "offer", thread |-> t, number |-> 0]
  <2>1. m \in Message /\ m.type = "offer" /\ m.thread = t
    BY DEF Message, OfferMessage
  <2>2. /\ Mishap("repeat", t \in offered) = {}
        /\ Len(inbox') = Len(inbox) + 1 /\ inbox'[Len(inbox) + 1] = m
        /\ \A k \in 1..Len(inbox) : inbox'[k] = inbox[k]
    BY <1>2, <2>1, Arrived DEF SendOffer
  <2> HIDE DEF m
  <2>3. t \notin offered
    BY <2>2 DEF Mishap
  <2>4. offered' = offered \cup {t}
        /\ UNCHANGED <<pc, current, issued, asked, acked, got, record, requests, stored>>
    BY <1>2 DEF SendOffer, listenerVars, sentVars, exchangeVars
  <2>5. EachOnce'
    BY <2>1, <2>2, <2>3, <2>4, ArrivedOnce DEF Flawless, WasSent
  <2>6. \A u \in Offer : OneRequest(u)'
    BY <2>4 DEF Flawless, OneRequest
  <2>7. AllNew'
    <3>1. requests[t] = 0
      BY <2>3 DEF Flawless, OneRequest
    <3> QED
      BY <1>1, <2>1, <2>2, <2>4, <3>1 DEF Flawless, AllNew, IsNew
  <2>8. NeedsCome'
    <3>1. \A u \in Offer : issued'[u] # {} => Coming(u, Len(inbox))'
      BY <1>1, <2>1, <2>2, <2>4, ArrivedComing DEF Flawless
    <3>2. \A k \in 1..Len(inbox') : k \in 1..Len(inbox) \/ k = Len(inbox) + 1
      BY <1>1, <2>2
    <3>3. \A k \in 1..Len(inbox') :
            inbox'[k].type = "request" => \A u \in Needs[inbox'[k].thread] : Coming(u, k - 1)'
      BY <2>1, <2>2, <2>4, <3>2, ArrivedComing DEF Flawless
    <3> QED
      BY <2>4, <3>1, <3>3 DEF Flawless, NeedsCome, thread
  <2> QED
    BY <2>4, <2>5, <2>6, <2>7, <2>8 DEF Flawless
<1>3. ASSUME NEW t \in Offer, NEW n \in got[t], IssueCredential(t, n) PROVE Flawless'
  <2> DEFINE m == [type |-> "credential", thread |-> t, number |-> n]
  <2>1. m \in Message /\ m.type = "credential" /\ m.thread = t /\ m.number = n
    <3>1. n \in Nat \ {0}
      BY DEF TypeOK
    <3> QED
      BY <3>1 DEF Message, CredentialMessage
  <2>2. /\ Mishap("repeat", n \in issued[t]) = {}
        /\ Len(inbox') = Len(inbox) + 1 /\ inbox'[Len(inbox) + 1] = m
        /\ \A k \in 1..Len(inbox) : inbox'[k] = inbox[k]
    BY <1>3, <2>1, Arrived DEF IssueCredential
  <2> HIDE DEF m
  <2>3. n \notin issued[t]
    BY <2>2 DEF Mishap
  <2>4. issued' = [issued EXCEPT ![t] = @ \cup {n}]
        /\ UNCHANGED <<pc, current, offered, asked, acked, got, record, requests, stored>>
    BY <1>3 DEF IssueCredential, listenerVars, sentVars, exchangeVars
  <2>5. /\ issued'[t] = issued[t] \cup {n}
        /\ \A u \in Offer \ {t} : issued'[u] = issued[u]
    BY <2>4 DEF TypeOK
  <2>6. EachOnce'
    <3>1. \A u \in Message : WasSent(u) => WasSent(u)'
      BY <2>4, <2>5, ThreadOfMessage, MessageFields DEF WasSent
    <3>2. WasSent(m)' /\ ~WasSent(m)
      BY <2>1, <2>3, <2>5 DEF WasSent
    <3> QED
      BY <2>1, <2>2, <2>4, <3>1, <3>2, ArrivedOnce DEF Flawless
  <2>7. issued[t] = {}
    BY <2>3 DEF Flawless, OneRequest
  <2>8. \A u \in Offer : OneRequest(u)'
    BY <2>4, <2>5 DEF Flawless, OneRequest
  <2>9. AllNew'
    <3>1. stored[t] = 0
      BY <2>7 DEF Flawless, OneRequest
    <3> QED
      BY <1>1, <2>1, <2>2, <2>4, <3>1 DEF Flawless, AllNew, IsNew
  <2>10. NeedsCome'
    <3>1. Coming(t, Len(inbox))'
      <4>1. Len(inbox') \in 1..Len(inbox')
        BY <1>1, <2>2
      <4> QED
        BY <2>1, <2>2, <4>1 DEF Coming
    <3>2. \A u \in Offer : issued'[u] # {} => Coming(u, Len(inbox))'
      BY <2>1, <2>2, <2>4, <2>5, <3>1, ArrivedComing DEF Flawless
    <3>3. \A k \in 1..Len(inbox') : k \in 1..Len(inbox) \/ k = Len(inbox) + 1
      BY <1>1, <2>2
    <3>4. \A k \in 1..Len(inbox') :
            inbox'[k].type = "request" => \A u \in Needs[inbox'[k].thread] : Coming(u, k - 1)'
      BY <2>1, <2>2, <2>4, <3>3, ArrivedComing DEF Flawless
    <3> QED
      BY <2>4, <3>2, <3>4 DEF Flawless, NeedsCome, thread
  <2> QED
    BY <2>4, <2>6, <2>8, <2>9, <2>10 DEF Flawless
<1>4. ASSUME NEW r \in Request, AskForPresentation(r) PROVE Flawless'
  <2> DEFINE m == [type |-> "request", thread |-> r, number |-> 0]
  <2>1. m \in Message /\ m.type = "request" /\ m.thread = r
    BY DEF Message, RequestMessage
  <2>2. /\ Mishap("early", \E t \in Needs[r] : issued[t] = {}) = {}
        /\ Len(inbox') = Len(inbox) + 1 /\ inbox'[Len(inbox) + 1] = m
        /\ \A k \in 1..Len(inbox) : inbox'[k] = inbox[k]
    BY <1>4, <2>1, Arrived DEF AskForPresentation
  <2> HIDE DEF m
  <2>3. r \notin asked /\ asked' = asked \cup {r}
        /\ UNCHANGED <<pc, current, offered, issued, acked, got, record, requests, stored>>
    BY <1>4 DEF AskForPresentation, listenerVars, sentVars, exchangeVars
  <2>4. EachOnce'
    BY <2>1, <2>2, <2>3, ArrivedOnce DEF Flawless, WasSent
  <2>5. \A u \in Offer : OneRequest(u)'
    BY <2>3 DEF Flawless, OneRequest
  <2>6. AllNew'
    BY <1>1, <2>1, <2>2, <2>3 DEF Flawless, AllNew, IsNew
  <2>7. NeedsCome'
    <3>1. \A t \in Needs[r] : t \in Offer /\ issued[t] # {}
      BY <2>2 DEF Mishap
    <3>2. \A n \in Nat : n = Len(inbox) => \A t \in Needs[r] : Coming(t, n)'
      BY <2>1, <2>2, <2>3, <3>1, ArrivedComing DEF Flawless
    <3>3. \A u \in Offer : issued'[u] # {} => Coming(u, Len(inbox))'
      BY <1>1, <2>1, <2>2, <2>3, ArrivedComing DEF Flawless
    <3>4. \A k \in 1..Len(inbox') : k \in 1..Len(inbox) \/ k - 1 = Len(inbox)
      BY <1>1, <2>2
    <3>5. ASSUME NEW k \in 1..Len(inbox'), inbox'[k].type = "request",
                 NEW u \in Needs[inbox'[k].thread]
          PROVE  Coming(u, k - 1)'
      <4>1. CASE k \in 1..Len(inbox)
        BY <2>1, <2>2, <2>3, <3>5, <4>1, ArrivedComing DEF Flawless
      <4>2. CASE k - 1 = Len(inbox)
        <5>1. k - 1 \in Nat /\ u \in Needs[r]
          BY <1>1, <2>1, <2>2, <3>5, <4>2
        <5> QED
          BY <3>2, <4>2, <5>1
      <4> QED
        BY <3>4, <4>1, <4>2
    <3> QED
      BY <2>3, <3>3, <3>5 DEF Flawless, NeedsCome, thread
  <2> QED
    BY <2>3, <2>4, <2>5, <2>6, <2>7 DEF Flawless
<1>5. ASSUME NEW r \in Request, AckPresentation(r) PROVE Flawless'
  <2> DEFINE m == [type |-> "ack", thread |-> r, number |-> 0]
  <2>1. m \in Message /\ m.type = "ack" /\ m.thread = r
    BY DEF Message, AckMessage
  <2>2. /\ Len(inbox') = Len(inbox) + 1 /\ inbox'[Len(inbox) + 1] = m
        /\ \A k \in 1..Len(inbox) : inbox'[k] = inbox[k]
    BY <1>5, <2>1, Arrived DEF AckPresentation
  <2> HIDE DEF m
  <2>3. r \notin acked /\ acked' = acked \cup {r}
        /\ UNCHANGED <<pc, current, offered, issued, asked, got, record, requests, stored>>
    BY <1>5 DEF AckPresentation, listenerVars, sentVars, exchangeVars
  <2>4. EachOnce'
    BY <2>1, <2>2, <2>3, ArrivedOnce DEF Flawless, WasSent
  <2>5. \A u \in Offer : OneRequest(u)'
    BY <2>3 DEF Flawless, OneRequest
  <2>6. AllNew'
    BY <1>1, <2>1, <2>2, <2>3 DEF Flawless, AllNew, IsNew
  <2>7. NeedsCome'
    <3>1. \A u \in Offer : issued'[u] # {} => Coming(u, Len(inbox))'
      BY <1>1, <2>1, <2>2, <2>3, ArrivedComing DEF Flawless
    <3>2. \A k \in 1..Len(inbox') : k \in 1..Len(inbox) \/ k = Len(inbox) + 1
      BY <1>1, <2>2
    <3>3. \A k \in 1..Len(inbox') :
            inbox'[k].type = "request" => \A u \in Needs[inbox'[k].thread] : Coming(u, k - 1)'
      BY <2>1, <2>2, <2>3, <3>2, ArrivedComing DEF Flawless
    <3> QED
      BY <2>3, <3>1, <3>3 DEF Flawless, NeedsCome, thread
  <2> QED
    BY <2>3, <2>4, <2>5, <2>6, <2>7 DEF Flawless
<1> QED
  BY <1>2, <1>3, <1>4, <1>5 DEF PeerStep

LEMMA ReceiveSmooth ==
  ASSUME TypeOK, Flawless, Receive
  PROVE  Flawless'
<1>1. /\ Len(inbox) \in Nat /\ 1 \in 1..Len(inbox) /\ Len(inbox') = Len(inbox) - 1
      /\ current' = inbox[1] /\ inbox[1] \in Message
      /\ \A k \in 1..Len(inbox') : k + 1 \in 1..Len(inbox) /\ inbox'[k] = inbox[k + 1]
  BY DEF Receive, TypeOK
<1>2. pc = "receive" /\ pc' = inbox[1].type
      /\ UNCHANGED <<offered, issued, asked, acked, got, requests, stored>>
  BY DEF Receive, peerVars, exchangeVars, sentVars, outside
<1>3. pc' \in {"offer", "credential", "request", "ack"}
  BY <1>1, <1>2, MessageFields
<1>4. EachOnce'
  <2>1. /\ \A k \in 1..Len(inbox) : WasSent(inbox[k])
        /\ \A k, l \in 1..Len(inbox) : k # l => inbox[k] # inbox[l]
    BY DEF Flawless, EachOnce
  <2>2. \A m : WasSent(m) => WasSent(m)'
    BY <1>2 DEF WasSent
  <2>3. WasSent(current)' /\ \A k \in 1..Len(inbox') : inbox'[k] # current'
    <3>1. WasSent(inbox[1])
      BY <1>1, <2>1
    <3>2. WasSent(current)'
      BY <1>1, <1>2, <3>1 DEF WasSent
    <3> QED
      BY <1>1, <2>1, <3>2
  <2>4. \A k \in 1..Len(inbox') : WasSent(inbox[k])'
    <3>1. ASSUME NEW k \in 1..Len(inbox') PROVE WasSent(inbox[k])'
      <4>1. WasSent(inbox[k + 1]) /\ inbox'[k] = inbox[k + 1]
        BY <1>1, <2>1
      <4> QED
        BY <1>2, <4>1 DEF WasSent
    <3> QED
      BY <3>1
  <2>5. \A k, l \in 1..Len(inbox') : k # l => inbox'[k] # inbox'[l]
    BY <1>1, <2>1
  <2> QED
    BY <2>3, <2>4, <2>5 DEF EachOnce
<1>5. AllNew'
  BY <1>1, <1>2 DEF Flawless, AllNew, IsNew
<1>6. ASSUME NEW t, NEW n \in Nat \ {0}, n <= Len(inbox), Coming(t, n) PROVE Coming(t, n - 1)'
  <2>1. CASE \E l \in 1..n : inbox[l].type = "credential" /\ inbox[l].thread = t
    <3>1. PICK l \in 1..n : inbox[l].type = "credential" /\ inbox[l].thread = t
      BY <2>1
    <3>2. CASE l = 1
      BY <1>1, <1>2, <3>1, <3>2 DEF Coming, thread
    <3>3. CASE l # 1
      <4>1. l - 1 \in 1..(n - 1) /\ inbox'[l - 1] = inbox[l]
        BY <1>1, <1>6, <3>3
      <4> QED
        BY <3>1, <4>1 DEF Coming
    <3> QED
      BY <3>2, <3>3
  <2> QED
    BY <1>2, <1>6, <2>1 DEF Coming
<1>7. NeedsCome'
  <2>1. \A t \in Offer : issued'[t] # {} => Coming(t, Len(inbox))'
    BY <1>1, <1>2, <1>6 DEF Flawless, NeedsCome
  <2>2. ASSUME NEW k \in 1..Len(inbox'), inbox'[k].type = "request",
               NEW t \in Needs[inbox'[k].thread]
        PROVE  Coming(t, k - 1)'
    <3>1. /\ k + 1 \in 1..Len(inbox) /\ inbox[k + 1].type = "request"
          /\ t \in Needs[inbox[k + 1].thread]
      BY <1>1, <2>2
    <3>2. Coming(t, (k + 1) - 1)
      BY <3>1 DEF Flawless, NeedsCome
    <3>3. (k + 1) - 1 = k /\ k \in Nat \ {0} /\ k <= Len(inbox)
      BY <1>1
    <3> QED
      BY <1>6, <3>2, <3>3
  <2>3. ASSUME pc' = "request", NEW t \in Needs[current'.thread] PROVE stored'[t] > 0
    <3>1. inbox[1].type = "request" /\ t \in Needs[inbox[1].thread]
      BY <1>1, <1>2, <2>3
    <3>2. Coming(t, 1 - 1) /\ 1 - 1 = 0
      BY <1>1, <3>1 DEF Flawless, NeedsCome
    <3> QED
      BY <1>2, <3>2 DEF Coming
  <2> QED
    BY <1>3, <2>1, <2>2, <2>3 DEF NeedsCome, thread
<1> QED
  BY <1>2, <1>3, <1>4, <1>5, <1>7 DEF Flawless, OneRequest

\* Within an action the queue rests, and the message at hand is like no other.
LEMMA ActionSmooth ==
  ASSUME TypeOK, Flawless, pc # "receive", pc' # "dead",
         UNCHANGED <<inbox, current, offered, issued, asked, acked>>
  PROVE  EachOnce'
BY DEF Flawless, EachOnce, WasSent

LEMMA OthersAreOther ==
  ASSUME TypeOK, EachOnce, pc # "receive", pc # "dead", NEW k \in 1..Len(inbox),
         inbox[k].type = current.type, inbox[k].number = current.number
  PROVE  inbox[k].thread # current.thread
<1>1. inbox[k] \in Message /\ current \in Message /\ inbox[k] # current
  BY DEF TypeOK, EachOnce, OfferPC, CredentialPC, RequestPC, AckPC, Message
<1> QED
  BY <1>1, SameMessage

LEMMA ActionAlive ==
  ASSUME TypeOK, Consistent, Flawless, trouble' = {},
         Throw \/ OfferStep \/ CredentialStep \/ PresentationStep
  PROVE  pc' # "dead"
<1> USE ThreadOfMessage
    DEF TypeOK, OfferPC, CredentialPC, RequestPC, AckPC, thread, Goto, Refuse, sentVars, outside
<1>1. CASE CheckOffer
  <2>1. pc = "offer" => current \in OfferMessage /\ thread \in Offer /\ requests[thread] = 0
    BY DEF Flawless, AllNew, IsNew, OfferMessage
  <2>2. pc = "offer" => Settled(thread) /\ stored[thread] \in Nat
    BY <2>1 DEF Consistent, AtWorkOn, InOffer
  <2> QED
    BY <1>1, <2>1, <2>2 DEF CheckOffer, Settled, IsOpen
<1>2. CASE CheckCredential \/ StoreCredential
  <2> USE DEF CheckCredential, StoreCredential
  <2>1. /\ current \in CredentialMessage /\ current.type = "credential" /\ thread \in Offer
        /\ current.number \in issued[thread] /\ stored[thread] = 0
    BY <1>2 DEF Flawless, EachOnce, WasSent, AllNew, IsNew, CredentialMessage
  <2>2. current.number = 1 /\ requests[thread] = 1
    BY <2>1 DEF Flawless, OneRequest
  <2>3. CASE CheckCredential
    <3>1. Settled(thread)
      BY <2>1, <2>3 DEF Consistent, AtWorkOn, InCredential
    <3> QED
      BY <2>1, <2>2, <2>3, <3>1 DEF Settled, IsOpen
  <2>4. CASE StoreCredential
    BY <2>1, <2>2, <2>4 DEF Consistent, AtWorkOn, InCredential, IsOpen
  <2> QED
    BY <1>2, <2>3, <2>4
<1>3. CASE CreatePresentation
  <2>1. \A t \in Needs[thread] : stored[t] > 0
    BY <1>3 DEF CreatePresentation, Flawless, NeedsCome
  <2> QED
    BY <1>3, <2>1 DEF CreatePresentation
<1>4. CASE Throw \/ AskOffer \/ AskPresentation \/ AskCredential
  BY <1>4 DEF Throw, AskOffer, AskPresentation, AskCredential
<1>5. CASE \/ LookupDefinition \/ SendRequest \/ StoreRecord \/ NotifySent
           \/ RemoveRecord \/ NotifyDone \/ SendPresentation \/ NotifyPresented
  BY <1>5
     DEF LookupDefinition, SendRequest, StoreRecord, NotifySent, RemoveRecord, NotifyDone,
         SendPresentation, NotifyPresented
<1> QED
  BY <1>1, <1>2, <1>3, <1>4, <1>5 DEF OfferStep, CredentialStep, PresentationStep

\* The only actions that change what the messages ask for.
LEMMA SendSmooth ==
  ASSUME TypeOK, Consistent, Flawless, SendRequest, trouble' = {}
  PROVE  Flawless'
<1>1. /\ pc = "send" /\ pc' = "store" /\ current \in OfferMessage /\ thread \in Offer
      /\ UNCHANGED <<inbox, current, offered, issued, asked, acked, stored>>
      /\ requests' = [requests EXCEPT ![thread] = @ + 1]
      /\ got' = [got EXCEPT ![thread] = @ \cup {requests'[thread]}]
  BY ThreadOfMessage DEF SendRequest, Goto, peerVars, TypeOK, OfferPC, thread
<1>2. requests[thread] = 0 /\ thread \in offered
  BY <1>1 DEF Flawless, AllNew, IsNew, EachOnce, WasSent, OfferMessage, thread
<1>3. requests'[thread] = 1 /\ \A t \in Offer \ {thread} : requests'[t] = requests[t]
  BY <1>1, <1>2 DEF TypeOK
<1>4. /\ got'[thread] = got[thread] \cup {1}
      /\ \A t \in Offer \ {thread} : got'[t] = got[t]
  BY <1>1, <1>3 DEF TypeOK
<1>5. EachOnce'
  BY <1>1, ActionSmooth
<1>6. \A t \in Offer : OneRequest(t)'
  <2>1. \A n \in got[thread] : n = 1
    BY <1>1 DEF Flawless, OneRequest
  <2> QED
    BY <1>1, <1>2, <1>3, <1>4, <2>1 DEF Flawless, OneRequest
<1>7. AllNew'
  <2>1. ASSUME NEW k \in 1..Len(inbox), inbox[k].type = "offer"
        PROVE  inbox[k].thread # thread /\ inbox[k].thread \in Offer
    <3>1. inbox[k] \in OfferMessage /\ inbox[k].number = 0 /\ current.number = 0
          /\ current.type = "offer"
      BY <1>1, <2>1, MessageFields DEF TypeOK, OfferMessage
    <3> QED
      BY <1>1, <2>1, <3>1, OthersAreOther, ThreadOfMessage DEF Flawless, thread
  <2> QED
    BY <1>1, <1>3, <2>1 DEF Flawless, AllNew, IsNew
<1>8. NeedsCome'
  BY <1>1 DEF Flawless, NeedsCome, Coming, thread
<1> QED
  BY <1>1, <1>5, <1>6, <1>7, <1>8 DEF Flawless

LEMMA StoreSmooth ==
  ASSUME TypeOK, Consistent, Flawless, StoreCredential, pc' # "dead"
  PROVE  Flawless'
<1>1. /\ pc = "keep" /\ pc' = "remove" /\ current \in CredentialMessage /\ thread \in Offer
      /\ UNCHANGED <<inbox, current, offered, issued, asked, acked, got, requests>>
      /\ stored' = [stored EXCEPT ![thread] = @ + 1]
  BY ThreadOfMessage
     DEF StoreCredential, Goto, peerVars, sentVars, outside, TypeOK, CredentialPC, thread
<1>2. current.type = "credential" /\ current.number \in issued[thread]
  BY <1>1 DEF Flawless, EachOnce, WasSent, CredentialMessage, thread
<1>3. /\ stored'[thread] = stored[thread] + 1 /\ stored[thread] \in Nat
      /\ \A t \in Offer \ {thread} : stored'[t] = stored[t]
  BY <1>1 DEF TypeOK
<1>4. EachOnce'
  BY <1>1, ActionSmooth
<1>5. \A t \in Offer : OneRequest(t)'
  BY <1>1, <1>2, <1>3 DEF Flawless, OneRequest
<1>6. AllNew'
  <2>1. ASSUME NEW k \in 1..Len(inbox), inbox[k].type = "credential"
        PROVE  inbox[k].thread # thread /\ inbox[k].thread \in Offer
    <3>1. inbox[k] \in CredentialMessage /\ inbox[k].number \in issued[inbox[k].thread]
      BY <2>1, MessageFields DEF TypeOK, Flawless, EachOnce, WasSent
    <3>2. inbox[k].number = 1 /\ current.number = 1
      BY <1>1, <1>2, <3>1, ThreadOfMessage DEF Flawless, OneRequest
    <3> QED
      BY <1>1, <1>2, <2>1, <3>1, <3>2, OthersAreOther, ThreadOfMessage DEF Flawless, thread
  <2> QED
    BY <1>1, <1>3, <2>1 DEF Flawless, AllNew, IsNew
<1>7. \A t \in Offer : \A n : Coming(t, n) => Coming(t, n)'
  BY <1>1, <1>3 DEF Coming, thread
<1>8. NeedsCome'
  <2>1. \A r \in Request : Needs[r] \subseteq Offer
    OBVIOUS
  <2>2. ASSUME NEW k \in 1..Len(inbox), inbox[k].type = "request",
               NEW t \in Needs[inbox[k].thread]
        PROVE  Coming(t, k - 1)'
    <3>1. t \in Offer
      BY <2>1, <2>2, MessageFields, ThreadOfMessage DEF TypeOK
    <3> QED
      BY <1>7, <2>2, <3>1 DEF Flawless, NeedsCome
  <2>3. \A t \in Offer : issued'[t] # {} => Coming(t, Len(inbox))'
    BY <1>1, <1>3 DEF Flawless, NeedsCome, Coming, thread
  <2> QED
    BY <1>1, <2>2, <2>3 DEF NeedsCome
<1> QED
  BY <1>1, <1>4, <1>5, <1>6, <1>8 DEF Flawless

LEMMA RestSmooth ==
  ASSUME TypeOK, Flawless, pc' # "dead", trouble' = {},
         \/ CheckOffer \/ LookupDefinition \/ AskOffer \/ StoreRecord \/ NotifySent
         \/ CheckCredential \/ AskCredential \/ RemoveRecord \/ NotifyDone
         \/ PresentationStep
  PROVE  Flawless'
<1>1. /\ pc # "receive"
      /\ UNCHANGED <<inbox, current, offered, issued, asked, acked, got, requests, stored>>
      /\ pc' \in {"offer", "lookup", "askOffer", "send"} =>
           pc \in {"offer", "lookup", "askOffer", "send"}
      /\ pc' \in {"credential", "askCredential", "keep"} <=>
           pc \in {"credential", "askCredential", "keep"}
      /\ pc' \in {"request", "prove"} => pc \in {"request", "prove"}
  BY DEF CheckOffer, LookupDefinition, AskOffer, StoreRecord, NotifySent, CheckCredential,
         AskCredential, RemoveRecord, NotifyDone, PresentationStep, AskPresentation,
         CreatePresentation, SendPresentation, NotifyPresented, Goto, Refuse, Notify,
         exchangeVars, peerVars, sentVars, outside
<1>2. EachOnce'
  BY <1>1, ActionSmooth
<1>3. AllNew'
  BY <1>1 DEF Flawless, AllNew, IsNew
<1>4. NeedsCome'
  BY <1>1 DEF Flawless, NeedsCome, Coming, thread
<1> QED
  BY <1>1, <1>2, <1>3, <1>4 DEF Flawless, OneRequest

LEMMA AckEnds ==
  ASSUME TypeOK, ReadAck
  PROVE  EndedByAck'
BY DEF ReadAck, Goto, EndedByAck, TypeOK, AckPC, AckMessage

LEMMA StepSmooth ==
  ASSUME TypeOK, Consistent, Smooth, [Next]_vars
  PROVE  Smooth'
<1> SUFFICES ASSUME trouble' = {}, ~EndedByAck' PROVE Flawless'
  BY DEF Smooth
<1>1. trouble = {}
  BY DEF Next, PeerStep, SendOffer, IssueCredential, AskForPresentation, AckPresentation,
         Arrive, ListenerStep, Receive, Throw, OfferStep, CheckOffer, LookupDefinition,
         AskOffer, SendRequest, StoreRecord, NotifySent, CredentialStep, CheckCredential,
         AskCredential, StoreCredential, RemoveRecord, NotifyDone, PresentationStep,
         AskPresentation, CreatePresentation, SendPresentation, NotifyPresented, ReadAck,
         Refuse, sentVars, outside, vars
<1>2. Flawless
  <2>1. ASSUME pc = "dead" PROVE UNCHANGED <<pc, current>>
    BY <2>1
       DEF Next, PeerStep, SendOffer, IssueCredential, AskForPresentation, AckPresentation,
           listenerVars, ListenerStep, Receive, Throw, OfferStep, CheckOffer,
           LookupDefinition, AskOffer, SendRequest, StoreRecord, NotifySent,
           CredentialStep, CheckCredential, AskCredential, StoreCredential, RemoveRecord,
           NotifyDone, PresentationStep, AskPresentation, CreatePresentation,
           SendPresentation, NotifyPresented, ReadAck, Goto, vars
  <2> QED
    BY <1>1, <2>1 DEF Smooth, EndedByAck
<1>3. CASE UNCHANGED vars
  BY <1>2, <1>3
     DEF vars, listenerVars, peerVars, exchangeVars, sentVars, outside, Flawless, EachOnce,
         WasSent, OneRequest, AllNew, IsNew, NeedsCome, Coming, thread
<1>4. CASE PeerStep
  BY <1>2, <1>4, PeerSmooth
<1>5. CASE Receive
  BY <1>2, <1>5, ReceiveSmooth
<1>6. CASE Throw \/ OfferStep \/ CredentialStep \/ PresentationStep
  <2>1. pc' # "dead"
    BY <1>2, <1>6, ActionAlive
  <2>2. ~Throw
    BY <2>1 DEF Throw
  <2> QED
    BY <1>2, <1>6, <2>1, <2>2, SendSmooth, StoreSmooth, RestSmooth
       DEF OfferStep, CredentialStep
<1> QED
  BY <1>3, <1>4, <1>5, <1>6, AckEnds DEF Next, ListenerStep

\* As long as nothing is lost, repeated, declined or early and no call throws, no
\* exchange that overlaps with others ends the listener, and no message but an ack.
THEOREM ListenerStaysAlive == Spec => []ListenerSurvives
<1>1. Init => Smooth
  BY DEF Init, Smooth, Flawless, EachOnce, OneRequest, AllNew, NeedsCome
<1>2. Smooth => ListenerSurvives
  BY DEF Smooth, Flawless, ListenerSurvives
<1> QED
  BY <1>1, <1>2, StepSmooth, ConsistentAlways, TypeCorrect, PTL DEF Spec

-----------------------------------------------------------------------------
(***************************************************************************)
(* Why exchanges end: as long as nothing has gone wrong elsewhere, the     *)
(* next message of each lies where a fair step takes it.                   *)
(***************************************************************************)

InQueue(kind, t) == \E k \in 1..Len(inbox) : inbox[k].type = kind /\ inbox[k].thread = t

IssuerIsNext(t) == requests[t] \in got[t] \ issued[t]

OfferIsUnderWay(t) ==
  view[t] = "done" \/ InQueue("offer", t) \/ AtWorkOn(t) \/ IssuerIsNext(t)
    \/ InQueue("credential", t)

RequestIsUnderWay(r) ==
  r \in presented \/ InQueue("request", r) \/ (pc \in RequestPC /\ thread = r)

NothingIsForgotten ==
  trouble = {} =>
    /\ \A t \in offered : OfferIsUnderWay(t)
    /\ \A r \in asked : RequestIsUnderWay(r)

RequestsArrive ==
  trouble = {} => \A t \in Offer : requests[t] > 0 => requests[t] \in got[t]

LEMMA QueueGrows ==
  ASSUME TypeOK, NEW m \in Message, NEW mishap, Arrive(m, mishap), trouble' = {}
  PROVE  /\ \A kind, t : InQueue(kind, t) => InQueue(kind, t)'
         /\ InQueue(m.type, m.thread)'
<1>1. /\ Len(inbox) \in Nat /\ Len(inbox') = Len(inbox) + 1
      /\ inbox'[Len(inbox) + 1] = m
      /\ \A k \in 1..Len(inbox) : inbox'[k] = inbox[k]
  BY Arrived
<1>2. \A k \in 1..Len(inbox) : k \in 1..Len(inbox')
  BY <1>1
<1>3. Len(inbox) + 1 \in 1..Len(inbox')
  BY <1>1
<1> QED
  BY <1>1, <1>2, <1>3 DEF InQueue

LEMMA QueueIsTaken ==
  ASSUME TypeOK, Receive, NEW kind, NEW t, InQueue(kind, t)
  PROVE  InQueue(kind, t)' \/ (pc' = kind /\ current'.thread = t)
<1>1. PICK k \in 1..Len(inbox) : inbox[k].type = kind /\ inbox[k].thread = t
  BY DEF InQueue
<1>2. /\ inbox \in Seq(Message) /\ inbox' = Tail(inbox) /\ inbox # <<>>
      /\ pc' = inbox[1].type /\ current' = inbox[1]
  BY DEF Receive, TypeOK
<1>3. CASE k = 1
  BY <1>1, <1>2, <1>3
<1>4. CASE k # 1
  <2>1. k - 1 \in 1..Len(inbox') /\ inbox'[k - 1] = inbox[k]
    BY <1>2, <1>4
  <2> QED
    BY <1>1, <2>1 DEF InQueue
<1> QED
  BY <1>3, <1>4

LEMMA PeerForgetsNothing ==
  ASSUME TypeOK, NothingIsForgotten, PeerStep, trouble = {}, trouble' = {}
  PROVE  NothingIsForgotten'
<1>1. UNCHANGED <<pc, current, got, requests, view, presented>>
  BY DEF PeerStep, SendOffer, IssueCredential, AskForPresentation, AckPresentation,
         listenerVars, sentVars, exchangeVars
<1>2. ASSUME NEW t \in Offer, SendOffer(t) PROVE NothingIsForgotten'
  <2> DEFINE m == [type |-> "offer", thread |-> t, number |-> 0]
  <2>1. m \in Message /\ m.type = "offer" /\ m.thread = t
    BY DEF Message, OfferMessage
  <2>2. /\ \A kind, u : InQueue(kind, u) => InQueue(kind, u)'
        /\ InQueue("offer", t)'
    BY <1>2, <2>1, QueueGrows DEF SendOffer
  <2>3. offered' = offered \cup {t} /\ UNCHANGED <<issued, asked>>
    BY <1>2 DEF SendOffer
  <2> QED
    BY <1>1, <2>2, <2>3
       DEF NothingIsForgotten, OfferIsUnderWay, RequestIsUnderWay, AtWorkOn, IssuerIsNext,
           thread
<1>3. ASSUME NEW t \in Offer, NEW n \in got[t], IssueCredential(t, n)
      PROVE  NothingIsForgotten'
  <2> DEFINE m == [type |-> "credential", thread |-> t, number |-> n]
  <2>1. m \in Message /\ m.type = "credential" /\ m.thread = t
    BY DEF Message, CredentialMessage, TypeOK
  <2>2. /\ \A kind, u : InQueue(kind, u) => InQueue(kind, u)'
        /\ InQueue("credential", t)'
    BY <1>3, <2>1, QueueGrows DEF IssueCredential
  <2>3. /\ UNCHANGED <<offered, asked>>
        /\ \A u \in Offer : u # t => issued'[u] = issued[u]
    BY <1>3 DEF IssueCredential, TypeOK
  <2>4. offered \subseteq Offer
    BY DEF TypeOK
  <2> QED
    BY <1>1, <2>2, <2>3, <2>4
       DEF NothingIsForgotten, OfferIsUnderWay, RequestIsUnderWay, AtWorkOn, IssuerIsNext,
           thread
<1>4. ASSUME NEW r \in Request, AskForPresentation(r) PROVE NothingIsForgotten'
  <2> DEFINE m == [type |-> "request", thread |-> r, number |-> 0]
  <2>1. m \in Message /\ m.type = "request" /\ m.thread = r
    BY DEF Message, RequestMessage
  <2>2. /\ \A kind, u : InQueue(kind, u) => InQueue(kind, u)'
        /\ InQueue("request", r)'
    BY <1>4, <2>1, QueueGrows DEF AskForPresentation
  <2>3. asked' = asked \cup {r} /\ UNCHANGED <<offered, issued>>
    BY <1>4 DEF AskForPresentation
  <2> QED
    BY <1>1, <2>2, <2>3
       DEF NothingIsForgotten, OfferIsUnderWay, RequestIsUnderWay, AtWorkOn, IssuerIsNext,
           thread
<1>5. ASSUME NEW r \in Request, AckPresentation(r) PROVE NothingIsForgotten'
  <2> DEFINE m == [type |-> "ack", thread |-> r, number |-> 0]
  <2>1. m \in Message
    BY DEF Message, AckMessage
  <2>2. \A kind, u : InQueue(kind, u) => InQueue(kind, u)'
    BY <1>5, <2>1, QueueGrows DEF AckPresentation
  <2>3. UNCHANGED <<offered, issued, asked>>
    BY <1>5 DEF AckPresentation
  <2> QED
    BY <1>1, <2>2, <2>3
       DEF NothingIsForgotten, OfferIsUnderWay, RequestIsUnderWay, AtWorkOn, IssuerIsNext,
           thread
<1> QED
  BY <1>2, <1>3, <1>4, <1>5 DEF PeerStep

LEMMA ReceiveForgetsNothing ==
  ASSUME TypeOK, NothingIsForgotten, Receive, trouble = {}
  PROVE  NothingIsForgotten'
<1>1. /\ pc = "receive"
      /\ UNCHANGED <<offered, issued, asked, got, requests, view, presented>>
  BY DEF Receive, peerVars, exchangeVars, sentVars, outside
<1>2. \A t : ~AtWorkOn(t) /\ pc \notin RequestPC
  BY <1>1 DEF AtWorkOn, OfferPC, CredentialPC, RequestPC
<1>3. \A kind, t : InQueue(kind, t) => InQueue(kind, t)' \/ (pc' = kind /\ thread' = t)
  BY QueueIsTaken DEF thread
<1>4. \A t \in offered : OfferIsUnderWay(t)'
  BY <1>1, <1>2, <1>3
     DEF NothingIsForgotten, OfferIsUnderWay, IssuerIsNext, AtWorkOn, OfferPC, CredentialPC
<1>5. \A r \in asked : RequestIsUnderWay(r)'
  BY <1>1, <1>2, <1>3 DEF NothingIsForgotten, RequestIsUnderWay, RequestPC
<1> QED
  BY <1>1, <1>4, <1>5 DEF NothingIsForgotten

\* An action that is over has left the exchange to the issuer or reported its end.
LEMMA ActionForgetsNothing ==
  ASSUME TypeOK, Consistent, Flawless, RequestsArrive, NothingIsForgotten,
         trouble = {}, trouble' = {}, pc' # "dead",
         OfferStep \/ CredentialStep \/ PresentationStep
  PROVE  NothingIsForgotten'
<1> USE ThreadOfMessage
<1>1. UNCHANGED <<inbox, current, offered, asked, issued>>
  BY DEF OfferStep, CheckOffer, LookupDefinition, AskOffer, SendRequest, StoreRecord,
         NotifySent, CredentialStep, CheckCredential, AskCredential, StoreCredential,
         RemoveRecord, NotifyDone, PresentationStep, AskPresentation, CreatePresentation,
         SendPresentation, NotifyPresented, Goto, peerVars
<1>2. \A kind, t : InQueue(kind, t)' <=> InQueue(kind, t)
  BY <1>1 DEF InQueue
<1>3. ASSUME NEW t \in Offer, t # thread, IssuerIsNext(t) PROVE IssuerIsNext(t)'
  BY <1>1, <1>3
     DEF IssuerIsNext, TypeOK, OfferStep, CheckOffer, LookupDefinition, AskOffer,
         SendRequest, StoreRecord, NotifySent, CredentialStep, CheckCredential,
         AskCredential, StoreCredential, RemoveRecord, NotifyDone, PresentationStep,
         AskPresentation, CreatePresentation, SendPresentation, NotifyPresented, Refuse,
         exchangeVars, sentVars, outside
<1>4. ASSUME NEW t \in Offer, t # thread PROVE view'[t] = view[t]
  BY <1>4
     DEF TypeOK, Notify, OfferStep, CheckOffer, LookupDefinition, AskOffer,
         SendRequest, StoreRecord, NotifySent, CredentialStep, CheckCredential,
         AskCredential, StoreCredential, RemoveRecord, NotifyDone, PresentationStep,
         AskPresentation, CreatePresentation, SendPresentation, NotifyPresented,
         exchangeVars
<1>5. ASSUME NEW t \in offered, t # thread \/ pc \in RequestPC PROVE OfferIsUnderWay(t)'
  <2>1. t \in Offer /\ OfferIsUnderWay(t)
    BY DEF NothingIsForgotten, TypeOK
  <2>2. t # thread
    BY <1>5, <2>1, ExchangeAssumption DEF TypeOK, thread
  <2>3. ~AtWorkOn(t)
    BY <2>2 DEF AtWorkOn
  <2> QED
    BY <1>2, <1>3, <1>4, <2>1, <2>2, <2>3 DEF OfferIsUnderWay
<1>6. ASSUME NEW t \in offered, t = thread, pc \in OfferPC \cup CredentialPC
      PROVE  OfferIsUnderWay(t)'
  <2>1. t \in Offer /\ thread = t /\ thread' = t
    BY <1>1, <1>6 DEF TypeOK, thread
  <2>2. CASE pc' \in OfferPC \cup CredentialPC
    BY <2>1, <2>2 DEF OfferIsUnderWay, AtWorkOn
  <2>3. CASE NotifySent
    <3>1. /\ pc = "sent" /\ UNCHANGED <<requests, got>>
      BY <2>3 DEF NotifySent, Goto, sentVars, outside
    <3>2. requests[t] = stored[t] + 1 /\ stored[t] \in Nat
      BY <2>1, <3>1
         DEF Consistent, AtWorkOn, InOffer, IsOpen, OfferPC, CredentialPC, TypeOK
    <3>3. requests[t] \in got[t] /\ stored[t] = 0
      BY <2>1, <3>2 DEF RequestsArrive, Flawless, OneRequest, TypeOK
    <3>4. CASE requests[t] \notin issued[t]
      BY <1>1, <2>1, <3>1, <3>3, <3>4 DEF OfferIsUnderWay, IssuerIsNext
    <3>5. CASE requests[t] \in issued[t]
      <4>1. Coming(t, Len(inbox))
        BY <2>1, <3>5 DEF Flawless, NeedsCome
      <4>2. InQueue("credential", t)
        BY <3>1, <3>3, <4>1 DEF Coming, InQueue
      <4> QED
        BY <1>2, <2>1, <4>2 DEF OfferIsUnderWay
    <3> QED
      BY <3>4, <3>5
  <2>4. CASE NotifyDone
    <3>1. view'[t] = "done"
      BY <2>1, <2>4 DEF NotifyDone, Notify, TypeOK
    <3> QED
      BY <2>1, <3>1 DEF OfferIsUnderWay
  <2> QED
    BY <1>6, <2>2, <2>3, <2>4
       DEF OfferPC, CredentialPC, RequestPC, Goto, Refuse, sentVars, outside, OfferStep, CheckOffer,
           LookupDefinition, AskOffer, SendRequest, StoreRecord, CredentialStep,
           CheckCredential, AskCredential, StoreCredential, RemoveRecord,
           PresentationStep, AskPresentation, CreatePresentation, SendPresentation,
           NotifyPresented
<1>7. pc \in OfferPC \cup CredentialPC \cup RequestPC
  BY DEF OfferPC, CredentialPC, RequestPC, Goto, OfferStep, CheckOffer, LookupDefinition,
         AskOffer, SendRequest, StoreRecord, NotifySent, CredentialStep, CheckCredential,
         AskCredential, StoreCredential, RemoveRecord, NotifyDone, PresentationStep,
         AskPresentation, CreatePresentation, SendPresentation, NotifyPresented
<1>8. \A t \in offered : OfferIsUnderWay(t)'
  BY <1>5, <1>6, <1>7
<1>9. \A r \in asked : RequestIsUnderWay(r)'
  <2> SUFFICES ASSUME NEW r \in asked PROVE RequestIsUnderWay(r)'
    OBVIOUS
  <2>1. RequestIsUnderWay(r) /\ thread' = thread
    BY <1>1 DEF NothingIsForgotten, thread
  <2>2. r \in presented => r \in presented'
    BY DEF OfferStep, CheckOffer, LookupDefinition, AskOffer, SendRequest, StoreRecord,
           NotifySent, CredentialStep, CheckCredential, AskCredential, StoreCredential,
           RemoveRecord, NotifyDone, PresentationStep, AskPresentation,
           CreatePresentation, SendPresentation, NotifyPresented
  <2>3. pc \in RequestPC =>
          pc' \in RequestPC \/ (NotifyPresented /\ presented' = presented \cup {thread})
    BY DEF OfferPC, CredentialPC, RequestPC, Goto, Refuse, sentVars, outside, OfferStep, CheckOffer,
           LookupDefinition, AskOffer, SendRequest, StoreRecord, NotifySent,
           CredentialStep, CheckCredential, AskCredential, StoreCredential, RemoveRecord,
           NotifyDone, PresentationStep, AskPresentation, CreatePresentation,
           SendPresentation, NotifyPresented
  <2> QED
    BY <1>2, <2>1, <2>2, <2>3 DEF RequestIsUnderWay
<1> QED
  BY <1>1, <1>8, <1>9 DEF NothingIsForgotten

LEMMA StepRequestsArrive ==
  ASSUME TypeOK, RequestsArrive, [Next]_vars
  PROVE  RequestsArrive'
<1>1. CASE SendRequest
  <2>1. /\ thread \in Offer /\ requests' = [requests EXCEPT ![thread] = @ + 1]
        /\ trouble' = {} => /\ trouble = {}
                           /\ got' = [got EXCEPT ![thread] = @ \cup {requests'[thread]}]
    BY <1>1, ThreadOfMessage DEF SendRequest, Goto, TypeOK, OfferPC, thread
  <2> QED
    BY <2>1 DEF RequestsArrive, TypeOK
<1>2. CASE ~SendRequest
  <2>1. UNCHANGED <<requests, got>> /\ (trouble' = {} => trouble = {})
    BY <1>2
       DEF Next, PeerStep, SendOffer, IssueCredential, AskForPresentation, AckPresentation, Arrive,
           ListenerStep, Receive, Throw, OfferStep, CheckOffer, LookupDefinition,
           AskOffer, StoreRecord, NotifySent, CredentialStep, CheckCredential,
           AskCredential, StoreCredential, RemoveRecord, NotifyDone, PresentationStep,
           AskPresentation, CreatePresentation, SendPresentation, NotifyPresented, ReadAck,
           Refuse, sentVars, outside, exchangeVars, vars
  <2> QED
    BY <2>1 DEF RequestsArrive
<1> QED
  BY <1>1, <1>2

\* As long as nothing has gone wrong elsewhere, the agent has no exchange that it has
\* left: an offer ends in onDone, or its next message is in the queue, with the
\* listener or at the issuer; a presentation request likewise.
THEOREM ExchangesStayUnderWay == Spec => []NothingIsForgotten
<1>1. Init => RequestsArrive /\ NothingIsForgotten
  BY DEF Init, RequestsArrive, NothingIsForgotten
<1>2. Init => Smooth
  BY DEF Init, Smooth, Flawless, EachOnce, OneRequest, AllNew, NeedsCome
<1>3. TypeOK /\ Consistent /\ Smooth /\ Smooth' /\ RequestsArrive /\ NothingIsForgotten
      /\ [Next]_vars
        => NothingIsForgotten'
  <2> SUFFICES ASSUME TypeOK, Consistent, Smooth, Smooth', RequestsArrive,
                      NothingIsForgotten, [Next]_vars
               PROVE  NothingIsForgotten'
    OBVIOUS
  <2> SUFFICES ASSUME trouble' = {} PROVE NothingIsForgotten'
    BY DEF NothingIsForgotten
  <2>1. trouble = {}
    BY DEF Next, PeerStep, SendOffer, IssueCredential, AskForPresentation,
           AckPresentation, Arrive, ListenerStep, Receive, Throw, OfferStep, CheckOffer,
           LookupDefinition, AskOffer, SendRequest, StoreRecord, NotifySent,
           CredentialStep, CheckCredential, AskCredential, StoreCredential, RemoveRecord,
           NotifyDone, PresentationStep, AskPresentation, CreatePresentation,
           SendPresentation, NotifyPresented, ReadAck, Refuse, sentVars, outside, vars
  <2>2. ASSUME OfferStep \/ CredentialStep \/ PresentationStep
        PROVE  Flawless /\ pc' # "dead"
    <3>1. pc # "dead" /\ pc \notin AckPC /\ current' = current
      BY <2>2
         DEF AckPC, OfferStep, CheckOffer, LookupDefinition, AskOffer, SendRequest,
             StoreRecord, NotifySent, CredentialStep, CheckCredential, AskCredential,
             StoreCredential, RemoveRecord, NotifyDone, PresentationStep, AskPresentation,
             CreatePresentation, SendPresentation, NotifyPresented, Goto
    <3>2. Flawless
      BY <2>1, <3>1 DEF Smooth, EndedByAck
    <3> QED
      BY <2>2, <3>2, ActionAlive
  <2>3. CASE UNCHANGED vars
    BY <2>3
       DEF vars, listenerVars, peerVars, exchangeVars, sentVars, outside, NothingIsForgotten,
           OfferIsUnderWay, RequestIsUnderWay, InQueue, IssuerIsNext, AtWorkOn, thread
  <2>4. ~Throw
    BY DEF Throw
  <2>5. CASE ReadAck
    BY <2>5
       DEF ReadAck, Goto, peerVars, exchangeVars, sentVars, outside, NothingIsForgotten,
           OfferIsUnderWay, RequestIsUnderWay, InQueue, IssuerIsNext, AtWorkOn, thread,
           OfferPC, CredentialPC, RequestPC
  <2> QED
    BY <2>1, <2>2, <2>3, <2>4, <2>5, PeerForgetsNothing, ReceiveForgetsNothing,
       ActionForgetsNothing
       DEF Next, ListenerStep
<1> QED
  BY <1>1, <1>2, <1>3, StepSmooth, StepRequestsArrive, ConsistentAlways, TypeCorrect, PTL
     DEF Spec

-----------------------------------------------------------------------------
(***************************************************************************)
(* Refinement                                                              *)
(***************************************************************************)

LEMMA StepContract ==
  ASSUME TypeOK, Consistent, [Next]_vars
  PROVE  [Contract!Next]_(Contract!vars)
<1> USE ThreadOfMessage
    DEF TypeOK, OfferPC, CredentialPC, RequestPC, AckPC, thread, Goto, Notify,
        peerVars, exchangeVars, sentVars, outside, Consistent, AtWorkOn, IsOpen,
        InOffer, InCredential, Contract!vars, Contract!Next, Contract!Open,
        Contract!Notify
<1>1. CASE AskOffer
  <2>1. thread \in Offer /\ requests[thread] = stored[thread]
        /\ view[thread] \in {"none", "done"}
    BY <1>1 DEF AskOffer
  <2>2. stored[thread] \in Nat
    BY <2>1
  <2>3. ~Contract!Open(thread)
    BY <2>1, <2>2
  <2>4. Contract!OfferReceived(thread)
    BY <1>1, <2>1, <2>3 DEF AskOffer, Contract!OfferReceived
  <2> QED
    BY <2>1, <2>4
<1>2. CASE SendRequest
  BY <1>2 DEF SendRequest, Contract!Send
<1>3. CASE NotifySent
  BY <1>3 DEF NotifySent, Contract!RequestSent
<1>4. CASE AskCredential
  BY <1>4 DEF AskCredential, Contract!CredentialReceived
<1>5. CASE StoreCredential
  BY <1>5 DEF StoreCredential, Contract!Store
<1>6. CASE NotifyDone
  <2>1. thread \in Offer /\ requests[thread] = stored[thread]
        /\ view[thread] = "received"
    BY <1>6 DEF NotifyDone
  <2>2. stored[thread] \in Nat
    BY <2>1
  <2>3. ~Contract!Open(thread)
    BY <2>1, <2>2
  <2>4. Contract!Done(thread)
    BY <1>6, <2>1, <2>3 DEF NotifyDone, Contract!Done
  <2> QED
    BY <2>1, <2>4
<1>7. CASE CheckOffer \/ LookupDefinition \/ StoreRecord \/ CheckCredential
           \/ RemoveRecord \/ PresentationStep \/ ReadAck \/ Receive \/ Throw \/ PeerStep
           \/ UNCHANGED vars
  BY <1>7 DEF CheckOffer, LookupDefinition, StoreRecord, CheckCredential,
              RemoveRecord, PresentationStep, AskPresentation, ReadAck,
              CreatePresentation, SendPresentation, NotifyPresented, Receive,
              Throw, PeerStep, SendOffer, IssueCredential, AskForPresentation, AckPresentation,
              vars
<1> QED
  BY <1>1, <1>2, <1>3, <1>4, <1>5, <1>6, <1>7
  DEF Next, ListenerStep, OfferStep, CredentialStep

\* Callbacks come in order, a request is answered by at most one credential, and
\* there is one open request at most, whatever peers and application do.
THEOREM ImplementsContract == Spec => ContractSpec
<1>1. Init => Contract!Init
  BY DEF Init, Contract!Init
<1> QED
  BY <1>1, StepContract, ConsistentAlways, TypeCorrect, PTL
  DEF Spec, ContractSpec, Contract!Spec
=============================================================================
