---------------------------- MODULE Presentation ----------------------------
(***************************************************************************)
(* IndyProver.createPresentation and the lookups of IndyLedgerConnector    *)
(* that it makes, on the listener's thread: choose a credential for each   *)
(* attribute and then for each predicate of the request, look up the       *)
(* schemas and definitions of these credentials, create the proof.         *)
(* A lookup is one attempt of `repeat(retryTimes)' at a time.  After an    *)
(* attempt that fails the delay, a Long, is cast to Int, which no Long     *)
(* ever is: the exception leaves the lookup, createPresentation and        *)
(* listen().  A definition of a revocation registry is decoded as an       *)
(* interface that has no registered implementation; this fails always, so  *)
(* there are no revocation states and allRevStates stays empty.            *)
(***************************************************************************)
EXTENDS Naturals

CONSTANTS
  Attribute,  \* what presentation requests have in requestedAttributes
  Predicate,  \* what they have in requestedPredicates
  Cred,       \* credentials
  None,       \* no credential
  Fits,       \* the credentials that the search returns for an attribute or predicate
  Revocable,  \* the credentials with a credRevId
  Source,     \* the schema and the definition of a credential
  RetryTimes  \* Configuration.RETRY_TIMES

Item == Attribute \cup Predicate
LedgerObject == UNION {Source[c] : c \in Cred}

ASSUME PresentationAssumption ==
  /\ Fits \in [Item -> SUBSET Cred]
  /\ Revocable \subseteq Cred
  /\ DOMAIN Source = Cred
  /\ None \notin Cred
  /\ RetryTimes \in Nat

VARIABLES
  held,       \* wallet: the credentials
  step,       \* pc of the listener
  asked,      \* the attributes and predicates of the request
  interval,   \* the request has a nonRevoked interval
  chosen,     \* the credential of each of them
  wanted,     \* schemas and definitions still to be looked up
  retrieved,  \* schemas and definitions that have been looked up
  attempts,   \* failed attempts of the present lookup
  cause       \* history: what has ended the listener

requestVars      == <<asked, interval, chosen, wanted, retrieved, attempts>>
presentationVars == <<held, step, requestVars, cause>>

Causes == {"none", "unsatisfied", "refused", "ledger", "exception"}

PresentationTypeOK ==
  /\ held \subseteq Cred
  /\ step \in {"receive", "items", "registry", "lookups", "prove", "present", "dead"}
  /\ asked \subseteq Item
  /\ interval \in BOOLEAN
  /\ chosen \in [Item -> Cred \cup {None}]
  /\ wanted \subseteq LedgerObject
  /\ retrieved \subseteq LedgerObject
  /\ attempts \in Nat
  /\ cause \in Causes

NothingChosen == [i \in Item |-> None]

PresentationInit ==
  /\ held = {}
  /\ step = "receive"
  /\ asked = {}
  /\ interval = FALSE
  /\ chosen = NothingChosen
  /\ wanted = {}
  /\ retrieved = {}
  /\ attempts = 0
  /\ cause = "none"

\* The listener waits for a message, and what it knew of the last one is gone.
Wait ==
  /\ step' = "receive"
  /\ asked' = {}
  /\ interval' = FALSE
  /\ chosen' = NothingChosen
  /\ wanted' = {}
  /\ retrieved' = {}
  /\ attempts' = 0
  /\ cause' = "none"

-----------------------------------------------------------------------------
\* ReceiveCredentialAction puts a credential into the wallet.
StoreCredential(c) ==
  /\ step = "receive"
  /\ held' = held \cup {c}
  /\ UNCHANGED <<step, requestVars, cause>>

\* A request arrives, for attributes or for predicates only, with an interval or without
\* one; the application agrees, the search is opened.
ReceiveRequest ==
  /\ step = "receive"
  /\ step' = "items"
  /\ asked' \in SUBSET Item
  /\ interval' \in BOOLEAN
  /\ UNCHANGED <<held, chosen, wanted, retrieved, attempts, cause>>

\* An exception leaves listen().
End(reason) ==
  /\ step' = "dead"
  /\ cause' = reason
  /\ UNCHANGED <<held, asked, interval, chosen, wanted, retrieved>>

\* A call of the wallet, of libindy or of the transport throws.
Throw ==
  /\ step \notin {"receive", "dead"}
  /\ End("exception")
  /\ UNCHANGED attempts

-----------------------------------------------------------------------------
(***************************************************************************)
(* The choice of credentials                                               *)
(***************************************************************************)

\* Mistaken variant: that there is nothing is not noticed.
TakeNothing(i) ==
  /\ Fits[i] \cap held = {}
  /\ chosen' = [chosen EXCEPT ![i] = {}]
  /\ UNCHANGED <<held, step, asked, interval, wanted, retrieved, attempts, cause>>

\* firstOrNull() ?: throw
NothingFits(i) ==
  /\ Fits[i] \cap held = {}
  /\ End("unsatisfied")
  /\ UNCHANGED attempts

\* A credential with a revocation state needs its registry; any other is taken as
\* it is.
Take(i, c) ==
  /\ IF c \in Revocable /\ interval
       THEN step' = "registry" /\ UNCHANGED chosen
       ELSE chosen' = [chosen EXCEPT ![i] = c] /\ UNCHANGED step
  /\ UNCHANGED <<held, asked, interval, wanted, retrieved, attempts, cause>>

\* Either there is a credRevId and an interval, or neither.
Refuse(c) ==
  /\ (c \in Revocable) # interval
  /\ End("refused")
  /\ UNCHANGED attempts

ChooseForAttribute(a) ==
  /\ step = "items"
  /\ a \in asked /\ chosen[a] = None
  /\ \/ NothingFits(a)
     \/ \E c \in Fits[a] \cap held :
          \/ Refuse(c)
          \/ (c \in Revocable) = interval /\ Take(a, c)

\* Mistaken variant: the copy of the code lacks the revocation states.
TakeForPredicate(p) ==
  /\ step = "items"
  /\ \A a \in Attribute \cap asked : chosen[a] # None
  /\ p \in asked /\ chosen[p] = None
  /\ \/ NothingFits(p)
     \/ \E c \in Fits[p] \cap held :
          /\ chosen' = [chosen EXCEPT ![p] = c]
          /\ UNCHANGED <<held, step, asked, interval, wanted, retrieved, attempts, cause>>

\* There is no such check for a predicate.
ChooseForPredicate(p) ==
  /\ step = "items"
  /\ \A a \in Attribute \cap asked : chosen[a] # None
  /\ p \in asked /\ chosen[p] = None
  /\ \/ NothingFits(p)
     \/ \E c \in Fits[p] \cap held : Take(p, c)

-----------------------------------------------------------------------------
(***************************************************************************)
(* The lookups                                                             *)
(***************************************************************************)

\* `delayMs * it' is a Long, and the cast throws.
AttemptFails ==
  /\ attempts' = attempts + 1
  /\ End("ledger")

\* What the ledger answers cannot be decoded, if it answers.
LookUpRegistry ==
  /\ step = "registry"
  /\ AttemptFails

\* Mistaken variant: only what the attributes need is looked up.
CloseForAttributes ==
  /\ step = "items"
  /\ \A i \in asked : chosen[i] # None
  /\ step' = "lookups"
  /\ wanted' = UNION {Source[chosen[a]] : a \in Attribute \cap asked}
  /\ UNCHANGED <<held, asked, interval, chosen, retrieved, attempts, cause>>

CloseSearch ==
  /\ step = "items"
  /\ \A i \in asked : chosen[i] # None
  /\ step' = "lookups"
  /\ wanted' = UNION {Source[chosen[i]] : i \in asked}
  /\ UNCHANGED <<held, asked, interval, chosen, retrieved, attempts, cause>>

\* The code looks up schemas first, in the order of the request; the order is left open.
LookUp(object) ==
  /\ step = "lookups"
  /\ wanted' = wanted \ {object}
  /\ retrieved' = retrieved \cup {object}
  /\ attempts' = 0
  /\ UNCHANGED <<held, step, asked, interval, chosen, cause>>

LookUpFails ==
  /\ step = "lookups"
  /\ wanted # {}
  /\ AttemptFails

LookedUp ==
  /\ step = "lookups"
  /\ wanted = {}
  /\ step' = "prove"
  /\ UNCHANGED <<held, requestVars, cause>>

-----------------------------------------------------------------------------
CreateProof ==
  /\ step = "prove"
  /\ step' = "present"
  /\ UNCHANGED <<held, requestVars, cause>>

\* The presentation is sent and reported, and the action is over.
SendPresentation ==
  /\ step = "present"
  /\ Wait
  /\ UNCHANGED held

PresentationStep ==
  \/ \E a \in Attribute : ChooseForAttribute(a)
  \/ \E p \in Predicate : ChooseForPredicate(p)
  \/ CloseSearch
  \/ LookUpRegistry \/ (\E object \in wanted : LookUp(object)) \/ LookUpFails \/ LookedUp
  \/ CreateProof \/ SendPresentation
  \/ Throw

PresentationNext ==
  \/ \E c \in Cred : StoreCredential(c)
  \/ ReceiveRequest
  \/ PresentationStep

PresentationSpec == PresentationInit /\ [][PresentationNext]_presentationVars

-----------------------------------------------------------------------------
(***************************************************************************)
(* Properties                                                              *)
(***************************************************************************)

\* No presentation lacks a revocation state that it needs: there is none, so no
\* attribute may come from a credential that can be revoked, and no predicate
\* either if the request has an interval.
NoStateIsMissing ==
  step \in {"prove", "present"} =>
    /\ \A a \in Attribute : chosen[a] \notin Revocable
    /\ interval => \A p \in Predicate : chosen[p] \notin Revocable

\* libindy gets the schema and the definition of every credential that the proof
\* is made of, each looked up for this request.
ProofHasItsObjects ==
  step \in {"prove", "present"} =>
    \A i \in asked : chosen[i] # None /\ Source[chosen[i]] \subseteq retrieved

\* A lookup gives up only after RETRY_TIMES attempts.
LookupsAreRetried == cause = "ledger" => attempts >= RetryTimes

=============================================================================
