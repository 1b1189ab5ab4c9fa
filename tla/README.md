# A TLA+ model of the SSI mobile agent

The repository is a Kotlin Multiplatform SDK for self-sovereign identity: a mobile
*holder* agent that connects to issuers and verifiers over WebSockets (DIDComm,
Aries RFC 0160, 0048, 0036, 0037) and keeps its records in an Indy wallet. This
directory holds TLA+ models of that code, the TLC configurations that check them
and proofs that TLAPS checks. File names below are relative to
`src/src/commonMain/kotlin/com/dxc/ssi/agent/` unless they start with `src/`.

## Inventory

| component | state | operations | talks to |
|---|---|---|---|
| Agent facade (`api/impl/SsiAgentApiImpl.kt`) | the running threads | `init` opens the pool, makes wallet, DID and master secret, and starts the listener and the tracker; `connect`, `sendTrustPing` run a coroutine and block for it | everything below |
| Connection protocol (`didcomm/actions/didexchange`) | `Connection` records in the wallet: START, RequestSent, Complete, Abandoned | receive invitation, receive response, abort | wallet, transport, `ConnectionInitiatorController` |
| Trust ping (`didcomm/actions/trustping`, `didcomm/services/TrustPingTrackerService.kt`) | `sentPingsMap` | send ping, receive ping response, scan and abort every 10 s | wallet, transport, connection protocol |
| Listener and router (`didcomm/listener`, `didcomm/router`, `didcomm/processor`) | none of its own | take a message, unpack it, find the connection of its sender, route by type, run the action | transport, wallet, all protocols |
| Wallet holder (`wallet/indy/IndyWalletHolder.kt`) | the wallet's directory, the open wallet, the DID; records: value and tags | delete, create and open the wallet; store, get by id, find by key; pack and unpack | libindy, file system |
| WebSocket transport (`transport/`) | sockets per endpoint, state of a socket, queue of received messages | send (opening a socket if need be), receive next, socket callbacks | OkHttp / NSURLSession |
| Callback bridge, iOS (`src/src/iosMain/.../callback`) | pending calls by command handle | prepare, set result, wait | libindy |
| Credential issuance (`didcomm/actions/issue`) | `CredentialExchangeRecord` in the wallet | receive offer, receive credential | prover, ledger, transport, `CredReceiverController` |
| Credential verification (`didcomm/actions/verify`) | none | receive presentation request, ack, problem report | prover, ledger, transport, `CredPresenterController` |
| Prover (`wallet/indy/IndyProver.kt`) | master secret, exchange records, credentials | choose credentials and build a presentation; store, get and remove exchange records | libindy, ledger |
| Ledger connector (`ledger/indy`) | the pool's directory, the open pool, the DID | find, create and open the pool; four lookups with retries | libindy, file system |
| State machines (`didcomm/states`) | none | none: stubs that nothing uses | |

What is hard here is concurrency. `connect()` runs on the default dispatcher, the
listener and the tracker on threads of their own, and applications call
`sendTrustPing()` from any thread. They share the wallet records and
`sentPingsMap`; there is no lock and no transaction, so the only atomic steps are
the single wallet call and the single map call. Each handler reads a record, calls
the application, sends a message and stores a *copy* of what it read. On top of
that, an exception ends the thread it escapes from: `listen()` and `track()` have
no `try`, and nothing restarts them. `init()` is a dozen calls of libindy and of the
file system in a row, which an application may start twice and a phone may end
anywhere; what is on the disk by then is all that the next process knows.

What makes each component correct:

- connection protocol: a record goes START, RequestSent, Complete, Abandoned in
  this order, completes once and only after the peer has answered, keeps the
  peer's key, and an abandoned record stays abandoned; a response that was sent
  completes its connection;
- trust ping: a peer that has been pinged is watched until it answers, a silent one is found
  out, and a peer that answers is not (but for a ping that is recorded too late);
- listener: a message of a peer should never stop it. The code does not keep this, not
  even for peers that keep to the protocol: a response that comes before `connect()` has
  returned stops it (finding 1), and so does a verifier's ack or problem report, whose
  type is "to be done". What can be asked is that only known causes do (`DeathHasCause`,
  and `ListenerSurvives` of `CredentialExchange`);
- wallet: the record of a completed connection is found by the peer's key;
- transport: messages of a socket are received in order and once; a failed open
  ends the call that waits for it; a failed socket takes no more sends; a socket is
  reused;
- callback bridge: a call gets its own result, whichever comes first, the result
  or the waiter;
- issuance: one open request per offer, a credential is stored at most once, a record
  is there when the credential arrives;
- prover: a proof is made of credentials that are in the wallet, with the schemas,
  definitions and revocation states that it needs;
- ledger: a lookup is repeated as often as it says;
- start: one listener runs, with the wallet, DID and master secret of one start; its
  wallet is not touched any more; what an earlier process has left stops no start.

## Modules

| module | models |
|---|---|
| `ConnectionLifecycle` | abstract specification: what the wallet promises about the record of a connection |
| `ConnectionAgent` | the threads: `connect()` callers, application pings, listener, tracker; the wallet and `sentPingsMap` they share; peers and clock |
| `MCConnectionAgent` | constants for TLC |
| `ConnectionAgent_proofs` | for every environment: type correctness, the order of the protocol, that no response is lost in the agent, what ends the listener, what has a peer watched that has answered, and that no scan misses a ping |
| `ConnectionAgentRefinement` | the threads implement `ConnectionLifecycle` |
| `ConnectionAgentPolite` | what holds if the application pings nobody before `onCompleted`: completed connections stay findable, silent peers are watched; and what a listener needs to survive |
| `MessageTransport` | abstract specification: what the agent may assume of a transport |
| `WebSocketTransport` | `sendMessage` calls, sockets with their coroutines and platform threads, the map of sockets, the queue, the listener in `receiveNextMessage` |
| `MCWebSocketTransport` | constants for TLC |
| `WebSocketTransport_proofs` | type correctness, the contract, what the state of a socket means, where a message is, and where a call hangs |
| `NativeCalls` | abstract specification: a call of libindy ends once and with its own answer |
| `CallbackRegistry` | `CallbackHandler` (iOS): its counter and map, the threads that call libindy and the thread of libindy that answers |
| `MCCallbackRegistry` | constants and symmetry for TLC |
| `CallbackRegistry_proofs` | type correctness, the contract, what an entry of the map stands for, and what a lock would add |
| `Issuance` | abstract specification: the callbacks, requests and credentials of an offer |
| `CredentialExchange` | the listener in the issuance and verification actions, exchange records, issuers and verifiers, the application |
| `MCCredentialExchange` | constants for TLC |
| `CredentialExchange_proofs` | type correctness, the contract, which records exist, what keeps the listener alive, and where an exchange is |
| `AgentStart` | `init()`: the threads that call it, the disk, the session of libindy, the end of the process |
| `AgentStart_proofs` | what a running listener can rely on, and what a first call of `init()` can |
| `Presentation` | the listener in `createPresentation`: choice of credentials, ledger lookups, proof |
| `AgentSession` | abstract specification: what `init()` comes to for an application, over all its calls and all ends of the process |
| `HolderAgent` | `AgentStart` and `Presentation` composed: the listener that `init()` starts, the wallet that they share |
| `MCHolderAgent` | constants for TLC |
| `HolderAgent_proofs` | type correctness, what a proof is made of, and that the agent implements `AgentSession` |

### ConnectionAgent

A program counter per thread marks the places between two atomic calls:

- `caller[c]`: the thread in `connect()` that created connection `c`
  (`ReceiveInvitationAction.perform`). `Connect` adds the record and asks the
  application, `DeclineInvitation` is its no, `SendRequest` its yes and the send,
  `StoreRequestSent` and `TagRequestSent` are the two wallet calls of
  `storeConnectionRecord`.
- `pinger[c]`: the application in `sendTrustPing`: send, then record.
- `listener`: `ReceiveMessage` takes the head of the queue and finds the
  connection by the sender's key; `ReadResponse`, `StoreComplete`, `TagComplete`,
  `ListenerSendPing`, `ListenerRecordPing` are `ReceiveConnectionResponseAction`
  and the ping it sends; `ReadPingResponse` is `ReceiveTrustPingResponseAction`;
  `ReadStray` stands for the messages whose route, type or handler throws.
- `tracker`: `ScanStart` .. `ScanDone` are `getDeadConnections`, one step per map
  access; `AbortRead`, `AbortStore`, `AbortTag`, `AbortRemove` are
  `abortDeadConnections` with `AbortConnection`.

`"dead"` is a thread that an exception has ended. A message is its type, the
connection it is about and the key it is signed with. The transport is its
contract: a send is delivered, dropped or throws, and received messages are
processed in the order of `inbox`. What the environment may do is the constant
`Env`; the history variables `pinged` and `answered` count pings, for the
properties only.

`sentPingsMap` is Stately's `IsoMutableMap` around a hash map: single calls are
atomic, an iteration is not, and an iterator fails after a change of the key set
(`stale`).

`TagWithId`, `ReadResponseUnchecked` and the other operators marked as mutants, or as
mistaken variants in other modules, are faulty forms of the definition that follows
them: each property is checked to fail for at least one of them.

### WebSocketTransport

`ConnectionAgent` takes the transport as its contract, `MessageTransport`: a call of
`sendMessage` ends at most once, delivered, dropped or thrown, and
`receiveNextMessage` returns the messages of a socket in order, once and without a
gap. `WebSocketTransport` is the code behind it.

- A call of `sendMessage` is a thread with a `pc`. It either finds a socket in
  `appSocketsMap` (`GetExisting`) or opens one: `Open` is `AppSocket.connect` up to
  its `receive()`, `Opened` the meeting of that `receive()` with the platform's
  callback on the rendezvous channel, `OnOpen` the assignment of CONNECTED,
  `OpenFailed` or `CacheSocket` what follows from the check behind it. `Send` is
  `AppSocket.send`. A call opens at most one socket, so sockets bear the names of
  calls, and the socket that a second thread puts over another stays in the model.
- `link[s]` is the platform's socket. Its thread blocks in `SocketListenerAdapter`
  until a coroutine has taken what it brings: `TakeOffWire` and `OnFailure` are those
  meetings. The close of the peer has no receiver, so `PeerCloses` changes nothing
  but the link.
- `hand[s]` is the message between `receive()` and the append of `OnMessage`; the
  coroutine listens again only afterwards.
- `receiveNextMessage` reads index 0 (`ReadMessage`) and removes it
  (`RemoveMessage`); there is one listener, but appends come in between.

A message is its socket and its number. What is on the wire when a link fails is
lost, except for a message that the platform's thread is handing over. `Env` says
whether calls overlap, whether links may fail while they are dialed, between their opening
and `onOpen()`, or later, and whether the peer may close them. Dropped messages are those that the
platform accepts for a link that is no longer open, or loses.

### CallbackRegistry

Every call of libindy on iOS prepares a handle, calls the native function with it
and waits for the callback. `pc[c]` is the place of call `c` between two accesses to
shared state: `ReadCounter` and `WriteCounter` are the two halves of
`commandHandleCounter.value++`, `CheckHandle` and `PutDeferred` the check and the
put of the map, `CallNative` the call itself, `CheckPrepared`, `GetDeferred` and
`Await` the three accesses of `waitForCallbackResult`. `native` and `answer` are what
libindy does with the call: `FindEntry` and `CompleteEntry` are its callback on a
thread of its own, before, between or after the accesses of the waiter, or never.
Handles wrap at `Width`, the 2^32 `Int`s of the code. `overwritten` records that a put has
replaced an entry: from then on two calls share a handle, and nothing more is
claimed.

What a callback's result contains, and the casts of the wrappers, are left out. So is the
`stringResult!!` of `StringCallback.kt:19`, which throws into libindy when a string is null
(the comment above it knows); `CallbacksAreExpected` speaks of callbacks that nobody has
prepared, and of nothing else.

### CredentialExchange

The actions of issuance and verification run on the listener's thread, one message
after the other, and nothing else touches exchange records. What is hard is the
order of effects within an action, each of which may throw, and of messages that the
exchanges of several peers put into one queue. `pc` is the place of the listener
between two effects:

- `CheckOffer` .. `NotifySent` are `ReceiveCredentialOfferAction`: look for a record,
  look up the definition, ask the application, send the request, store the record,
  report it;
- `CheckCredential` .. `NotifyDone` are `ReceiveCredentialAction`: find the record, ask
  the application, store the credential, remove the record, report it. libindy
  checks a credential against the request's data, so a credential for an older
  request throws;
- `AskPresentation` .. `NotifyPresented` are `ReceivePresentationRequestAction` with the
  search for credentials in `createPresentation`;
- `ReadAck` is what a verifier's ack or problem report comes to: its type matches no
  handler, and the exception ends the listener (`AbstractMessageProcessor.kt:54`);
- `Throw` is an exception of any of these calls, which ends the listener.

A message is its type, its thread and, for a credential, the number of the request
that it answers. `AckPresentation` is a verifier that answers a presentation it has got
(`shown`), which its protocol allows. `record[t]` is the number of the request that the record of `t` was
stored for, and 0 if there is none. `got` are the requests that have reached an
issuer. `view`, `requests`, `stored` and `presented` are history variables, and so is
`trouble`, what has gone wrong outside of the agent: a message was lost or sent
again, the application declined, a presentation was asked for before the credentials
were issued, a call threw. An ack is no `trouble`; the properties name it (`EndedByAck`).
Problem reports of an issuer are not among the messages here: no handler reads them, and
they are the `stray` messages of `ConnectionAgent`.

Calls of the wallet that cannot be told apart by any other thread are one step (the
lookup in `storeCredentialExchangeRecord` and the `add` after it). No exchange
survives a restart, since every start deletes the wallet
(`IndyWalletHolder.kt:144`); what a restart does to the agent is `HolderAgent`.

### AgentStart

`pc[i]` is the place of thread `i` of the application in `init()`, between two calls
of libindy or of the file system: `FindPool`, `CreatePool`, `OpenPool` are
`PoolHelper.openOrCreate`; `FindWallet`, `DeleteWallet`, `CreateWallet` are
`WalletHelper.createOrTrunc`; `OpenWallet` is `openOrCreate` (which would create a
wallet that is not there, and so goes back to `CreateWallet`); `CreateDid`,
`ShareDid`, `CreateMasterSecret` and `Launch` are the rest. `Fail` is the exception of
any of these calls, and leaves everything as it is: nothing closes the pool.

`pool`, `wallet` and `last` are on the disk and outlive `Crash`; the rest is memory. The
master secret is in the wallet. Wallets are numbered, and `session`, `did`,
`ledgerDid` and `secret` hold the number of the wallet that they belong to: this is how
the properties tell the parts of one start from those of another.

Two things come from the native library, whose header says so
(`src/libindy-pod/Indy/Wrapper/IndyPool.h:38`, `IndyWallet.h:59`): a pool and a wallet of one
name can be open only once. The first of them is what keeps a second `init()` away from
the wallet; the code has no check of its own.

### Presentation

`step` is the place of the listener in `createPresentation`, and `asked` what the request
asks for: attributes, predicates, or both, with an interval or without. `ChooseForAttribute` and
`ChooseForPredicate` are one round each of the two loops, the first with the check of
the interval against the credential (`Refuse`), the second without. `Fits` is what
libindy's search would return for an attribute or predicate, of which the wallet's
part `held` counts; the code takes the first, the model any. With an interval an attribute
is refused or sent to the registry, so only requests for predicates alone come further.
`CloseSearch` collects what has to be looked up. `LookUp` and `LookUpFails` are one attempt for a schema or a
definition, and `LookUpRegistry` one for a registry.

A registry's definition is decoded as an interface for which no implementation is
registered, so this lookup cannot succeed, and no revocation state is ever made:
`allRevStates` is always empty, and the branches that use it are left out.

After an attempt that has failed, `(delayMs * it) as Int` casts a `Long` to an `Int` (a
boxed cast, never a conversion), which throws. So there is no second attempt, and
`attempts` is at most 1.

### HolderAgent

`Listen` needs a listener, which `Launch` starts; a wallet that is deleted takes the
credentials with it (`Start`); the end of the process ends the presentation
(`ProcessEnds`). `PresentedIsHeld` relates the two parts. `listeners` keeps counting a
listener that an exception has ended: `init()` cannot start another one in its process,
because the pool is open.

`Session` maps this to `AgentSession`. `Phase` is read off the calls of `init()`: a process is
`"down"` until one of them has opened the pool, `"clearing"` while that one looks for the old
wallet, deletes it and makes another, `"ready"` from there to `Launch`, and `"up"` with a listener.
It is `"broken"` when the pool is open, no listener was started, and no call is left that could:
a `Fail` behind `OpenPool` leads there, and only the end of the process out of it.

## Runs

| run | instance | shows |
|---|---|---|
| `agent_hostile` | one connection, every behaviour of `Env`, two responses, two application pings, a stray message, clock 0..2, timeout 1 | types; no record is Complete before connect() has stored RequestSent and the peer has answered; while the listener lives, a response is in the queue, in its hands, or its connection is completed (`ResponsesAreKept`); onCompleted at most once; the listener ends only for the causes that `DeathHasCause` names; only a ping that the application records late has the tracker watch a peer that has answered (`OnlyLateRecordsMislead`) |
| `agent_lifecycle` | two connections whose peers share one key, prompt responses, failing sends, a ping of the application besides that of the listener, clock 0..1, timeout 0 | `LifecycleSpec`: the threads implement `ConnectionLifecycle`, also when `findConnectionByVerKey` finds the wrong one of two records; completed connections stay found by their key unless a late `connect()` overwrites the tag (`CompletedStaysFound`); no silent peer of a complete connection is left unwatched, although an abort may remove the entry of a later ping (`SilentPeersAreTracked`) |
| `agent_polite` | two connections with keys of their own, responses after connect() has returned, clock 0..3, timeout 1, fairness | responses complete, silent peers are abandoned |
| `agent_prompt_response` | one connection, the response may be prompt | violated: a response processed before RequestSent is stored kills the listener |
| `transport_hostile` | two calls for one endpoint and one for a protocol that is refused, calls overlap, every failure at every moment, two messages over one socket and one over the other, fairness | the contract `MessageTransport`; whatever was taken off the wire is returned, also from a socket that is dead or no longer in the map; a failed socket is CLOSED for good unless its failure was noticed between its opening and `onOpen()`; later calls open no second socket |
| `transport_prompt_failure` | two calls one after the other, a socket may fail before `onOpen()` | violated: sends over a socket whose failure has been noticed are accepted |
| `transport_open_fails` | two calls, opening may fail | violated: a call whose socket fails before it opens never ends |
| `registry_wrap` | three calls, two handles, callbacks at any time or never, values and errors | every call gets its own answer, no callback throws into libindy, no entry leaks, as long as no put replaces an entry |
| `registry_prepared_once` | as before | violated: two threads prepare the same handle |
| `exchange_hostile` | two offers, a presentation request that needs one of them, the verifier's ack, two repetitions, losses, refusals, exceptions | `Issuance`; the listener ends only after a mishap or with an ack; records are those of the open requests; exchanges end |
| `holder_restarts` | two threads that call `init()`, three calls in the life of a process, two ends of the process, every call may fail; two credentials of one schema, one of them revocable, two attributes and a predicate, of which a request asks for any, with and without an interval; fairness | one listener, with the wallet, DID and secret of one start; its wallet is kept; no first call of `init()` is stopped by what it finds on the disk, and it ends; proofs lack nothing and are made of held credentials; all of it implements `AgentSession` (`SessionSpec`) |
| `lookup_retries` | as before, RETRY_TIMES 5 | violated: a lookup gives up after one attempt, and the listener ends |

Bounds. Responses per request, pings per connection, stray messages and the clock
are bounded by `MaxReplies`, `MaxAppPings`, `MaxStrays`, `MaxTime`. Two responses
are one repetition; two pings are one that is under way while another is tracked;
the clock needs one tick more than the timeout for a ping to be overdue and one
more for a ping sent later. Two connections are what it takes for the iterator of
the tracker to be at one key while another changes, and for a dead listener to
hurt a bystander. In `agent_lifecycle` two connections of one key, one ping of the
application beside that of the listener and a timeout of 0 let an abort meet a ping that was
sent after the scan. That run leaves out what others have: a lost message is one that is
never answered, and repeated responses are in `agent_hostile`; the theorems
`ImplementsLifecycle`, `FoundForGood` and `SilentPeersAreWatched` have no such bounds.
Two calls are what it takes for two sockets of one endpoint, and
two messages of one socket and one of another for an order to be wrong and for a
queue that holds both; the third is refused and adds that a call may end before it has
a socket. Three calls for two handles are what it takes for a handle to
be used again while its last user is still under way, and for two threads to claim
one. `MaxRepeats` is 2: an offer and its credential may each be sent again, or the
offer twice; one credential more would only be one that finds no record. The presentation
needs one of two credentials, so that its ack may come while the exchange of the other is
open. Two callers of
`init()` and three calls are a call that races with another and one that comes when an
agent runs; two ends of a process are one in the first start, with an empty disk, and
one in a start that follows it, with whatever the first has left. Two attributes and a
predicate are what it takes for one credential to serve twice, for two credentials to
share a schema, and for a revocable one to be chosen by a predicate only. The proofs
below have no bounds.

`CHECK_DEADLOCK FALSE`: the agent comes to rest when every peer has said what it
will say, at the end of the clock.

Fairness (`FairSpec`). The threads of a coroutine dispatcher keep running while
they have something to do: weak fairness of the listener, the tracker, the clock,
a `connect()` that has begun and a ping that has been sent. Nothing is assumed of
the application (it need not connect, nor ping) or of the peers (they need not
answer): a caller in `"invited"` is fair, but either answer of the application
serves. `SilentPeerIsAbandoned` allows for `tracker = "dead"`, which is reachable:
an entry put or removed during a scan ends the tracker. The property covers pings
sent early enough for the bounded clock to pass their timeout.

In `WebSocketTransport` the coroutines of a socket, the listener and a call that
has begun are fair; for a call that waits for its socket this means that the
platform ends dialing, one way or the other (OkHttp's connect timeout is 10 s).
`SentIsTaken` is `[]<>` of "nothing waits", which the bounded number of messages
makes the same as "every message is returned".

In `CredentialExchange` the listener runs, and an issuer answers each request that it
gets, once. Nobody has to offer, to ask or to send an ack. `ExchangesEnd` allows for an ack
that has ended the listener (`EndedByAck`) and for `trouble`, which
is what a reader should look at first: it is empty in every run of the protocol in
which no message is lost or repeated, nobody declines and no call throws.

In `HolderAgent` a call of `init()` that has begun goes on (`StartFairness`): its
coroutine runs on a dispatcher. Nobody has to call it, and neither crash nor failure is
fair. `FirstCallStarts` allows for `failed`, a call of libindy or of the file system that
threw, and for a second call, which may come before the first has opened the pool.

## Findings

1. `agent_prompt_response`: `connect()` sends the request and stores
   `RequestSent` afterwards. A response processed in between meets
   `else -> TODO("Not implemented")`, and the listener is gone for all connections.
2. `transport_open_fails`: `AppSocket.connect` waits for the opening only; the
   exception "Could not be opened" behind the wait is out of reach.
3. `transport_prompt_failure`: `AppSocket.connect` calls `onOpen()`, which sets CONNECTED,
   without looking at what has happened since the opening. A failure that was handled in
   between is forgotten, and `send` accepts messages for a dead socket instead of throwing
   "The connection is lost."
4. `registry_prepared_once`: the check "Attempt to prepare callback ... which is
   already exist" and the increment before it are separate accesses, so two threads
   may prepare one handle, and one gets the answer of the other.
5. `lookup_retries`: `(delayMs * it) as Int` throws out of the `catch` block of each
   of the lookups. What was to be tried five times is tried once, nothing returns
   the documented `null`, and the exception ends the listener thread.

The runs show them on a small instance. For 2, 3 and 4 theorems say for all constants how
far they go: `FailedOpeningHangs`, `LostSocketsAreClosed` (nothing but that interleaving) and
`LockSuffices` (see Proofs).

Some properties name a case in which the code fails, and say that there is no other. Each
of these cases happens in the run that checks the property:

- `DeathHasCause` names what ends the listener. Besides failing sends, messages without a
  handler and abandoned connections, there are three orders of events: the prompt response of
  finding 1, a repeated response, and an answer to a ping whose connection is not found by its
  key.
- `CompletedStaysFound`: value and tags are stored by two calls (`IndyWalletHolder.kt:70`), and
  the late `updateTags` of `connect()` overwrites the tag that the listener has written for the
  completed connection. After that, messages of this peer find no connection.
- `OnlyLateRecordsMislead`: a ping is recorded after it is sent (`SendTrustPingAction.kt:51`).
  If the answer to a `sendTrustPing` of the application is faster, an entry is left behind,
  and the tracker will abandon a live connection.

More that the models show when constants or a property are changed:

- Without its condition on keys `OnlyLateRecordsMislead` fails with the keys of
  `agent_lifecycle`: an answer removes the entry of the first connection with this key
  (`IndyWalletHolder.kt:127`, "consider case when we received several records").
- `LifecycleSpec` fails with `"early_ping"` in `Env`: the tracker may abort a connection between
  the listener's read and its store, and the record goes from Abandoned to Complete.
- With `"concurrent"` in `Env` an endpoint can have two sockets ("TODO: make it thread safe"):
  `SocketsAreReused` speaks of calls that begin after another has got its socket. What comes
  over a socket that was replaced in the map is not lost (`SentIsTaken`).

## Proofs

All theorems hold for every set of connections, every assignment of keys and all
bounds; `ConstantsAssumption` says that `None` is no key, no connection and no
number, and that the bounds are numbers. The other modules assume the same of their
constants (`StartAssumption`: the bounds are numbers; `PresentationAssumption`: the
search returns credentials, each with a schema and a definition, and `None` is none).

- `TypeCorrect`: `TypeOK` is inductive; one lemma per thread.
- `CompleteIsAnswered`, `CompletionIsUnique`: for every `Env`. Neither property is
  inductive. `ProtocolInv` adds that a response in the queue or in the listener's
  hands was sent and asked for (`ReplyInv`), that the record cannot be in
  RequestSent or Complete before `connect()` has stored RequestSent (`OrderInv`),
  and that the listener, while it completes a connection, has not completed it
  before (`ResponseInv`): a completed connection is Complete or Abandoned, and no
  thread moves it back to RequestSent.
- `NoResponseIsLost`: for every `Env`. With `TypeOK` it is inductive: a response that the
  listener has taken leaves its hands only when `onCompleted` has been called or the
  listener ends, and no other thread takes one out of the queue.
- `ScanIsComplete`: for every `Env`. `ScanMissesNone` says that a scan that has come to its
  end (`ScanDone`) holds every ping that was overdue when it began, unless its entry was
  removed or renewed since. `ScanInv` keeps it at each step: such a ping is found already, or
  its key is still before the iterator. This is why a concurrent change of the map may only
  end the tracker (`stale`), never make it overlook a silent peer.
- `ImplementsLifecycle`: `Spec => LifecycleSpec` unless the application pings
  before `onCompleted` (`NoEarlyPing`: the environment excludes it, or the application
  sends no pings at all). `LifecycleInv` says that what a thread has read of a
  record still holds when it overwrites it (`RewriteInv`). That needs
  `PingedInv`: only completed connections are pinged, tracked or aborted, so the
  tracker and the completing listener never work on the same record. Without the
  assumption the theorem is false: the tracker may abort a connection between the
  listener's read and its store, and the record goes from Abandoned to Complete.
- `DeathsAreExplained`: `DeathHasCause` for every `Env`. `CauseInv` has three parts. A record
  that was asked for has left START, and has a key only because the listener completes it or
  has done so (`CompletionInv`); a response that is the first and only one finds a record that
  is not yet Complete (`FirstResponseInv`); the sender of an answer that finds no connection
  has lost its tag (`UnfoundInv`). `KeysInv` says that a message is signed with the key of its
  peer and that no record ever holds the key of another one.
- `OnlyLateRecords`: `OnlyLateRecordsMislead` for every `Env` and any number of pings. It needs
  counting: the answers that were processed, that are in the listener's hands or in the queue,
  and that the peer may still give, are at most as many as the pings (`AnswersArePinged`). So a
  peer whose pings are all answered has none left, and the listener's own ping is recorded
  before its answer is read, because the listener is what reads it.
- `FoundForGood`: `CompletedStaysFound` unless the application pings before `onCompleted`.
  `KeyInv` says that the value of a completed connection, and every copy of it that a thread
  will write, has the key of its peer; so only a `connect()` that is at its last write can
  leave a tag without it.
- `SilentPeersAreWatched`: `SilentPeersAreTracked` under the same assumption. `WatchInv` says
  that a silent peer that was pinged has an entry, or a call that is about to make one, or an
  abandoned record; the tracker removes an entry only when the record is abandoned.
- `ListenerSurvives`: in a polite environment (`Polite`: no
  response before `connect()` has returned, none repeated, no message without a
  handler, no send that throws, no ping before `onCompleted`; sends may be lost and later
  application pings are unlimited) the listener never dies (`ListenerAlive`). `OnceInv` and
  `InboxInv` say that a response in the queue is the only one of its connection, whose record
  waits in RequestSent, and `PatientInv` that nothing comes before `connect()` has returned. The
  assumptions are strong; `DeathsAreExplained` says what they are needed for, one by one.

- `ImplementsContract` (`WebSocketTransport_proofs`): `Spec => ContractSpec` for every
  `Env`, any number of calls, sockets and messages. The messages of a socket that wait are those
  numbered `taken + 1 .. read`; `ContractInv` says that the last of them may be in
  the coroutine's hands (`CountInv`) and that the queue holds exactly the others
  (`BoundsInv`, `GaplessInv`), in their order (`OrderInv`). Hence the head of the
  queue is the message its source wants next (`HeadIsNext`).
- `LostSocketsAreClosed`: `LossIsNoticed` for every `Env`. A CLOSED socket becomes CONNECTED in
  `onOpen()` only, and there its failure has not been noticed yet, unless it is the excuse.
- `LaterCallsReuse`: `SocketsAreReused` for every `Env`. Once a call has a socket, the map has
  one for its endpoint, though perhaps another one (`CachedInv`): nothing takes an entry out.
- `MessagesAreKept`: for every `Env`. As long as the link of a socket has not failed, each message
  that the peer has sent over it is on the wire, in the coroutine's hands, in the queue, or
  returned: the four numbers add up (`LinkInv`, with `CountInv`). This holds for a socket that
  another thread has replaced in the map, too.
- `FailedOpeningHangs`: a call in `connect()` waits as long as the platform dials, and once that
  has failed it is `Stuck`, for ever and with it the thread of its caller. So finding 2 is no
  accident of an interleaving: every failed opening ends like this.
- `CallbackRegistry_proofs`: `SoundAlways` is the inductive invariant: unless an
  entry has been replaced, the entry of a handle belongs to the call that has put it
  and to no other, from the put to the end of the wait, and its result is that of
  the call. `ExpectedCallbacks`, `NoLeak`, `AnswersWait` and `ImplementsContract`
  follow from it, for any number of calls and any `Width`.
- `LockSuffices`, `LockedContract`: in every behaviour in which one thread at a time is in
  `prepareCallback` (`[]Alone`), no entry is ever replaced, the registry implements
  `NativeCalls` without the exception, and no callback throws. `CheckHolds` is the invariant:
  the handle that a thread has checked is still free when it puts. A lock around the increment,
  the check and the put is all that finding 4 needs; `Width` plays no part in it.
- `CredentialExchange_proofs`: `ConsistentAlways` says where an exchange stands while
  no action is at work on it (`Settled`: either no request is open and there is no
  record, or one is open, there is its record, and the application knows), and what
  an action knows at each of its steps (`InOffer`, `InCredential`).
  `ImplementsContract` and `RecordsMatch` follow, for any exchanges and without an
  assumption on peers. Nothing is needed of the queue for these.
- `ListenerStaysAlive` is about the queue: as long as there was no `trouble`, no exchange
  has a message twice (`EachOnce`), a request is answered once (`OneRequest`), what comes
  is new to the agent (`AllNew`), and what a presentation request needs is stored or
  waits before it in the queue (`NeedsCome`). So no action throws but that of a verifier's ack
  (`Smooth`).
- `ExchangesStayUnderWay`: as long as nothing has gone wrong outside, and even after an ack has
  ended the listener, an offer that was made
  has ended in `onDone`, or the message that it waits for is in the queue, in the listener's
  hands, or still to come from an issuer that has its request (`RequestsArrive`); the same for
  a presentation request. An exchange never waits for something that nobody will do.
- `AgentStart_proofs`: `StartInv` says that at most one call of `init()` is behind
  `OpenPool`, and none once a listener runs (`OpenerIsAlone`), and what it has
  done by each of its steps (`OpenerKnows`). Hence `ListenerIsReady` and
  `WalletOfListenerIsKept`. For `FirstCallIsNotHarmed` a call that is the first of its
  process and has met no failure knows in addition that it is the only one and finds
  neither pool nor wallet open, and, after the deletion, no wallet
  (`FirstCallKnows`). Any callers, calls and crashes.
- `HolderAgent_proofs`: the composition starts as `AgentStart` does (`StartsAsBefore`), so
  that its theorems can be used. `NoneIsRevocable` and `ChoiceIsCovered` are the
  invariants of the choice and of the lookups; `ChoiceIsHeld` needs
  `WalletOfListenerIsKept`, because a wallet deleted in the middle of a
  presentation would break it. Any attributes, predicates and credentials.
- `ImplementsSession`: `Spec => SessionSpec`, for any callers, calls, failures and ends of the
  process. `PhaseIsKnown` turns each place of the one call behind the pool
  (`OpenerIsAlone`) into its phase; `OpenerKnows` adds that whoever is about to open the wallet
  has made one. Each action of `init()` is then a step of the session or a stutter.

Some theorems state a formula of their proof module, which no run checks in the project:
`ScanMissesNone`, `ListenerAlive`, `OnlyFailuresLose`, `NothingIsForgotten`, `Stuck`, and the
formula of `LockedContract`. All but the last two, and the inductive invariants, were checked by
TLC on the constants of the runs before they were proved.

Only model-checked: everything that is liveness (`ResponseCompletes`,
`SilentPeerIsAbandoned`, `SentIsTaken`, `ExchangesEnd`, `FirstCallStarts`),
which is out of the prover's reach. Of four of them the safety core is proved, that is, that what
shall happen cannot become impossible: `NoResponseIsLost`, `ScanIsComplete`, `MessagesAreKept`
and `ExchangesStayUnderWay`; what is left to TLC is that the threads get there under fairness.
Every invariant and action property of a run that passes has a theorem.

## Plan

What is left is small, and each point waits for the code:

1. `LookupsAreRetried` becomes an invariant once the cast of the delay is gone; then the
   sum of the delays and the `null` after the last attempt belong into `Presentation`.
2. The branches for revocation states, once a registry's definition can be decoded.
3. A wallet that survives a restart ("TODO: remove this line in order to not clear wallet
   each time"): then `ConnectionAgent` and `CredentialExchange` need a crash of their own,
   with records in every intermediate state.
4. The operations of the agent and the handlers that are `TODO()` today.

## Not modelled

- Cryptography, and what the ledger holds (libindy). Wallet and pool are created by
  libindy in one step here; a process that ends inside such a call may leave a part
  of a directory.
- Revocation states: besides the decoding above, the `nonRevoked` of a request is read
  under its Kotlin name and not under `non_revoked`, and the check in
  `createPresentation` refuses credentials without a registry when there is an
  interval. An interval is an input of the model nevertheless.
- Serialization, message packing and the data classes: no state.
- Platform utilities (`CoroutineHelper`, `Sleeper`, files, base64): wrappers.
- `didcomm/states`: stubs that nothing uses. `PoolHelper.createOrTrunc`, which would
  delete the genesis file instead of the pool, has no caller.
- The headers of libindy in `src/indylib` and `src/libindy-pod` and the Objective-C
  wrapper there: declarations of a library whose code is not in the repository. The
  models take from them what a call does, where the agent makes it.
- The demo applications.
