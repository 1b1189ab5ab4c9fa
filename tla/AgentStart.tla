----------------------------- MODULE AgentStart -----------------------------
(***************************************************************************)
(* SsiAgentApiImpl.init(): it opens the pool ledger, makes a new wallet in *)
(* the place of the old one, makes a DID and the master secret, and starts *)
(* the threads of the listener and the tracker.  An application may call   *)
(* it again, from any thread, and its process may end at any moment; what  *)
(* libindy has on the disk is then what the next start finds.              *)
(* One step for each call of libindy or of the file system.  Wallets are   *)
(* numbered in the order of their creation, and a DID or a master secret   *)
(* bears the number of the wallet that it is in.                           *)
(***************************************************************************)
EXTENDS Naturals

CONSTANTS
  Caller,     \* threads of the application that call init()
  MaxCalls,   \* bound: calls of init() in the life of a process
  MaxCrashes  \* bound: how often the process ends

ASSUME StartAssumption == {MaxCalls, MaxCrashes} \subseteq Nat

VARIABLES
  pool,       \* disk: there is a directory of the pool ledger
  wallet,     \* disk: the wallet in testWalletName, 0: there is none
  last,       \* the last wallet that was created
  opened,     \* libindy: the pool is open
  session,    \* libindy, isoWallet: the wallet that is open, 0: none
  did,        \* isoDid, isoVerkey: the wallet of the agent's DID
  ledgerDid,  \* ledgerConnector.did
  secret,     \* the wallet with the master secret, 0: none
  listeners,  \* threads in listen()
  pc,         \* pc of the threads in init()
  calls,      \* calls of init() in the life of this process
  crashes,    \* how often the process has ended
  failed      \* history: a call of libindy or of the file system has failed

diskVars    == <<pool, wallet, last>>
sessionVars == <<opened, session, did, ledgerDid, secret, listeners>>
countVars   == <<calls, crashes>>
startVars   == <<diskVars, sessionVars, pc, countVars, failed>>

\* Steps before the pool is open, and steps that only its opener takes.
PoolPC   == {"findPool", "createPool", "openPool"}
InsidePC == {"findWallet", "deleteWallet", "createWallet", "openWallet", "createDid",
             "shareDid", "createSecret", "launch"}
RestPC   == {"idle", "returned", "threw"}

StartTypeOK ==
  /\ pool \in BOOLEAN
  /\ wallet \in Nat /\ last \in Nat
  /\ opened \in BOOLEAN
  /\ session \in Nat /\ did \in Nat /\ ledgerDid \in Nat /\ secret \in Nat
  /\ listeners \in Nat
  /\ pc \in [Caller -> RestPC \cup PoolPC \cup InsidePC]
  /\ calls \in Nat /\ crashes \in Nat
  /\ failed \in BOOLEAN

StartInit ==
  /\ pool = FALSE
  /\ wallet = 0
  /\ last = 0
  /\ opened = FALSE
  /\ session = 0
  /\ did = 0
  /\ ledgerDid = 0
  /\ secret = 0
  /\ listeners = 0
  /\ pc = [i \in Caller |-> "idle"]
  /\ calls = 0
  /\ crashes = 0
  /\ failed = FALSE

Goto(i, from, to) ==
  /\ pc[i] = from
  /\ pc' = [pc EXCEPT ![i] = to]
  /\ UNCHANGED countVars

-----------------------------------------------------------------------------
(***************************************************************************)
(* The application and its process                                         *)
(***************************************************************************)

CallInit(i) ==
  /\ pc[i] \in RestPC
  /\ calls < MaxCalls
  /\ calls' = calls + 1
  /\ pc' = [pc EXCEPT ![i] = "findPool"]
  /\ UNCHANGED <<diskVars, sessionVars, crashes, failed>>

\* The process ends; the disk stays.
Crash ==
  /\ crashes < MaxCrashes
  /\ crashes' = crashes + 1
  /\ opened' = FALSE
  /\ session' = 0
  /\ did' = 0
  /\ ledgerDid' = 0
  /\ listeners' = 0
  /\ calls' = 0
  /\ pc' = [i \in Caller |-> "idle"]
  /\ failed' = FALSE
  /\ UNCHANGED <<diskVars, secret>>

\* A call of libindy, or the genesis file, throws, and so does init().
Fail(i) ==
  /\ pc[i] \in PoolPC \cup {"createWallet", "openWallet", "createDid", "createSecret"}
  /\ Goto(i, pc[i], "threw")
  /\ failed' = TRUE
  /\ UNCHANGED <<diskVars, sessionVars>>

-----------------------------------------------------------------------------
(***************************************************************************)
(* ledgerConnector.init()                                                  *)
(***************************************************************************)

\* Mistaken variant: a pool of an earlier process is not looked for.
CreatePoolAlways(i) ==
  /\ Goto(i, "findPool", "createPool")
  /\ UNCHANGED <<diskVars, sessionVars, failed>>

FindPool(i) ==
  /\ Goto(i, "findPool", IF pool THEN "openPool" ELSE "createPool")
  /\ UNCHANGED <<diskVars, sessionVars, failed>>

CreatePool(i) ==
  /\ \/ Goto(i, "createPool", "threw") /\ pool
     \/ Goto(i, "createPool", "openPool") /\ ~pool
  /\ pool' = TRUE
  /\ UNCHANGED <<wallet, last, sessionVars, failed>>

\* Mistaken variant: a pool that is open is taken as it is.
OpenPoolAgain(i) ==
  /\ Goto(i, "openPool", "findWallet")
  /\ opened' = TRUE
  /\ UNCHANGED <<diskVars, session, did, ledgerDid, secret, listeners, failed>>

\* libindy opens a pool of one name only once.
OpenPool(i) ==
  /\ \/ Goto(i, "openPool", "threw") /\ opened
     \/ Goto(i, "openPool", "findWallet") /\ ~opened
  /\ opened' = TRUE
  /\ UNCHANGED <<diskVars, session, did, ledgerDid, secret, listeners, failed>>

-----------------------------------------------------------------------------
(***************************************************************************)
(* walletHolder.openOrCreateWallet()                                       *)
(***************************************************************************)

\* Mistaken variant: an old wallet is not looked for.
CreateAlways(i) ==
  /\ Goto(i, "findWallet", "createWallet")
  /\ UNCHANGED <<diskVars, sessionVars, failed>>

FindWallet(i) ==
  /\ Goto(i, "findWallet", IF wallet # 0 THEN "deleteWallet" ELSE "createWallet")
  /\ UNCHANGED <<diskVars, sessionVars, failed>>

\* Nobody looks at what deleteRecursively returns.
DeleteWallet(i) ==
  /\ Goto(i, "deleteWallet", "createWallet")
  /\ \/ wallet' = 0 /\ UNCHANGED failed
     \/ UNCHANGED wallet /\ failed' = TRUE
  /\ UNCHANGED <<pool, last, sessionVars>>

CreateWallet(i) ==
  /\ \/ Goto(i, "createWallet", "threw") /\ wallet # 0 /\ UNCHANGED <<wallet, last>>
     \/ /\ Goto(i, "createWallet", "openWallet")
        /\ wallet = 0
        /\ wallet' = last + 1
        /\ last' = last + 1
  /\ UNCHANGED <<pool, sessionVars, failed>>

\* openOrCreate: a wallet that is not there is created first.  libindy opens a
\* wallet of one name only once.
OpenWallet(i) ==
  /\ \/ Goto(i, "openWallet", "createWallet") /\ wallet = 0 /\ UNCHANGED session
     \/ Goto(i, "openWallet", "threw") /\ wallet # 0 /\ session # 0 /\ UNCHANGED session
     \/ /\ Goto(i, "openWallet", "createDid")
        /\ wallet # 0
        /\ session = 0
        /\ session' = wallet
  /\ UNCHANGED <<diskVars, opened, did, ledgerDid, secret, listeners, failed>>

CreateDid(i) ==
  /\ Goto(i, "createDid", "shareDid")
  /\ did' = session
  /\ UNCHANGED <<diskVars, opened, session, ledgerDid, secret, listeners, failed>>

-----------------------------------------------------------------------------
(***************************************************************************)
(* The rest of init()                                                      *)
(***************************************************************************)

\* Mistaken variant: init() does not wait for the coroutine.
LaunchEarly(i) ==
  /\ Goto(i, "shareDid", "createSecret")
  /\ ledgerDid' = did
  /\ listeners' = listeners + 1
  /\ UNCHANGED <<diskVars, opened, session, did, secret, failed>>

ShareDid(i) ==
  /\ Goto(i, "shareDid", "createSecret")
  /\ ledgerDid' = did
  /\ UNCHANGED <<diskVars, opened, session, did, secret, listeners, failed>>

\* A DuplicateMasterSecretNameException is caught.
CreateMasterSecret(i) ==
  /\ Goto(i, "createSecret", "launch")
  /\ secret' = session
  /\ UNCHANGED <<diskVars, opened, session, did, ledgerDid, listeners, failed>>

\* The thread of the tracker starts with that of the listener.
Launch(i) ==
  /\ Goto(i, "launch", "returned")
  /\ listeners' = listeners + 1
  /\ UNCHANGED <<diskVars, opened, session, did, ledgerDid, secret, failed>>

-----------------------------------------------------------------------------
InitStep(i) ==
  \/ FindPool(i) \/ CreatePool(i) \/ OpenPool(i)
  \/ FindWallet(i) \/ DeleteWallet(i) \/ CreateWallet(i) \/ OpenWallet(i)
  \/ CreateDid(i) \/ ShareDid(i) \/ CreateMasterSecret(i) \/ Launch(i)

StartNext == Crash \/ \E i \in Caller : CallInit(i) \/ InitStep(i) \/ Fail(i)

StartSpec == StartInit /\ [][StartNext]_startVars

\* A call of init() that has begun goes on; nobody has to make one.
StartFairness == \A i \in Caller : WF_startVars(InitStep(i))

-----------------------------------------------------------------------------
(***************************************************************************)
(* Properties                                                              *)
(***************************************************************************)

\* However often and from however many threads init() is called, at most one
\* thread takes messages off the queue, and it finds the pool open and a wallet on
\* the disk that is the open one, with the DID that ledger requests are sent with
\* and with the master secret.
OneReadyListener ==
  /\ listeners <= 1
  /\ listeners > 0 =>
       /\ opened
       /\ wallet # 0
       /\ \A w \in {session, did, ledgerDid, secret} : w = wallet

\* A call of init() that comes too late throws before it can delete the wallet of
\* the agent that runs.
RunningWalletIsKept == [][listeners > 0 => wallet' = wallet]_startVars

\* Wherever the last process has ended, what it has left on the disk makes no call
\* of init() throw that is the first of its process.
LeftoversDoNoHarm ==
  (\E i \in Caller : pc[i] = "threw") => calls > 1 \/ failed

\* And such a call ends with an agent that runs.
FirstCallStarts ==
  calls = 1 ~> (listeners = 1 \/ calls # 1 \/ failed)

=============================================================================
