-------------------------- MODULE AgentStart_proofs -------------------------
(***************************************************************************)
(* Proofs about the start of the agent, for any number of threads that     *)
(* call init(), of calls and of crashes.                                   *)
(***************************************************************************)
EXTENDS AgentStart, TLAPS

(***************************************************************************)
(* The pool is the lock: who has opened it is alone in the steps behind,   *)
(* and nobody gets there while a listener runs, for the pool is never      *)
(* closed.                                                                 *)
(***************************************************************************)
OpenerIsAlone ==
  /\ \A i \in Caller : pc[i] \in InsidePC => opened /\ listeners = 0
  /\ \A i, j \in Caller : pc[i] \in InsidePC /\ pc[j] \in InsidePC => i = j
  /\ ~opened => session = 0 /\ listeners = 0

\* What its opener has done when it is at a step.
OpenerKnows ==
  \A i \in Caller :
    /\ pc[i] \in {"findWallet", "deleteWallet", "createWallet", "openWallet"} => session = 0
    /\ pc[i] = "openWallet" => wallet # 0
    /\ pc[i] \in {"createDid", "shareDid", "createSecret", "launch"} =>
         wallet # 0 /\ session = wallet
    /\ pc[i] \in {"shareDid", "createSecret", "launch"} => did = wallet
    /\ pc[i] \in {"createSecret", "launch"} => ledgerDid = wallet
    /\ pc[i] = "launch" => secret = wallet

StartInv == StartTypeOK /\ OpenerIsAlone /\ OpenerKnows /\ OneReadyListener

(***************************************************************************)
(* As long as nothing has failed, the only call of init() of a process     *)
(* finds on the disk what it needs.                                        *)
(***************************************************************************)
FirstCallKnows ==
  /\ calls = 0 => ~opened /\ \A i \in Caller : pc[i] = "idle"
  /\ calls = 1 =>
       \A i, j \in Caller : pc[i] # "idle" /\ pc[j] # "idle" => i = j
  /\ calls <= 1 /\ ~failed =>
       \A i \in Caller :
         /\ pc[i] # "threw"
         /\ pc[i] \in PoolPC => ~opened
         /\ pc[i] = "createPool" => ~pool
         /\ pc[i] = "createWallet" => wallet = 0
         /\ pc[i] = "openWallet" => wallet # 0

-----------------------------------------------------------------------------
USE DEF startVars, diskVars, sessionVars, countVars, RestPC, PoolPC, InsidePC

\* Threads that are all at rest have the type of pc.
LEMMA RestTyped == [i \in Caller |-> "idle"] \in [Caller -> RestPC \cup PoolPC \cup InsidePC]
  OBVIOUS

LEMMA StartInvInit == StartInit => StartInv
<1> SUFFICES ASSUME StartInit PROVE StartInv
  OBVIOUS
<1>1. pc \in [Caller -> RestPC \cup PoolPC \cup InsidePC]
  BY RestTyped, Zenon DEF StartInit
<1>2. StartTypeOK
  BY <1>1 DEF StartInit, StartTypeOK
<1>3. \A i \in Caller : pc[i] = "idle"
  BY DEF StartInit
<1>4. OpenerIsAlone /\ OpenerKnows
  BY <1>3 DEF StartInit, OpenerIsAlone, OpenerKnows
<1>5. OneReadyListener
  BY DEF StartInit, OneReadyListener
<1>6. QED
  BY <1>2, <1>4, <1>5 DEF StartInv

LEMMA CallKeepsStartInv ==
  ASSUME StartInv, NEW i \in Caller, CallInit(i)
  PROVE  StartInv'
  BY StartAssumption
     DEF CallInit, StartInv, StartTypeOK, OpenerIsAlone, OpenerKnows, OneReadyListener

LEMMA CrashKeepsStartInv ==
  ASSUME StartInv, Crash
  PROVE  StartInv'
<1>1. crashes \in Nat /\ crashes' = crashes + 1 /\ pc' = [i \in Caller |-> "idle"]
  BY DEF Crash, StartInv, StartTypeOK
<1>2. StartTypeOK'
  <2>1. pc' \in [Caller -> RestPC \cup PoolPC \cup InsidePC]
    BY <1>1, RestTyped, Zenon
  <2>2. crashes' \in Nat
    BY <1>1
  <2>3. /\ pool' \in BOOLEAN /\ wallet' \in Nat /\ last' \in Nat
        /\ opened' \in BOOLEAN
        /\ session' \in Nat /\ did' \in Nat /\ ledgerDid' \in Nat /\ secret' \in Nat
        /\ listeners' \in Nat /\ calls' \in Nat /\ failed' \in BOOLEAN
    BY DEF Crash, StartInv, StartTypeOK
  <2>4. QED
    BY <2>1, <2>2, <2>3, Zenon DEF StartTypeOK
<1>3. \A i \in Caller : pc'[i] = "idle"
  BY <1>1
<1>4. QED
  BY <1>2, <1>3
     DEF Crash, StartInv, StartTypeOK, OpenerIsAlone, OpenerKnows, OneReadyListener

LEMMA FailKeepsStartInv ==
  ASSUME StartInv, NEW i \in Caller, Fail(i)
  PROVE  StartInv'
  BY DEF Fail, Goto, StartInv, StartTypeOK, OpenerIsAlone, OpenerKnows, OneReadyListener

LEMMA StepKeepsStartInv ==
  ASSUME StartInv, NEW i \in Caller, InitStep(i)
  PROVE  StartInv'
<1> USE DEF Goto, StartInv, StartTypeOK, OpenerIsAlone, OpenerKnows, OneReadyListener
<1>1. CASE FindPool(i)
  BY <1>1 DEF FindPool
<1>2. CASE CreatePool(i)
  BY <1>2 DEF CreatePool
<1>3. CASE OpenPool(i)
  BY <1>3 DEF OpenPool
<1>4. CASE FindWallet(i)
  BY <1>4 DEF FindWallet
<1>5. CASE DeleteWallet(i)
  <2>1. session = 0 /\ listeners = 0 /\ opened
    BY <1>5 DEF DeleteWallet
  <2>2. wallet' \in Nat /\ failed' \in BOOLEAN
    BY <1>5 DEF DeleteWallet
  <2>3. \A j \in Caller : j # i => pc'[j] = pc[j] /\ pc[j] \notin InsidePC
    BY <1>5 DEF DeleteWallet
  <2>4. QED
    BY <1>5, <2>1, <2>2, <2>3 DEF DeleteWallet
<1>6. CASE CreateWallet(i)
  BY <1>6 DEF CreateWallet
<1>7. CASE OpenWallet(i)
  BY <1>7 DEF OpenWallet
<1>8. CASE CreateDid(i)
  BY <1>8 DEF CreateDid
<1>9. CASE ShareDid(i)
  BY <1>9 DEF ShareDid
<1>10. CASE CreateMasterSecret(i)
  BY <1>10 DEF CreateMasterSecret
<1>11. CASE Launch(i)
  BY <1>11 DEF Launch
<1>12. QED
  BY <1>1, <1>2, <1>3, <1>4, <1>5, <1>6, <1>7, <1>8, <1>9, <1>10, <1>11 DEF InitStep

LEMMA StartInvAlways == StartSpec => []StartInv
<1>1. StartInv /\ [StartNext]_startVars => StartInv'
  <2>1. ASSUME StartInv, UNCHANGED startVars PROVE StartInv'
    BY <2>1 DEF StartInv, StartTypeOK, OpenerIsAlone, OpenerKnows, OneReadyListener
  <2>2. QED
    BY <2>1, CallKeepsStartInv, CrashKeepsStartInv, FailKeepsStartInv, StepKeepsStartInv
       DEF StartNext
<1>2. QED
  BY <1>1, StartInvInit, PTL DEF StartSpec

-----------------------------------------------------------------------------
\* The variables of init() have their types.
THEOREM StartTypeCorrect == StartSpec => []StartTypeOK
<1>1. StartInv => StartTypeOK
  BY DEF StartInv
<1>2. QED
  BY <1>1, StartInvAlways, PTL

\* However often init() is called and wherever its process ends, at most one thread
\* listens, and it has all that init() prepares (SsiAgentApiImpl.init).
THEOREM ListenerIsReady == StartSpec => []OneReadyListener
<1>1. StartInv => OneReadyListener
  BY DEF StartInv
<1>2. QED
  BY <1>1, StartInvAlways, PTL

LEMMA RunningAgentIsLeftAlone ==
  ASSUME StartInv, listeners > 0, NEW i \in Caller, CallInit(i) \/ InitStep(i) \/ Fail(i)
  PROVE  wallet' = wallet /\ listeners' = listeners
<1>1. pc[i] \notin InsidePC
  BY DEF StartInv, OpenerIsAlone
<1>2. CASE InitStep(i)
  BY <1>1, <1>2
     DEF InitStep, Goto, FindPool, CreatePool, OpenPool, FindWallet, DeleteWallet,
         CreateWallet, OpenWallet, CreateDid, ShareDid, CreateMasterSecret, Launch
<1>3. QED
  BY <1>2 DEF CallInit, Fail

\* No call of init() deletes or replaces the wallet of the agent that runs.
THEOREM WalletOfListenerIsKept == StartSpec => RunningWalletIsKept
<1>1. StartInv /\ [StartNext]_startVars => [listeners > 0 => wallet' = wallet]_startVars
  BY RunningAgentIsLeftAlone DEF StartNext, Crash
<1>2. QED
  BY <1>1, StartInvAlways, PTL DEF StartSpec, RunningWalletIsKept

-----------------------------------------------------------------------------
LEMMA FirstCallInit == StartInit => FirstCallKnows
  BY DEF StartInit, FirstCallKnows

LEMMA StepKeepsFirstCall ==
  ASSUME StartInv, FirstCallKnows, NEW i \in Caller, InitStep(i)
  PROVE  FirstCallKnows'
<1> USE DEF Goto, StartInv, StartTypeOK, OpenerKnows, FirstCallKnows
<1>1. CASE FindPool(i)
  BY <1>1 DEF FindPool
<1>2. CASE CreatePool(i)
  BY <1>2 DEF CreatePool
<1>3. CASE OpenPool(i)
  BY <1>3 DEF OpenPool
<1>4. CASE FindWallet(i)
  BY <1>4 DEF FindWallet
<1>5. CASE DeleteWallet(i)
  BY <1>5 DEF DeleteWallet
<1>6. CASE CreateWallet(i)
  BY <1>6 DEF CreateWallet
<1>7. CASE OpenWallet(i)
  BY <1>7 DEF OpenWallet
<1>8. CASE CreateDid(i)
  BY <1>8 DEF CreateDid
<1>9. CASE ShareDid(i)
  BY <1>9 DEF ShareDid
<1>10. CASE CreateMasterSecret(i)
  BY <1>10 DEF CreateMasterSecret
<1>11. CASE Launch(i)
  BY <1>11 DEF Launch
<1>12. QED
  BY <1>1, <1>2, <1>3, <1>4, <1>5, <1>6, <1>7, <1>8, <1>9, <1>10, <1>11 DEF InitStep

LEMMA FirstCallStep ==
  ASSUME StartInv, FirstCallKnows, [StartNext]_startVars
  PROVE  FirstCallKnows'
<1>1. CASE Crash
  BY <1>1 DEF Crash, StartInv, StartTypeOK, FirstCallKnows
<1>2. ASSUME NEW i \in Caller, CallInit(i) PROVE FirstCallKnows'
  BY <1>2 DEF CallInit, StartInv, StartTypeOK, FirstCallKnows
<1>3. ASSUME NEW i \in Caller, Fail(i) PROVE FirstCallKnows'
  BY <1>3 DEF Fail, Goto, StartInv, StartTypeOK, FirstCallKnows
<1>4. CASE UNCHANGED startVars
  BY <1>4 DEF FirstCallKnows
<1>5. QED
  BY <1>1, <1>2, <1>3, <1>4, StepKeepsFirstCall DEF StartNext

\* What an earlier process has left on the disk makes no first call of init() throw,
\* wherever that process has ended (PoolHelper.openOrCreate, WalletHelper).
THEOREM FirstCallIsNotHarmed == StartSpec => []LeftoversDoNoHarm
<1>1. StartInv /\ FirstCallKnows /\ [StartNext]_startVars => FirstCallKnows'
  BY FirstCallStep
<1>2. StartInv /\ FirstCallKnows => LeftoversDoNoHarm
  BY DEF StartInv, StartTypeOK, FirstCallKnows, LeftoversDoNoHarm
<1>3. QED
  BY <1>1, <1>2, FirstCallInit, StartInvAlways, PTL DEF StartSpec

=============================================================================
