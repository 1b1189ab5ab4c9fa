------------------------- MODULE HolderAgent_proofs -------------------------
(***************************************************************************)
(* Proofs about the agent that starts and presents, for any requests,      *)
(* credentials and number of calls and crashes.                            *)
(***************************************************************************)
EXTENDS HolderAgent, AgentStart_proofs

\* With an interval no choice can be revoked, and without one no choice for an
\* attribute: such a choice ends in the lookup of its registry.
NoneIsRevocable ==
  /\ \A a \in Attribute : chosen[a] \notin Revocable
  /\ interval => \A p \in Predicate : chosen[p] \notin Revocable

\* The search is closed only over a full choice, whose objects are looked up or
\* still wanted.
ChoiceIsCovered ==
  /\ step = "receive" => chosen = NothingChosen
  /\ step \in {"lookups", "prove", "present"} =>
       \A i \in asked : chosen[i] # None /\ Source[chosen[i]] \subseteq retrieved \cup wanted
  /\ step \in {"prove", "present"} => wanted = {}

\* A listener that is busy is there, and has chosen what is in its wallet.
ChoiceIsHeld ==
  step \notin {"receive", "dead"} =>
    /\ listeners > 0
    /\ \A i \in Item : chosen[i] \in held \cup {None}

PresentationInv == PresentationTypeOK /\ NoneIsRevocable /\ ChoiceIsCovered

HolderInv == StartInv /\ PresentationInv /\ ChoiceIsHeld

-----------------------------------------------------------------------------
USE DEF requestVars

LEMMA NothingIsChosen ==
  /\ NothingChosen \in [Item -> Cred \cup {None}]
  /\ \A i \in Item : NothingChosen[i] = None
  BY DEF NothingChosen

LEMMA ItemsAre == Attribute \subseteq Item /\ Predicate \subseteq Item
  BY DEF Item

LEMMA WaitKeeps ==
  ASSUME PresentationTypeOK, Wait, UNCHANGED held
  PROVE  PresentationInv'
<1>1. PresentationTypeOK'
  BY NothingIsChosen DEF PresentationTypeOK, Wait, Causes
<1>2. NoneIsRevocable'
  BY NothingIsChosen, ItemsAre, PresentationAssumption DEF NoneIsRevocable, Wait
<1>3. ChoiceIsCovered'
  BY DEF ChoiceIsCovered, Wait
<1>4. QED
  BY <1>1, <1>2, <1>3 DEF PresentationInv

LEMMA EndKeeps ==
  ASSUME PresentationInv, NEW reason \in Causes, End(reason), attempts' \in Nat
  PROVE  PresentationInv'
  BY DEF PresentationInv, PresentationTypeOK, NoneIsRevocable, ChoiceIsCovered, End

LEMMA TakeKeeps ==
  ASSUME PresentationInv, step = "items", NEW i \in Item, NEW c \in Cred,
         i \in Attribute => (c \in Revocable) = interval,
         Take(i, c)
  PROVE  PresentationInv'
<1>1. CASE c \in Revocable /\ interval
  BY <1>1 DEF Take, PresentationInv, PresentationTypeOK, NoneIsRevocable, ChoiceIsCovered
<1>2. CASE ~(c \in Revocable /\ interval)
  <2>1. /\ chosen' = [chosen EXCEPT ![i] = c]
        /\ UNCHANGED <<held, step, asked, interval, wanted, retrieved, attempts, cause>>
    BY <1>2 DEF Take
  <2>2. PresentationTypeOK'
    BY <2>1 DEF PresentationInv, PresentationTypeOK
  <2>3. NoneIsRevocable'
    BY <1>2, <2>1, ItemsAre DEF PresentationInv, PresentationTypeOK, NoneIsRevocable
  <2>4. ChoiceIsCovered'
    BY <2>1 DEF ChoiceIsCovered
  <2>5. QED
    BY <2>2, <2>3, <2>4 DEF PresentationInv
<1>3. QED
  BY <1>1, <1>2

LEMMA ChoiceKeeps ==
  ASSUME PresentationInv,
         (\E a \in Attribute : ChooseForAttribute(a))
           \/ (\E p \in Predicate : ChooseForPredicate(p))
  PROVE  PresentationInv'
<1>1. \A i \in Item : Fits[i] \cap held \subseteq Cred
  BY DEF PresentationInv, PresentationTypeOK
<1>2. ASSUME NEW i \in Item, NothingFits(i) PROVE PresentationInv'
  BY <1>2, EndKeeps DEF NothingFits, Causes, PresentationInv, PresentationTypeOK
<1>3. ASSUME NEW c \in Cred, Refuse(c) PROVE PresentationInv'
  BY <1>3, EndKeeps DEF Refuse, Causes, PresentationInv, PresentationTypeOK
<1>4. ASSUME NEW a \in Attribute, ChooseForAttribute(a) PROVE PresentationInv'
  BY <1>1, <1>2, <1>3, <1>4, ItemsAre, TakeKeeps DEF ChooseForAttribute
<1>5. ASSUME NEW p \in Predicate, ChooseForPredicate(p), p \notin Attribute
      PROVE  PresentationInv'
  BY <1>1, <1>2, <1>5, ItemsAre, TakeKeeps DEF ChooseForPredicate
<1>6. ASSUME NEW p \in Predicate, ChooseForPredicate(p) PROVE p \notin Attribute
  BY <1>6 DEF ChooseForPredicate
<1>7. QED
  BY <1>4, <1>5, <1>6

LEMMA CloseKeeps ==
  ASSUME PresentationInv, CloseSearch
  PROVE  PresentationInv'
<1>1. \A i \in asked : chosen[i] \in Cred /\ Source[chosen[i]] \subseteq LedgerObject
  BY DEF CloseSearch, PresentationInv, PresentationTypeOK, LedgerObject
<1>2. wanted' = UNION {Source[chosen[i]] : i \in asked}
  BY DEF CloseSearch
<1>3. wanted' \subseteq LedgerObject
  BY <1>1, <1>2
<1>4. PresentationTypeOK'
  BY <1>3 DEF CloseSearch, PresentationInv, PresentationTypeOK
<1>5. ChoiceIsCovered'
  BY <1>2 DEF CloseSearch, ChoiceIsCovered
<1>6. QED
  BY <1>4, <1>5 DEF CloseSearch, PresentationInv, NoneIsRevocable

LEMMA AttemptKeeps ==
  ASSUME PresentationInv, AttemptFails
  PROVE  PresentationInv'
  BY EndKeeps DEF AttemptFails, Causes, PresentationInv, PresentationTypeOK

LEMMA LookUpKeeps ==
  ASSUME PresentationInv, NEW object \in wanted, LookUp(object)
  PROVE  PresentationInv'
<1>1. retrieved \cup wanted = retrieved' \cup wanted'
  BY DEF LookUp
<1>2. PresentationTypeOK'
  BY DEF LookUp, PresentationInv, PresentationTypeOK
<1>3. QED
  BY <1>1, <1>2 DEF LookUp, PresentationInv, NoneIsRevocable, ChoiceIsCovered

LEMMA StepKeeps ==
  ASSUME PresentationInv, PresentationStep
  PROVE  PresentationInv'
<1>1. CASE LookUpRegistry \/ LookUpFails
  BY <1>1, AttemptKeeps DEF LookUpRegistry, LookUpFails
<1>2. CASE LookedUp \/ CreateProof
  BY <1>2
     DEF LookedUp, CreateProof, PresentationInv, PresentationTypeOK, NoneIsRevocable,
         ChoiceIsCovered
<1>3. CASE SendPresentation
  BY <1>3, WaitKeeps DEF SendPresentation, PresentationInv
<1>4. CASE Throw
  BY <1>4, EndKeeps DEF Throw, Causes, PresentationInv, PresentationTypeOK
<1>5. QED
  BY <1>1, <1>2, <1>3, <1>4, ChoiceKeeps, CloseKeeps, LookUpKeeps DEF PresentationStep

LEMMA PresentationKeeps ==
  ASSUME PresentationInv, PresentationNext
  PROVE  PresentationInv'
<1>1. ASSUME NEW c \in Cred, StoreCredential(c) PROVE PresentationInv'
  BY <1>1
     DEF StoreCredential, PresentationInv, PresentationTypeOK, NoneIsRevocable,
         ChoiceIsCovered
<1>2. ASSUME ReceiveRequest PROVE PresentationInv'
  <2>1. \A i \in Item : chosen[i] = None
    BY <1>2, NothingIsChosen DEF ReceiveRequest, PresentationInv, ChoiceIsCovered
  <2>2. NoneIsRevocable'
    BY <1>2, <2>1, ItemsAre, PresentationAssumption DEF ReceiveRequest, NoneIsRevocable
  <2>3. QED
    BY <1>2, <2>2
       DEF ReceiveRequest, PresentationInv, PresentationTypeOK, ChoiceIsCovered
<1>3. QED
  BY <1>1, <1>2, StepKeeps DEF PresentationNext

-----------------------------------------------------------------------------
\* The start of the agent goes its own way beside the presentations.
LEMMA StartsAsBefore == Spec => StartSpec
<1>1. Init => StartInit
  BY DEF Init
<1>2. [Next]_vars => [StartNext]_startVars
  BY DEF Next, vars, Start, ProcessEnds, Listen, StartNext
<1>3. QED
  BY <1>1, <1>2, PTL DEF Spec, StartSpec

LEMMA StartKeepsWallet ==
  ASSUME HolderInv, Start
  PROVE  PresentationInv' /\ ChoiceIsHeld'
<1>1. UNCHANGED <<step, requestVars, cause>>
  BY DEF Start
<1>2. held' = held \/ held' = {}
  BY DEF Start
<1>3. PresentationInv'
  BY <1>1, <1>2
     DEF HolderInv, PresentationInv, PresentationTypeOK, NoneIsRevocable, ChoiceIsCovered
<1>4. ASSUME listeners > 0 PROVE held' = held /\ listeners' = listeners
  BY <1>4, RunningAgentIsLeftAlone DEF Start, HolderInv
<1>5. ChoiceIsHeld'
  BY <1>1, <1>4 DEF HolderInv, ChoiceIsHeld
<1>6. QED
  BY <1>3, <1>5

LEMMA ListenKeepsHeld ==
  ASSUME HolderInv, Listen
  PROVE  ChoiceIsHeld'
<1>1. listeners' > 0
  BY DEF Listen, startVars, sessionVars
<1>2. CASE \E c \in Cred : StoreCredential(c)
  BY <1>2 DEF StoreCredential, ChoiceIsHeld
<1>3. CASE ReceiveRequest
  BY <1>1, <1>3, NothingIsChosen
     DEF ReceiveRequest, HolderInv, PresentationInv, ChoiceIsCovered, ChoiceIsHeld
<1>4. ASSUME NEW i \in Item, NEW c \in Fits[i] \cap held, step = "items", Take(i, c)
      PROVE  ChoiceIsHeld'
  BY <1>1, <1>4
     DEF Take, HolderInv, PresentationInv, PresentationTypeOK, ChoiceIsHeld
<1>5. ASSUME NEW reason \in Causes, End(reason) PROVE ChoiceIsHeld'
  BY <1>5 DEF End, ChoiceIsHeld
<1>6. CASE (\E a \in Attribute : ChooseForAttribute(a))
             \/ (\E p \in Predicate : ChooseForPredicate(p))
  BY <1>4, <1>5, <1>6, ItemsAre
     DEF ChooseForAttribute, ChooseForPredicate, NothingFits, Refuse, Causes
<1>7. CASE LookUpRegistry \/ LookUpFails \/ Throw
  BY <1>5, <1>7 DEF LookUpRegistry, LookUpFails, Throw, AttemptFails, Causes
<1>8. CASE SendPresentation
  BY <1>8 DEF SendPresentation, Wait, ChoiceIsHeld
<1>9. CASE CloseSearch \/ (\E object \in wanted : LookUp(object)) \/ LookedUp \/ CreateProof
  BY <1>1, <1>9 DEF CloseSearch, LookUp, LookedUp, CreateProof, HolderInv, ChoiceIsHeld
<1>10. QED
  BY <1>2, <1>3, <1>6, <1>7, <1>8, <1>9
     DEF Listen, PresentationNext, PresentationStep

LEMMA HolderInvInit == Init => HolderInv
<1> SUFFICES ASSUME Init PROVE HolderInv
  OBVIOUS
<1>1. PresentationTypeOK
  BY NothingIsChosen DEF Init, PresentationInit, PresentationTypeOK, Causes
<1>2. NoneIsRevocable
  BY NothingIsChosen, ItemsAre, PresentationAssumption
     DEF Init, PresentationInit, NoneIsRevocable
<1>3. ChoiceIsCovered /\ ChoiceIsHeld
  BY DEF Init, PresentationInit, ChoiceIsCovered, ChoiceIsHeld
<1>4. QED
  BY <1>1, <1>2, <1>3, StartInvInit DEF Init, HolderInv, PresentationInv

LEMMA HolderInvAlways == Spec => []HolderInv
<1>1. HolderInv /\ StartInv' /\ [Next]_vars => HolderInv'
  <2> SUFFICES ASSUME HolderInv, StartInv', [Next]_vars
               PROVE  PresentationInv' /\ ChoiceIsHeld'
    BY DEF HolderInv
  <2>1. CASE Start
    BY <2>1, StartKeepsWallet
  <2>2. CASE ProcessEnds
    BY <2>2, WaitKeeps DEF ProcessEnds, HolderInv, PresentationInv, ChoiceIsHeld, Wait
  <2>3. CASE Listen
    BY <2>3, ListenKeepsHeld, PresentationKeeps DEF Listen, HolderInv
  <2>4. CASE UNCHANGED vars
    BY <2>4
       DEF vars, presentationVars, startVars, sessionVars, HolderInv, PresentationInv,
           PresentationTypeOK, NoneIsRevocable, ChoiceIsCovered, ChoiceIsHeld
  <2>5. QED
    BY <2>1, <2>2, <2>3, <2>4 DEF Next
<1>2. QED
  BY <1>1, HolderInvInit, StartsAsBefore, StartInvAlways, PTL DEF Spec

-----------------------------------------------------------------------------
\* All variables of the agent that starts and presents have their types.
THEOREM TypeCorrect == Spec => []TypeOK
<1>1. HolderInv => TypeOK
  BY DEF HolderInv, StartInv, PresentationInv, TypeOK
<1>2. QED
  BY <1>1, HolderInvAlways, PTL

\* The proof that IndyProver.createPresentation asks libindy for, with no revocation
\* state, is not of a credential that needs one.
THEOREM PresentationNeedsNoState == Spec => []NoStateIsMissing
<1>1. HolderInv => NoStateIsMissing
  BY DEF HolderInv, PresentationInv, NoneIsRevocable, NoStateIsMissing
<1>2. QED
  BY <1>1, HolderInvAlways, PTL

\* And it comes with the schema and the definition of every credential in it.
THEOREM PresentationHasObjects == Spec => []ProofHasItsObjects
<1>1. HolderInv => ProofHasItsObjects
  BY DEF HolderInv, PresentationInv, ChoiceIsCovered, ProofHasItsObjects
<1>2. QED
  BY <1>1, HolderInvAlways, PTL

\* No call of init(), and no end of the process, takes a credential out of the wallet
\* between its choice and the proof.
THEOREM PresentedStaysHeld == Spec => []PresentedIsHeld
<1>1. HolderInv => PresentedIsHeld
  BY DEF HolderInv, StartInv, StartTypeOK, OneReadyListener, ChoiceIsHeld, PresentedIsHeld
<1>2. QED
  BY <1>1, HolderInvAlways, PTL

-----------------------------------------------------------------------------
(***************************************************************************)
(* The agent implements AgentSession: a process has one session at most.   *)
(***************************************************************************)
USE DEF startVars, diskVars, sessionVars, countVars, RestPC, PoolPC, InsidePC

ClearingPC == {"findWallet", "deleteWallet", "createWallet"}

\* The phase is that of the opener, of the listener, or of a pool left open.
PhaseIsKnown ==
  /\ ~opened => Phase = "down"
  /\ listeners > 0 => Phase = "up"
  /\ \A i \in Caller : pc[i] \in ClearingPC => Phase = "clearing"
  /\ \A i \in Caller : pc[i] \in InsidePC \ ClearingPC => Phase = "ready"
  /\ (opened /\ listeners = 0 /\ \A i \in Caller : pc[i] \notin InsidePC) => Phase = "broken"

LEMMA PhaseFromInv == StartInv => PhaseIsKnown
  BY DEF StartInv, StartTypeOK, OpenerIsAlone, PhaseIsKnown, Phase, ClearingPC

\* What moves no thread into or out of init() behind the pool leaves the phase.
LEMMA OutsideKeepsPhase ==
  ASSUME UNCHANGED <<opened, listeners>>,
         \A i \in Caller : pc[i] \in InsidePC \/ pc'[i] \in InsidePC => pc'[i] = pc[i]
  PROVE  Phase' = Phase
<1>1. \A i \in Caller : /\ pc'[i] \in ClearingPC <=> pc[i] \in ClearingPC
                        /\ pc'[i] \in InsidePC <=> pc[i] \in InsidePC
  BY DEF ClearingPC
<1>2. QED
  BY <1>1 DEF Phase, ClearingPC

LEMMA StartImplements ==
  ASSUME HolderInv, StartInv', PhaseIsKnown, PhaseIsKnown', NEW i \in Caller,
         CallInit(i) \/ InitStep(i) \/ Fail(i),
         IF wallet' = wallet THEN UNCHANGED held ELSE held' = {}
  PROVE  [Session!Next]_Session!vars
<1>1. StartInv
  BY DEF HolderInv
<1>2. pc \in [Caller -> RestPC \cup PoolPC \cup InsidePC] /\ wallet \in Nat /\ last \in Nat
  BY <1>1 DEF StartInv, StartTypeOK
<1>3. \A j \in Caller : j # i => pc'[j] = pc[j]
  BY <1>2 DEF CallInit, Fail, InitStep, Goto, FindPool, CreatePool, OpenPool, FindWallet,
              DeleteWallet, CreateWallet, OpenWallet, CreateDid, ShareDid,
              CreateMasterSecret, Launch
<1>4. ASSUME UNCHANGED <<opened, listeners, wallet, last>>,
             pc[i] \notin InsidePC, pc'[i] \notin InsidePC
      PROVE  UNCHANGED Session!vars
  BY <1>3, <1>4, OutsideKeepsPhase DEF Session!vars
<1>5. CASE CallInit(i)
  BY <1>2, <1>4, <1>5 DEF CallInit
<1>6. CASE Fail(i) /\ pc[i] \in PoolPC
  BY <1>2, <1>4, <1>6 DEF Fail, Goto
<1>7. CASE Fail(i) /\ pc[i] \in InsidePC
  <2>1. /\ pc'[i] = "threw" /\ UNCHANGED <<wallet, last, opened, listeners>>
        /\ opened /\ listeners = 0 /\ \A j \in Caller : j # i => pc[j] \notin InsidePC
    BY <1>1, <1>2, <1>7 DEF Fail, Goto, StartInv, OpenerIsAlone
  <2>2. Phase' = "broken" /\ Phase \in {"clearing", "ready"}
    BY <1>3, <1>7, <2>1 DEF PhaseIsKnown
  <2>3. Session!Break
    BY <2>1, <2>2 DEF Session!Break, Session!Step
  <2>4. QED
    BY <2>3 DEF Session!Next
<1>8. CASE FindPool(i) \/ CreatePool(i) \/ (OpenPool(i) /\ opened)
  BY <1>2, <1>4, <1>8 DEF FindPool, CreatePool, OpenPool, Goto
<1>9. CASE OpenPool(i) /\ ~opened
  <2>1. /\ pc'[i] = "findWallet" /\ opened' /\ UNCHANGED <<wallet, last, listeners>>
    BY <1>2, <1>9 DEF OpenPool, Goto
  <2>2. Phase = "down" /\ Phase' = "clearing"
    BY <1>9, <2>1 DEF PhaseIsKnown, ClearingPC
  <2>3. Session!Begin
    BY <2>1, <2>2 DEF Session!Begin, Session!Step
  <2>4. QED
    BY <2>3 DEF Session!Next
<1>10. CASE FindWallet(i)
  <2>1. UNCHANGED <<wallet, last>> /\ pc[i] \in ClearingPC /\ pc'[i] \in ClearingPC
    BY <1>2, <1>10 DEF FindWallet, Goto, ClearingPC
  <2>2. QED
    BY <2>1 DEF PhaseIsKnown, Session!vars
<1>11. CASE DeleteWallet(i)
  <2>1. pc[i] \in ClearingPC /\ pc'[i] \in ClearingPC /\ last' = last /\ wallet' \in {0, wallet}
    BY <1>2, <1>11 DEF DeleteWallet, Goto, ClearingPC
  <2>2. Phase = "clearing" /\ Phase' = "clearing"
    BY <2>1 DEF PhaseIsKnown
  <2>3. CASE wallet' = wallet
    BY <2>1, <2>2, <2>3 DEF Session!vars
  <2>4. CASE wallet' # wallet
    BY <2>1, <2>2, <2>4 DEF Session!Next, Session!Clear, Session!Step
  <2>5. QED
    BY <2>3, <2>4
<1>12. CASE CreateWallet(i) /\ wallet # 0
  <2>1. /\ pc[i] = "createWallet" /\ pc'[i] = "threw"
        /\ UNCHANGED <<wallet, last, opened, listeners>>
    BY <1>2, <1>12 DEF CreateWallet, Goto
  <2>2. opened /\ listeners = 0 /\ \A j \in Caller : j # i => pc[j] \notin InsidePC
    BY <1>1, <2>1 DEF StartInv, OpenerIsAlone
  <2>3. Phase = "clearing" /\ Phase' = "broken"
    BY <1>3, <2>1, <2>2 DEF PhaseIsKnown, ClearingPC
  <2>4. QED
    BY <2>1, <2>3 DEF Session!Next, Session!Break, Session!Step
<1>13. CASE CreateWallet(i) /\ wallet = 0
  <2>1. /\ pc[i] \in ClearingPC /\ pc'[i] \in InsidePC \ ClearingPC
        /\ wallet' = last + 1 /\ last' = last + 1
    BY <1>2, <1>13 DEF CreateWallet, Goto, ClearingPC
  <2>2. Phase = "clearing" /\ Phase' = "ready"
    BY <2>1 DEF PhaseIsKnown
  <2>3. wallet' # wallet
    BY <1>2, <1>13, <2>1
  <2>4. Session!Make
    BY <1>13, <2>1, <2>2, <2>3 DEF Session!Make, Session!Step
  <2>5. QED
    BY <2>4 DEF Session!Next
<1>14. CASE OpenWallet(i) \/ CreateDid(i) \/ ShareDid(i) \/ CreateMasterSecret(i)
  <2>1. UNCHANGED <<wallet, last>> /\ pc[i] \in InsidePC \ ClearingPC
    BY <1>14 DEF OpenWallet, CreateDid, ShareDid, CreateMasterSecret, Goto, ClearingPC
  <2>2. pc'[i] \in InsidePC \ ClearingPC
    BY <1>1, <1>2, <1>14 DEF OpenWallet, CreateDid, ShareDid, CreateMasterSecret, Goto,
                             ClearingPC, StartInv, OpenerKnows
  <2>3. QED
    BY <2>1, <2>2 DEF PhaseIsKnown, Session!vars
<1>15. CASE Launch(i)
  <2>1. /\ pc[i] \in InsidePC \ ClearingPC
        /\ listeners' > 0 /\ UNCHANGED <<wallet, last>>
    BY <1>1, <1>15 DEF Launch, Goto, ClearingPC, StartInv, StartTypeOK
  <2>2. Phase = "ready" /\ Phase' = "up"
    BY <2>1 DEF PhaseIsKnown
  <2>3. QED
    BY <2>1, <2>2 DEF Session!Next, Session!Run, Session!Step
<1>16. CASE InitStep(i)
  BY <1>8, <1>9, <1>10, <1>11, <1>12, <1>13, <1>14, <1>15, <1>16 DEF InitStep
<1>17. QED
  BY <1>5, <1>6, <1>7, <1>16 DEF Fail

\* The listener runs, and takes a credential or leaves the wallet as it is.
LEMMA ListenImplements ==
  ASSUME PhaseIsKnown, PhaseIsKnown', Listen
  PROVE  [Session!Next]_Session!vars
<1>1. UNCHANGED <<wallet, last>> /\ listeners > 0 /\ listeners' > 0
  BY DEF Listen, startVars, diskVars, sessionVars
<1>2. Phase = "up" /\ Phase' = "up"
  BY <1>1 DEF PhaseIsKnown
<1>3. CASE \E c \in Cred : StoreCredential(c)
  BY <1>1, <1>2, <1>3
     DEF StoreCredential, Session!Next, Session!Receive, Session!Step
<1>4. CASE UNCHANGED held
  BY <1>1, <1>2, <1>4 DEF Session!vars
<1>5. QED
  BY <1>3, <1>4
     DEF Listen, PresentationNext, PresentationStep, ReceiveRequest, ChooseForAttribute,
         ChooseForPredicate, NothingFits, Refuse, Take, End, CloseSearch, LookUpRegistry,
         AttemptFails, LookUp, LookUpFails, LookedUp, CreateProof, SendPresentation, Throw

\* SsiAgentApiImpl.init() keeps what AgentSession promises, whichever threads call it,
\* whichever call fails and wherever the process ends.
THEOREM ImplementsSession == Spec => SessionSpec
<1>1. Init => Session!Init
  BY DEF Init, StartInit, PresentationInit, Session!Init, Phase
<1>2. HolderInv /\ StartInv' /\ PhaseIsKnown /\ PhaseIsKnown' /\ [Next]_vars
        => [Session!Next]_Session!vars
  <2> SUFFICES ASSUME HolderInv, StartInv', PhaseIsKnown, PhaseIsKnown', [Next]_vars
               PROVE  [Session!Next]_Session!vars
    OBVIOUS
  <2>1. CASE Start
    BY <2>1, StartImplements DEF Start
  <2>2. CASE ProcessEnds
    <3>1. UNCHANGED <<wallet, last, held>> /\ ~opened'
      BY <2>2 DEF ProcessEnds, Crash
    <3>2. Phase' = "down"
      BY <3>1 DEF PhaseIsKnown
    <3>3. QED
      BY <3>1, <3>2 DEF Session!Next, Session!End
  <2>3. CASE Listen
    BY <2>3, ListenImplements
  <2>4. CASE UNCHANGED vars
    BY <2>4 DEF vars, startVars, diskVars, sessionVars, presentationVars, Phase, Session!vars
  <2>5. QED
    BY <2>1, <2>2, <2>3, <2>4 DEF Next
<1>3. Spec => []PhaseIsKnown
  BY PhaseFromInv, StartsAsBefore, StartInvAlways, PTL
<1>4. QED
  BY <1>1, <1>2, <1>3, HolderInvAlways, StartsAsBefore, StartInvAlways, PTL
     DEF Spec, SessionSpec, Session!Spec

=============================================================================
