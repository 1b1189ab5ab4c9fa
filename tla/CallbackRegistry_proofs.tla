----------------------- MODULE CallbackRegistry_proofs ----------------------
(***************************************************************************)
(* CallbackRegistry implements NativeCalls as long as no put has replaced  *)
(* an entry of the map, for any number of calls and handles.               *)
(***************************************************************************)
EXTENDS CallbackRegistry, TLAPS

USE RegistryAssumption

\* A step of the program, and what it does to the types.
LEMMA StepTyped ==
  ASSUME TypeOK, [Next]_vars
  PROVE  TypeOK'
<1> USE DEF TypeOK, Handle, Result, Preparing, Waiting, Ended, Goto, Running
<1>1. ASSUME NEW c \in Call, ReadCounter(c) PROVE TypeOK'
  BY <1>1 DEF ReadCounter
<1>2. ASSUME NEW c \in Call, WriteCounter(c) PROVE TypeOK'
  <2>1. (handle[c] + 1) % Width \in Handle
    OBVIOUS
  <2> QED
    BY <1>2, <2>1 DEF WriteCounter
<1>3. ASSUME NEW c \in Call, CheckHandle(c) PROVE TypeOK'
  BY <1>3 DEF CheckHandle
<1>4. ASSUME NEW c \in Call, PutDeferred(c) PROVE TypeOK'
  BY <1>4 DEF PutDeferred
<1>5. ASSUME NEW c \in Call, CallNative(c) PROVE TypeOK'
  BY <1>5 DEF CallNative
<1>6. ASSUME NEW c \in Call, FindEntry(c) PROVE TypeOK'
  <2>1. PICK code \in {"ok", "error"} :
          /\ answer' = [answer EXCEPT ![c] = code]
          /\ \/ native' = [native EXCEPT ![c] = "answering"] /\ UNCHANGED crashed
             \/ native' = [native EXCEPT ![c] = "done"] /\ crashed' = TRUE
    BY <1>6 DEF FindEntry
  <2>2. UNCHANGED <<callVars, commandHandleCounter, activeCallbacksMap,
                    completed, overwritten>>
    BY <1>6 DEF FindEntry
  <2> QED
    BY <2>1, <2>2 DEF callVars
<1>7. ASSUME NEW c \in Call, CompleteEntry(c) PROVE TypeOK'
  BY <1>7 DEF CompleteEntry, callVars
<1>8. ASSUME NEW c \in Call, CheckPrepared(c) PROVE TypeOK'
  BY <1>8 DEF CheckPrepared
<1>9. ASSUME NEW c \in Call, GetDeferred(c) PROVE TypeOK'
  BY <1>9 DEF GetDeferred, Entry
<1>10. ASSUME NEW c \in Call, Await(c) PROVE TypeOK'
  BY <1>10 DEF Await
<1>11. CASE UNCHANGED vars
  BY <1>11 DEF vars, callVars
<1> QED
  BY <1>1, <1>2, <1>3, <1>4, <1>5, <1>6, <1>7, <1>8, <1>9, <1>10, <1>11
  DEF Next, CallStep, CallbackStep

\* Every variable keeps its type: in particular the counter wraps, and an
\* awaited deferred exists.
THEOREM TypeCorrect == Spec => []TypeOK
<1>1. Init => TypeOK
  <2> SUFFICES ASSUME Init PROVE TypeOK
    OBVIOUS
  <2>1. commandHandleCounter \in Handle /\ 0 \in Handle
    BY DEF Init, Handle
  <2>2. /\ pc \in [Call -> {"idle"} \cup Preparing \cup Waiting \cup Ended]
        /\ handle \in [Call -> Handle]
        /\ deferred \in [Call -> Call \cup {None}]
        /\ activeCallbacksMap \in [Handle -> Call \cup {None}]
    BY <2>1, Zenon DEF Init
  <2>3. /\ completed \in [Call -> Result \cup {None}]
        /\ native \in [Call -> {"idle", "running", "answering", "done"}]
        /\ answer \in [Call -> {"none", "ok", "error"}]
        /\ crashed \in BOOLEAN /\ overwritten \in BOOLEAN
    BY Zenon DEF Init
  <2>4. \A c \in Call : pc[c] = "idle" /\ native[c] = "idle"
    BY DEF Init
  <2> QED
    BY <2>1, <2>2, <2>3, <2>4 DEF TypeOK
<1> QED
  BY <1>1, StepTyped, PTL DEF Spec

-----------------------------------------------------------------------------
(***************************************************************************)
(* What holds as long as no put has replaced an entry.                     *)
(***************************************************************************)

\* How far a call is, how far libindy is with it, and its entry agree.
Coherent(c) ==
  /\ pc[c] \in {"idle", "calling", "rejected"} \cup Preparing => native[c] = "idle"
  /\ pc[c] \in Waiting \ {"calling"} => native[c] # "idle"
  /\ pc[c] \in {"returned", "thrown"} => native[c] = "done"
  /\ pc[c] # "lost"
  /\ pc[c] \in Waiting => Entry(c) = c
  /\ pc[c] \in {"awaiting", "returned", "thrown"} => deferred[c] = c
  /\ native[c] \in {"idle", "running"} => answer[c] = "none"
  /\ native[c] # "done" => completed[c] = None
  /\ native[c] = "done" => completed[c] = [call |-> c, code |-> answer[c]]

InUse(h) ==
  activeCallbacksMap[h] # None =>
    /\ pc[activeCallbacksMap[h]] \in Waiting
    /\ handle[activeCallbacksMap[h]] = h

Sound ==
  ~overwritten =>
    /\ ~crashed
    /\ \A c \in Call : Coherent(c)
    /\ \A h \in Handle : InUse(h)

LEMMA InitSound == Init => Sound
BY DEF Init, Sound, Coherent, InUse, Preparing, Waiting

LEMMA StepSound ==
  ASSUME TypeOK, Sound, [Next]_vars
  PROVE  Sound'
<1> SUFFICES ASSUME ~overwritten'
             PROVE  Sound'
  BY DEF Sound
<1>0. ~overwritten
  BY DEF Next, CallStep, CallbackStep, ReadCounter, WriteCounter, CheckHandle,
         PutDeferred, CallNative, FindEntry, CompleteEntry, CheckPrepared,
         GetDeferred, Await, vars
<1> USE <1>0 DEF TypeOK, Result, Preparing, Waiting, Ended, Goto, Running,
                 Sound, Coherent, InUse, Entry
<1>1. ASSUME NEW c \in Call, ReadCounter(c) PROVE Sound'
  BY <1>1 DEF ReadCounter
<1>2. ASSUME NEW c \in Call, WriteCounter(c) PROVE Sound'
  BY <1>2 DEF WriteCounter
<1>3. ASSUME NEW c \in Call, CheckHandle(c) PROVE Sound'
  BY <1>3 DEF CheckHandle
<1>4. ASSUME NEW c \in Call, PutDeferred(c) PROVE Sound'
  <2>1. /\ activeCallbacksMap[handle[c]] = None
        /\ activeCallbacksMap' = [activeCallbacksMap EXCEPT ![handle[c]] = c]
        /\ pc[c] = "put" /\ pc' = [pc EXCEPT ![c] = "calling"]
        /\ ~crashed'
        /\ UNCHANGED <<handle, deferred, completed, native, answer>>
    BY <1>4 DEF PutDeferred
  <2>2. ASSUME NEW d \in Call PROVE Coherent(d)'
    <3>1. CASE d = c
      BY <2>1, <3>1
    <3>2. CASE d # c
      <4>1. Coherent(d)
        OBVIOUS
      <4>2. pc[d] \in Waiting => handle[d] # handle[c]
        BY <2>1
      <4> QED
        BY <2>1, <3>2, <4>1, <4>2
    <3> QED
      BY <3>1, <3>2
  <2>3. ASSUME NEW h \in Handle PROVE InUse(h)'
    <3>1. CASE h = handle[c]
      BY <2>1, <3>1
    <3>2. CASE h # handle[c]
      BY <2>1, <3>2
    <3> QED
      BY <3>1, <3>2
  <2> QED
    BY <2>1, <2>2, <2>3
<1>5. ASSUME NEW c \in Call, CallNative(c) PROVE Sound'
  BY <1>5 DEF CallNative
<1>6. ASSUME NEW c \in Call, FindEntry(c) PROVE Sound'
  BY <1>6 DEF FindEntry, callVars
<1>7. ASSUME NEW c \in Call, CompleteEntry(c) PROVE Sound'
  BY <1>7 DEF CompleteEntry, callVars
<1>8. ASSUME NEW c \in Call, CheckPrepared(c) PROVE Sound'
  BY <1>8 DEF CheckPrepared
<1>9. ASSUME NEW c \in Call, GetDeferred(c) PROVE Sound'
  BY <1>9 DEF GetDeferred
<1>10. ASSUME NEW c \in Call, Await(c) PROVE Sound'
  BY <1>10 DEF Await
<1>11. CASE UNCHANGED vars
  BY <1>11 DEF vars, callVars
<1> QED
  BY <1>1, <1>2, <1>3, <1>4, <1>5, <1>6, <1>7, <1>8, <1>9, <1>10, <1>11
  DEF Next, CallStep, CallbackStep

THEOREM SoundAlways == Spec => []Sound
BY InitSound, StepSound, TypeCorrect, PTL DEF Spec

\* No callback throws into libindy unless an entry has been replaced.
THEOREM ExpectedCallbacks == Spec => []CallbacksAreExpected
<1>1. Sound => CallbacksAreExpected
  BY DEF Sound, CallbacksAreExpected
<1> QED
  BY <1>1, SoundAlways, PTL

\* The map holds no entry that nobody uses, after errors neither.
THEOREM NoLeak == Spec => []EntriesAreInUse
<1>1. Sound => EntriesAreInUse
  BY DEF Sound, EntriesAreInUse, InUse
<1> QED
  BY <1>1, SoundAlways, PTL

\* An answer waits in the entry of its call until the call takes it.
THEOREM AnswersWait == Spec => []AnswersAreKept
<1>1. Sound => AnswersAreKept
  BY DEF Sound, AnswersAreKept, Coherent, Under, Preparing, Waiting
<1> QED
  BY <1>1, SoundAlways, PTL

-----------------------------------------------------------------------------
(***************************************************************************)
(* Refinement                                                              *)
(***************************************************************************)

LEMMA InitContract == Init => Contract!Init
BY DEF Init, Contract!Init, Phase

\* Without a replaced entry no result is another call's: the phase of a call is
\* told by its pc alone.
Plain(p) ==
  IF p = "idle" THEN "idle"
  ELSE IF p \in Preparing \cup Waiting THEN "active" ELSE p

LEMMA PhaseIsPlain ==
  ASSUME Sound, ~overwritten, NEW c \in Call
  PROVE  Phase(c) = Plain(pc[c])
<1>1. CASE pc[c] = "returned"
  <2>1. completed[deferred[c]] = [call |-> c, code |-> answer[c]]
    BY <1>1 DEF Sound, Coherent
  <2> QED
    BY <1>1, <2>1 DEF Phase, Plain, Under, Preparing, Waiting
<1>2. CASE pc[c] # "returned"
  BY <1>2 DEF Phase, Plain, Under
<1> QED
  BY <1>1, <1>2

LEMMA PhaseStaysPlain ==
  ASSUME Sound', ~overwritten', NEW c \in Call
  PROVE  Phase(c)' = Plain(pc'[c])
<1>1. CASE pc'[c] = "returned"
  <2>1. completed'[deferred'[c]] = [call |-> c, code |-> answer'[c]]
    BY <1>1 DEF Sound, Coherent
  <2> QED
    BY <1>1, <2>1 DEF Phase, Plain, Under, Preparing, Waiting
<1>2. CASE pc'[c] # "returned"
  BY <1>2 DEF Phase, Plain, Under
<1> QED
  BY <1>1, <1>2

LEMMA StepContract ==
  ASSUME TypeOK, Sound, Sound', [Next]_vars, ~overwritten'
  PROVE  [Contract!Next]_(Contract!vars)
<1>0. ~overwritten
  BY DEF Next, CallStep, CallbackStep, ReadCounter, WriteCounter, CheckHandle,
         PutDeferred, CallNative, FindEntry, CompleteEntry, CheckPrepared,
         GetDeferred, Await, vars
<1> DEFINE phase == [c \in Call |-> Phase(c)]
<1>a. phase = [c \in Call |-> Plain(pc[c])]
  BY <1>0, PhaseIsPlain
<1>b. phase' = [c \in Call |-> Plain(pc'[c])]
  BY PhaseStaysPlain
<1>c. ASSUME NEW c \in Call, NEW from, NEW to, Goto(c, from, to)
      PROVE  /\ phase[c] = Plain(from)
             /\ phase' = [phase EXCEPT ![c] = Plain(to)]
  <2>1. \A d \in Call : pc'[d] = IF d = c THEN to ELSE pc[d]
    BY <1>c DEF TypeOK, Goto
  <2>2. \A d \in Call : Plain(pc'[d]) = IF d = c THEN Plain(to) ELSE Plain(pc[d])
    BY <2>1
  <2> QED
    BY <1>a, <1>b, <1>c, <2>2 DEF Goto
<1>d. ASSUME NEW c \in Call, NEW from \in Preparing \cup Waiting,
             NEW to \in Preparing \cup Waiting, Goto(c, from, to),
             UNCHANGED answer
      PROVE  UNCHANGED Contract!vars
  <2>1. Plain(from) = "active" /\ Plain(to) = "active"
    BY DEF Plain, Preparing, Waiting
  <2>2. phase[c] = "active" /\ phase' = [phase EXCEPT ![c] = "active"]
    BY <1>c, <1>d, <2>1
  <2> QED
    BY <1>d, <2>2 DEF Contract!vars
<1>1. ASSUME NEW c \in Call, ReadCounter(c) PROVE Contract!Begin(c)
  <2>1. Goto(c, "idle", "read") /\ UNCHANGED answer
    BY <1>1 DEF ReadCounter
  <2>2. Plain("idle") = "idle" /\ Plain("read") = "active"
    BY DEF Plain, Preparing, Waiting
  <2> QED
    BY <1>c, <2>1, <2>2 DEF Contract!Begin
<1>2. ASSUME NEW c \in Call, WriteCounter(c) PROVE UNCHANGED Contract!vars
  BY <1>2, <1>d DEF WriteCounter, Preparing, Waiting
<1>3. ASSUME NEW c \in Call, CheckHandle(c)
      PROVE  Contract!Reject(c) \/ UNCHANGED Contract!vars
  <2>1. CASE Goto(c, "check", "put")
    BY <1>3, <2>1, <1>d DEF CheckHandle, Preparing, Waiting
  <2>2. CASE Entry(c) # None /\ Goto(c, "check", "rejected")
    <3>1. pc[c] = "check" /\ UNCHANGED answer
      BY <1>3, <2>2 DEF CheckHandle, Goto
    <3>2. Plain("check") = "active" /\ Plain("rejected") = "rejected"
      BY DEF Plain, Preparing, Waiting
    <3>3. phase[c] = "active" /\ phase' = [phase EXCEPT ![c] = "rejected"]
      BY <1>c, <2>2, <3>2
    <3>4. answer[c] = "none"
      BY <1>0, <3>1 DEF Sound, Coherent, Preparing
    <3>5. /\ Entry(c) \in Call \ {c}
          /\ pc[Entry(c)] \in Waiting
      BY <1>0, <2>2, <3>1 DEF TypeOK, Sound, InUse, Entry, Waiting
    <3>6. phase[Entry(c)] = "active"
      BY <1>a, <3>5 DEF Plain, Waiting
    <3> QED
      BY <3>1, <3>4, <3>5, <3>6, <3>3 DEF Contract!Reject
  <2> QED
    BY <1>3, <2>1, <2>2 DEF CheckHandle
<1>4. ASSUME NEW c \in Call, PutDeferred(c) PROVE UNCHANGED Contract!vars
  BY <1>4, <1>d DEF PutDeferred, Preparing, Waiting
<1>5. ASSUME NEW c \in Call, CallNative(c) PROVE UNCHANGED Contract!vars
  BY <1>5, <1>d DEF CallNative, Waiting
<1>6. ASSUME NEW c \in Call, FindEntry(c)
      PROVE  \E code \in {"ok", "error"} : Contract!Answer(c, code)
  <2>1. PICK code \in {"ok", "error"} : answer' = [answer EXCEPT ![c] = code]
    BY <1>6 DEF FindEntry
  <2>2. native[c] = "running" /\ UNCHANGED pc
    BY <1>6 DEF FindEntry, callVars
  <2>3. phase' = phase
    BY <1>a, <1>b, <2>2
  <2>4. pc[c] \in Waiting /\ answer[c] = "none"
    BY <1>0, <2>2 DEF TypeOK, Sound, Coherent, Waiting, Ended, Preparing
  <2>5. phase[c] = "active"
    BY <1>a, <2>4 DEF Plain, Waiting
  <2> QED
    BY <2>1, <2>3, <2>4, <2>5 DEF Contract!Answer
<1>7. ASSUME NEW c \in Call, CompleteEntry(c) PROVE UNCHANGED Contract!vars
  <2>1. UNCHANGED <<pc, answer>>
    BY <1>7 DEF CompleteEntry, callVars
  <2> QED
    BY <1>a, <1>b, <2>1 DEF Contract!vars
<1>8. ASSUME NEW c \in Call, CheckPrepared(c) PROVE UNCHANGED Contract!vars
  <2>1. Goto(c, "waiting", "getting")
    BY <1>0, <1>8 DEF CheckPrepared, Goto, TypeOK, Sound, Coherent, Waiting
  <2> QED
    BY <1>8, <2>1, <1>d DEF CheckPrepared, Waiting
<1>9. ASSUME NEW c \in Call, GetDeferred(c) PROVE UNCHANGED Contract!vars
  <2>1. Goto(c, "getting", "awaiting")
    BY <1>0, <1>9 DEF GetDeferred, Goto, TypeOK, Sound, Coherent, Waiting
  <2> QED
    BY <1>9, <2>1, <1>d DEF GetDeferred, Waiting
<1>10. ASSUME NEW c \in Call, Await(c)
       PROVE  Contract!Return(c) \/ Contract!Throw(c)
  <2>1. /\ pc[c] = "awaiting"
        /\ completed[deferred[c]] # None
        /\ UNCHANGED answer
    BY <1>10 DEF Await
  <2>2. deferred[c] = c /\ native[c] = "done"
    BY <1>0, <2>1 DEF Sound, Coherent
  <2>3. completed[c] = [call |-> c, code |-> answer[c]]
    BY <1>0, <2>2 DEF Sound, Coherent
  <2>4. completed[deferred[c]].code = answer[c]
    BY <2>2, <2>3
  <2>5. /\ Plain("awaiting") = "active"
        /\ Plain("returned") = "returned"
        /\ Plain("thrown") = "thrown"
    BY DEF Plain, Preparing, Waiting
  <2>6. CASE answer[c] = "ok" /\ Goto(c, "awaiting", "returned")
    <3>1. phase[c] = "active" /\ phase' = [phase EXCEPT ![c] = "returned"]
      BY <1>c, <2>5, <2>6
    <3> QED
      BY <2>1, <2>6, <3>1 DEF Contract!Return
  <2>7. CASE answer[c] = "error" /\ Goto(c, "awaiting", "thrown")
    <3>1. phase[c] = "active" /\ phase' = [phase EXCEPT ![c] = "thrown"]
      BY <1>c, <2>5, <2>7
    <3> QED
      BY <2>1, <2>7, <3>1 DEF Contract!Throw
  <2> QED
    BY <1>10, <2>4, <2>6, <2>7 DEF Await
<1>11. CASE UNCHANGED vars
  <2>1. UNCHANGED <<pc, answer>>
    BY <1>11 DEF vars, callVars
  <2> QED
    BY <1>a, <1>b, <2>1 DEF Contract!vars
<1> HIDE DEF phase
<1> QED
  BY <1>1, <1>2, <1>3, <1>4, <1>5, <1>6, <1>7, <1>8, <1>9, <1>10, <1>11
  DEF Next, CallStep, CallbackStep, Contract!Next

\* A call ends at most once, with its own answer, and is rejected only while
\* another one is under way, as long as no entry has been replaced.
THEOREM ImplementsContract == Spec => ContractSpec
<1>1. TypeOK /\ Sound /\ Sound' /\ [Next]_vars
      => [overwritten' \/ [Contract!Next]_(Contract!vars)]_vars
  BY StepContract
<1> QED
  BY <1>1, InitContract, TypeCorrect, SoundAlways, PTL DEF Spec, ContractSpec

-----------------------------------------------------------------------------
(***************************************************************************)
(* What a lock would give.  Nothing but two threads in prepareCallback at  *)
(* once can make a put replace an entry: with one thread at a time there,  *)
(* the contract holds without any exception, and for ever, whatever the    *)
(* threads do in the rest of a call, however many calls there are and      *)
(* however few handles.                                                    *)
(***************************************************************************)

\* At most one thread is in prepareCallback, as with a lock around its body.
Alone == \A c, d \in Call : pc[c] \in Preparing /\ pc[d] \in Preparing => c = d

\* What the thread has seen of the map still holds when it puts its entry.
CheckHolds ==
  /\ ~overwritten
  /\ \A c \in Call : pc[c] = "put" => Entry(c) = None

LEMMA StepCheckHolds ==
  ASSUME TypeOK, Alone, CheckHolds, [Next]_vars
  PROVE  CheckHolds'
<1> USE DEF TypeOK, CheckHolds, Entry, Goto
<1>1. ASSUME NEW c \in Call, CheckHandle(c) PROVE CheckHolds'
  BY <1>1 DEF CheckHandle
<1>2. ASSUME NEW c \in Call, PutDeferred(c) PROVE CheckHolds'
  <2>1. ~overwritten'
    BY <1>2 DEF PutDeferred
  <2>2. \A d \in Call : pc'[d] # "put"
    BY <1>2 DEF PutDeferred, Alone, Preparing
  <2> QED
    BY <2>1, <2>2
<1>3. ASSUME NEW c \in Call, Await(c) PROVE CheckHolds'
  BY <1>3 DEF Await
<1>4. ASSUME NEW c \in Call,
             ReadCounter(c) \/ WriteCounter(c) \/ CallNative(c)
               \/ CheckPrepared(c) \/ GetDeferred(c)
      PROVE  CheckHolds'
  BY <1>4 DEF ReadCounter, WriteCounter, CallNative, CheckPrepared, GetDeferred
<1>5. ASSUME NEW c \in Call, CallbackStep(c) PROVE CheckHolds'
  BY <1>5 DEF CallbackStep, FindEntry, CompleteEntry, callVars
<1>6. CASE UNCHANGED vars
  BY <1>6 DEF vars, callVars
<1> QED
  BY <1>1, <1>2, <1>3, <1>4, <1>5, <1>6 DEF Next, CallStep

\* If prepareCallback is run by one thread at a time, a handle is prepared for one
\* call at a time: the check of the map before the put is then enough.
THEOREM LockSuffices == Spec /\ []Alone => []PreparedOnce
<1>1. Init => CheckHolds
  BY DEF Init, CheckHolds
<1>2. TypeOK /\ Alone /\ CheckHolds /\ [Next]_vars => CheckHolds'
  BY StepCheckHolds
<1>3. CheckHolds => PreparedOnce
  BY DEF CheckHolds, PreparedOnce
<1> QED
  BY <1>1, <1>2, <1>3, TypeCorrect, PTL DEF Spec

\* And then NativeCalls is implemented without its exception, and no callback ever
\* throws into libindy.
THEOREM LockedContract == Spec /\ []Alone => Contract!Spec /\ []~crashed
<1>1. PreparedOnce' /\ [overwritten' \/ [Contract!Next]_(Contract!vars)]_vars
      => [Contract!Next]_(Contract!vars)
  <2>1. UNCHANGED vars => UNCHANGED Contract!vars
    <3> SUFFICES ASSUME UNCHANGED vars PROVE UNCHANGED Contract!vars
      OBVIOUS
    <3>1. UNCHANGED <<pc, completed, deferred, answer>>
      BY DEF vars, callVars
    <3> QED
      BY <3>1 DEF Contract!vars, Phase, Under
  <2> QED
    BY <2>1 DEF PreparedOnce
<1>2. PreparedOnce /\ CallbacksAreExpected => ~crashed
  BY DEF PreparedOnce, CallbacksAreExpected
<1> QED
  BY <1>1, <1>2, LockSuffices, ImplementsContract, ExpectedCallbacks, PTL
     DEF ContractSpec, Contract!Spec
=============================================================================
