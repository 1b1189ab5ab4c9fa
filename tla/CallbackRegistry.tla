-------------------------- MODULE CallbackRegistry --------------------------
(***************************************************************************)
(* CallbackHandler of the iOS build, through which every wrapper of a      *)
(* libindy function calls it:                                              *)
(*     prepareCallback();  indy_xxx(handle, ..., callback);                *)
(*     waitForCallbackResult(handle)                                       *)
(* The threads of the agent (application, listener, tracker) make these    *)
(* calls at the same time; libindy runs the callbacks on threads of its    *)
(* own.  A single access of the shared map or of the counter is atomic, a  *)
(* sequence of them is not: each is a step here.                           *)
(* A CompletableDeferred is named by the call that made it.  Handles are   *)
(* Ints, which wrap: 0 .. Width - 1 stands for them.  libindy answers a    *)
(* call once, or never (a function that returns an error code at once      *)
(* leaves its callback alone, and the code is not looked at).              *)
(***************************************************************************)
EXTENDS Naturals

CONSTANTS
  Call,   \* calls of libindy
  Width,  \* how many handles there are (2^32)
  None    \* null

Handle == 0 .. Width - 1
Result == [call : Call, code : {"ok", "error"}]

ASSUME RegistryAssumption ==
  /\ Width \in Nat \ {0}
  /\ None \notin Call
  /\ None \notin Result

VARIABLES
  pc,                    \* pc of the thread that makes the call
  handle,                \* its commandHandle
  deferred,              \* the deferred that it awaits
  commandHandleCounter,
  activeCallbacksMap,    \* handle -> deferred
  completed,             \* the value of a deferred
  native,                \* how far libindy is with a call
  crashed,               \* a callback has thrown into libindy
  answer,                \* history: what libindy has answered
  overwritten            \* history: a put has replaced an entry of the map

callVars == <<pc, handle, deferred>>
vars == <<callVars, commandHandleCounter, activeCallbacksMap, completed, native,
          crashed, answer, overwritten>>

Preparing == {"read", "check", "put"}
Waiting   == {"calling", "waiting", "getting", "awaiting"}
Ended     == {"returned", "thrown", "rejected", "lost"}

TypeOK ==
  /\ pc \in [Call -> {"idle"} \cup Preparing \cup Waiting \cup Ended]
  /\ handle \in [Call -> Handle]
  /\ deferred \in [Call -> Call \cup {None}]
  /\ commandHandleCounter \in Handle
  /\ activeCallbacksMap \in [Handle -> Call \cup {None}]
  /\ completed \in [Call -> Result \cup {None}]
  /\ native \in [Call -> {"idle", "running", "answering", "done"}]
  /\ crashed \in BOOLEAN
  /\ answer \in [Call -> {"none", "ok", "error"}]
  /\ overwritten \in BOOLEAN
  /\ \A c \in Call :
       /\ pc[c] = "awaiting" => deferred[c] \in Call
       /\ native[c] \in {"answering", "done"} => answer[c] # "none"

Init ==
  /\ pc = [c \in Call |-> "idle"]
  /\ handle = [c \in Call |-> 0]
  /\ deferred = [c \in Call |-> None]
  /\ commandHandleCounter = 1 % Width
  /\ activeCallbacksMap = [h \in Handle |-> None]
  /\ completed = [c \in Call |-> None]
  /\ native = [c \in Call |-> "idle"]
  /\ crashed = FALSE
  /\ answer = [c \in Call |-> "none"]
  /\ overwritten = FALSE

\* An exception that leaves a callback ends the program.
Running == ~crashed

Goto(c, from, to) ==
  /\ Running
  /\ pc[c] = from
  /\ pc' = [pc EXCEPT ![c] = to]

-----------------------------------------------------------------------------
(***************************************************************************)
(* prepareCallback                                                         *)
(***************************************************************************)

\* commandHandleCounter.value++ reads ...
ReadCounter(c) ==
  /\ Goto(c, "idle", "read")
  /\ handle' = [handle EXCEPT ![c] = commandHandleCounter]
  /\ UNCHANGED <<deferred, commandHandleCounter, activeCallbacksMap,
                 completed, native, crashed, answer, overwritten>>

\* Mistaken variant: a counter that does not wrap.
CountOn(c) ==
  /\ Goto(c, "read", "check")
  /\ commandHandleCounter' = handle[c] + 1
  /\ UNCHANGED <<handle, deferred, activeCallbacksMap, completed, native,
                 crashed, answer, overwritten>>

\* ... and writes.
WriteCounter(c) ==
  /\ Goto(c, "read", "check")
  /\ commandHandleCounter' = (handle[c] + 1) % Width
  /\ UNCHANGED <<handle, deferred, activeCallbacksMap, completed, native,
                 crashed, answer, overwritten>>

Entry(c) == activeCallbacksMap[handle[c]]

CheckHandle(c) ==
  /\ \/ Entry(c) # None /\ Goto(c, "check", "rejected")
     \/ Entry(c) = None /\ Goto(c, "check", "put")
  /\ UNCHANGED <<handle, deferred, commandHandleCounter,
                 activeCallbacksMap, completed, native, crashed, answer,
                 overwritten>>

PutDeferred(c) ==
  /\ Goto(c, "put", "calling")
  /\ activeCallbacksMap' = [activeCallbacksMap EXCEPT ![handle[c]] = c]
  /\ overwritten' = (overwritten \/ Entry(c) # None)
  /\ UNCHANGED <<handle, deferred, commandHandleCounter, completed, native,
                 crashed, answer>>

CallNative(c) ==
  /\ Goto(c, "calling", "waiting")
  /\ native' = [native EXCEPT ![c] = "running"]
  /\ UNCHANGED <<handle, deferred, commandHandleCounter, activeCallbacksMap,
                 completed, crashed, answer, overwritten>>

-----------------------------------------------------------------------------
(***************************************************************************)
(* setCallbackResult, called by the callback of the native function        *)
(***************************************************************************)

\* The callback looks for its entry ...
FindEntry(c) ==
  \E code \in {"ok", "error"} :
    /\ Running
    /\ native[c] = "running"
    /\ answer' = [answer EXCEPT ![c] = code]
    /\ \/ /\ Entry(c) # None
          /\ native' = [native EXCEPT ![c] = "answering"]
          /\ UNCHANGED crashed
       \/ /\ Entry(c) = None
          /\ native' = [native EXCEPT ![c] = "done"]
          /\ crashed' = TRUE
    /\ UNCHANGED <<callVars, commandHandleCounter, activeCallbacksMap,
                   completed, overwritten>>

\* Mistaken variant: a result is handed only to a thread that waits.
WakeWaiter(c) ==
  /\ Running
  /\ native[c] = "answering"
  /\ native' = [native EXCEPT ![c] = "done"]
  /\ crashed' = (Entry(c) = None)
  /\ completed' = [d \in Call |->
       IF d = Entry(c) /\ completed[d] = None /\ pc[c] = "awaiting"
       THEN [call |-> c, code |-> answer[c]] ELSE completed[d]]
  /\ UNCHANGED <<callVars, commandHandleCounter, activeCallbacksMap, answer,
                 overwritten>>

\* ... and completes the deferred that it gets in a second access.
CompleteEntry(c) ==
  /\ Running
  /\ native[c] = "answering"
  /\ native' = [native EXCEPT ![c] = "done"]
  /\ crashed' = (Entry(c) = None)
  /\ completed' = [d \in Call |->
       IF d = Entry(c) /\ completed[d] = None
       THEN [call |-> c, code |-> answer[c]] ELSE completed[d]]
  /\ UNCHANGED <<callVars, commandHandleCounter, activeCallbacksMap, answer,
                 overwritten>>

-----------------------------------------------------------------------------
(***************************************************************************)
(* waitForCallbackResult                                                   *)
(***************************************************************************)

CheckPrepared(c) ==
  /\ \/ Entry(c) # None /\ Goto(c, "waiting", "getting")
     \/ Entry(c) = None /\ Goto(c, "waiting", "lost")
  /\ UNCHANGED <<handle, deferred, commandHandleCounter,
                 activeCallbacksMap, completed, native, crashed, answer,
                 overwritten>>

\* Mistaken variant: the entry is removed before its deferred is awaited.
TakeDeferred(c) ==
  /\ Entry(c) # None
  /\ Goto(c, "getting", "awaiting")
  /\ deferred' = [deferred EXCEPT ![c] = Entry(c)]
  /\ activeCallbacksMap' = [activeCallbacksMap EXCEPT ![handle[c]] = None]
  /\ UNCHANGED <<handle, commandHandleCounter, completed, native, crashed,
                 answer, overwritten>>

GetDeferred(c) ==
  /\ \/ Entry(c) # None /\ Goto(c, "getting", "awaiting")
     \/ Entry(c) = None /\ Goto(c, "getting", "lost")
  /\ deferred' = [deferred EXCEPT ![c] = Entry(c)]
  /\ UNCHANGED <<handle, commandHandleCounter, activeCallbacksMap,
                 completed, native, crashed, answer, overwritten>>

\* Mistaken variant: an exception is thrown before the entry is removed.
ThrowFirst(c) ==
  LET value == completed[deferred[c]] IN
  /\ pc[c] = "awaiting"
  /\ value # None
  /\ \/ /\ value.code = "ok"
        /\ Goto(c, "awaiting", "returned")
        /\ activeCallbacksMap' = [activeCallbacksMap EXCEPT ![handle[c]] = None]
     \/ /\ value.code = "error"
        /\ Goto(c, "awaiting", "thrown")
        /\ UNCHANGED activeCallbacksMap
  /\ UNCHANGED <<handle, deferred, commandHandleCounter, completed, native,
                 crashed, answer, overwritten>>

\* The value of a deferred does not change any more, so that resuming from
\* await() and remove() are one step.
Await(c) ==
  LET value == completed[deferred[c]] IN
  /\ pc[c] = "awaiting"
  /\ value # None
  /\ \/ value.code = "ok" /\ Goto(c, "awaiting", "returned")
     \/ value.code = "error" /\ Goto(c, "awaiting", "thrown")
  /\ activeCallbacksMap' = [activeCallbacksMap EXCEPT ![handle[c]] = None]
  /\ UNCHANGED <<handle, deferred, commandHandleCounter, completed, native,
                 crashed, answer, overwritten>>

-----------------------------------------------------------------------------
CallStep(c) ==
  \/ ReadCounter(c) \/ WriteCounter(c) \/ CheckHandle(c) \/ PutDeferred(c)
  \/ CallNative(c) \/ CheckPrepared(c) \/ GetDeferred(c) \/ Await(c)

CallbackStep(c) == FindEntry(c) \/ CompleteEntry(c)

Next == \E c \in Call : CallStep(c) \/ CallbackStep(c)

Spec == Init /\ [][Next]_vars

-----------------------------------------------------------------------------
(***************************************************************************)
(* Properties                                                              *)
(***************************************************************************)

Under(c) == pc[c] \in Preparing \cup Waiting

\* A call ends with its own answer, not with that of another one, as long as no
\* put has replaced an entry: whatever threads race for the counter, however
\* handles are used again after a wrap, and whether libindy answers before or
\* after the thread waits.
Phase(c) ==
  IF pc[c] = "idle" THEN "idle"
  ELSE IF Under(c) THEN "active"
  ELSE IF pc[c] = "returned" /\ completed[deferred[c]].call # c THEN "stolen"
  ELSE pc[c]

Contract == INSTANCE NativeCalls WITH phase <- [c \in Call |-> Phase(c)]

ContractSpec == Contract!Init /\ [][overwritten' \/ [Contract!Next]_(Contract!vars)]_vars

\* Callbacks find their entry: "Attempt to set callback result for unprepared
\* callback" is never thrown, unless an entry has been replaced.
CallbacksAreExpected == crashed => overwritten

\* An entry of the map belongs to a call that is under way, also after errors.
EntriesAreInUse ==
  ~overwritten =>
    \A h \in Handle :
      activeCallbacksMap[h] # None =>
        /\ pc[activeCallbacksMap[h]] \in Waiting
        /\ handle[activeCallbacksMap[h]] = h

\* The answer to a call waits for it: a call that libindy has answered finds its
\* entry, completed with that answer, whatever its thread has still to do.  (It
\* ends then: none of its steps waits for anything else.)
AnswersAreKept ==
  ~overwritten =>
    \A c \in Call :
      native[c] = "done" /\ Under(c) =>
        /\ Entry(c) = c
        /\ completed[c] = [call |-> c, code |-> answer[c]]

\* A handle is prepared for one call at a time (prepareCallback: "Attempt to
\* prepare callback for commandHandle = ... which is already exist").
PreparedOnce == ~overwritten

=============================================================================
