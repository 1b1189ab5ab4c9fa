-------------------------- MODULE MessageTransport --------------------------
(***************************************************************************)
(* What the agent may assume of a Transport (sendMessage and               *)
(* receiveNextMessage): a call of sendMessage ends at most once, with its  *)
(* message delivered, dropped or refused by an exception; and              *)
(* receiveNextMessage returns the messages of a source in the order in     *)
(* which they were sent, none twice and none left out.                     *)
(***************************************************************************)
EXTENDS Naturals

CONSTANTS Call, Source, None

VARIABLES
  outcome,  \* what has become of a call of sendMessage
  sent,     \* how many messages a source has sent
  taken,    \* how many of them receiveNextMessage has returned
  next      \* the message that it is about to return

vars == <<outcome, sent, taken, next>>

Init ==
  /\ outcome = [t \in Call |-> "pending"]
  /\ sent = [s \in Source |-> 0]
  /\ taken = [s \in Source |-> 0]
  /\ next = None

End(t, result) ==
  /\ outcome[t] = "pending"
  /\ outcome' = [outcome EXCEPT ![t] = result]
  /\ UNCHANGED <<sent, taken, next>>

Send(s) ==
  /\ sent' = [sent EXCEPT ![s] = @ + 1]
  /\ UNCHANGED <<outcome, taken, next>>

Choose(s) ==
  /\ next = None
  /\ taken[s] < sent[s]
  /\ next' = [from |-> s, number |-> taken[s] + 1]
  /\ UNCHANGED <<outcome, sent, taken>>

Return ==
  /\ next # None
  /\ taken' = [taken EXCEPT ![next.from] = @ + 1]
  /\ next' = None
  /\ UNCHANGED <<outcome, sent>>

Next ==
  \/ \E t \in Call, result \in {"delivered", "dropped", "thrown"} : End(t, result)
  \/ \E s \in Source : Send(s) \/ Choose(s)
  \/ Return

Spec == Init /\ [][Next]_vars
=============================================================================
