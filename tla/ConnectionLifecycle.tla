------------------------- MODULE ConnectionLifecycle -------------------------
(***************************************************************************)
(* What the wallet promises about a connection that this agent initiated:  *)
(* its record goes through the states of the protocol in their order, it   *)
(* completes once, after the peer has answered, with the key of that peer, *)
(* it keeps that key from then on, and an abandoned record never changes.  *)
(***************************************************************************)
CONSTANTS Connection, VerKey, KeyOf, None

VARIABLES
  status,   \* Connection.state of the record, or "absent"
  peer,     \* Connection.peerVerkey of the record
  answered  \* connections whose peer has sent a response

vars == <<status, peer, answered>>

Init ==
  /\ status = [c \in Connection |-> "absent"]
  /\ peer = [c \in Connection |-> None]
  /\ answered = {}

\* The record of c goes from one state to the next.
Move(c, from, to) ==
  /\ status[c] = from
  /\ status' = [status EXCEPT ![c] = to]
  /\ UNCHANGED answered

Invite(c)  == Move(c, "absent", "START") /\ UNCHANGED peer
Decline(c) == Move(c, "START", "Abandoned") /\ UNCHANGED peer
Request(c) == Move(c, "START", "RequestSent") /\ UNCHANGED peer

Answer(c) ==
  /\ status[c] # "absent"
  /\ answered' = answered \cup {c}
  /\ UNCHANGED <<status, peer>>

Complete(c) ==
  /\ c \in answered
  /\ Move(c, "RequestSent", "Complete")
  /\ peer' = [peer EXCEPT ![c] = KeyOf[c]]

Abandon(c) == Move(c, "Complete", "Abandoned") /\ UNCHANGED peer

Next == \E c \in Connection :
  \/ Invite(c)
  \/ Decline(c)
  \/ Request(c)
  \/ Answer(c)
  \/ Complete(c)
  \/ Abandon(c)

Spec == Init /\ [][Next]_vars
=============================================================================
