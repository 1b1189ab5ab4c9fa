---------------------------- MODULE AgentSession ----------------------------
(***************************************************************************)
(* What SsiAgentApi.init() comes to for an application: in the life of a   *)
(* process it goes through once.  It throws away the wallet that it finds, *)
(* with the credentials in it, and makes a new one; when it has returned,  *)
(* the agent runs on that wallet and takes credentials into it until the   *)
(* process ends.  If it throws behind the opening of the pool, then        *)
(* nothing but the end of the process makes another start possible.        *)
(***************************************************************************)
EXTENDS Naturals

CONSTANT Cred

VARIABLES
  phase,   \* how far this process has come
  wallet,  \* the wallet on the disk, 0: there is none
  made,    \* how many wallets have been made
  held     \* the credentials in the wallet

vars == <<phase, wallet, made, held>>

Init ==
  /\ phase = "down"
  /\ wallet = 0
  /\ made = 0
  /\ held = {}

Step(from, to) == phase = from /\ phase' = to

Begin == Step("down", "clearing") /\ UNCHANGED <<wallet, made, held>>

Clear ==
  /\ Step("clearing", "clearing")
  /\ wallet' = 0
  /\ held' = {}
  /\ UNCHANGED made

Make ==
  /\ Step("clearing", "ready")
  /\ wallet = 0
  /\ made' = made + 1
  /\ wallet' = made'
  /\ held' = {}

Run == Step("ready", "up") /\ UNCHANGED <<wallet, made, held>>

Break ==
  /\ Step("clearing", "broken") \/ Step("ready", "broken")
  /\ UNCHANGED <<wallet, made, held>>

Receive ==
  /\ Step("up", "up")
  /\ \E c \in Cred : held' = held \cup {c}
  /\ UNCHANGED <<wallet, made>>

End == phase' = "down" /\ UNCHANGED <<wallet, made, held>>

Next == Begin \/ Clear \/ Make \/ Run \/ Break \/ Receive \/ End

Spec == Init /\ [][Next]_vars
=============================================================================
