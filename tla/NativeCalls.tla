----------------------------- MODULE NativeCalls ----------------------------
(***************************************************************************)
(* What the wrappers of libindy (Wallet, WalletRecord, Did, Ledger, ...)   *)
(* assume of CallbackHandler: a call ends at most once, after libindy has  *)
(* answered it, with the answer to this very call: its value, or an        *)
(* IndyException for an error.  A call may instead be rejected, but only   *)
(* while another one is under way.                                         *)
(***************************************************************************)
CONSTANT Call

VARIABLES
  phase,  \* what has become of a call
  answer  \* what libindy has answered

vars == <<phase, answer>>

Init ==
  /\ phase = [c \in Call |-> "idle"]
  /\ answer = [c \in Call |-> "none"]

Begin(c) ==
  /\ phase[c] = "idle"
  /\ phase' = [phase EXCEPT ![c] = "active"]
  /\ UNCHANGED answer

Answer(c, code) ==
  /\ phase[c] = "active"
  /\ answer[c] = "none"
  /\ answer' = [answer EXCEPT ![c] = code]
  /\ UNCHANGED phase

Reject(c) ==
  /\ phase[c] = "active"
  /\ answer[c] = "none"
  /\ \E d \in Call \ {c} : phase[d] = "active"
  /\ phase' = [phase EXCEPT ![c] = "rejected"]
  /\ UNCHANGED answer

Return(c) ==
  /\ phase[c] = "active"
  /\ answer[c] = "ok"
  /\ phase' = [phase EXCEPT ![c] = "returned"]
  /\ UNCHANGED answer

Throw(c) ==
  /\ phase[c] = "active"
  /\ answer[c] = "error"
  /\ phase' = [phase EXCEPT ![c] = "thrown"]
  /\ UNCHANGED answer

Next ==
  \E c \in Call :
    \/ Begin(c) \/ Reject(c) \/ Return(c) \/ Throw(c)
    \/ \E code \in {"ok", "error"} : Answer(c, code)

Spec == Init /\ [][Next]_vars
=============================================================================
