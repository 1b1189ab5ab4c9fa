---------------------------- MODULE HolderAgent -----------------------------
(***************************************************************************)
(* The start of the agent and the presentations that it makes, together:   *)
(* the listener runs once init() has launched it, init() may be called     *)
(* again while a presentation is under way, and the process may end.       *)
(* What a presentation is made of lies in the wallet that init() deletes.  *)
(***************************************************************************)
EXTENDS AgentStart, Presentation

vars == <<startVars, presentationVars>>

TypeOK == StartTypeOK /\ PresentationTypeOK

Init == StartInit /\ PresentationInit

\* A wallet that is deleted takes the credentials with it.
Start ==
  /\ \E i \in Caller : CallInit(i) \/ InitStep(i) \/ Fail(i)
  /\ IF wallet' = wallet THEN UNCHANGED held ELSE held' = {}
  /\ UNCHANGED <<step, requestVars, cause>>

ProcessEnds ==
  /\ Crash
  /\ Wait
  /\ UNCHANGED held

Listen ==
  /\ listeners > 0
  /\ PresentationNext
  /\ UNCHANGED startVars

Next == Start \/ ProcessEnds \/ Listen

Spec == Init /\ [][Next]_vars

FairSpec == Spec /\ StartFairness

\* A presentation is only made by an agent that has started, of credentials that
\* are still in its wallet when the proof is created.
PresentedIsHeld ==
  step \notin {"receive", "dead"} =>
    /\ listeners = 1
    /\ \A i \in Item : chosen[i] \in held \cup {None}

-----------------------------------------------------------------------------
\* How far init() has come in this process.
Phase ==
  IF ~opened THEN "down"
  ELSE IF listeners > 0 THEN "up"
  ELSE IF \E i \in Caller : pc[i] \in {"findWallet", "deleteWallet", "createWallet"} THEN "clearing"
  ELSE IF \E i \in Caller : pc[i] \in InsidePC THEN "ready"
  ELSE "broken"

Session == INSTANCE AgentSession WITH phase <- Phase, made <- last

\* Over all calls of init() and all ends of the process, the agent runs at most once
\* in a process, on a wallet of that process, with no credential of an earlier one;
\* and a start that breaks off behind the opening of the pool cannot be repeated in
\* its process (IndyLedgerConnector.init leaves the pool open).
SessionSpec == Session!Spec

=============================================================================
