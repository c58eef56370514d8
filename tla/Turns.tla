------------------------------- MODULE Turns -------------------------------
(***************************************************************************)
(* What the state manager and its callers promise together about the calls *)
(* of one backend (docs/backend-refactoring-plan.md, "Границы              *)
(* конкурентности, commit и cancellation"): in a browser session at most   *)
(* one call is open at a time, an open call ends, and it ends exactly once *)
(* - its outcome is published as a whole, or it is dropped for good.       *)
(***************************************************************************)
CONSTANTS Calls, SessionOf

VARIABLE turn   \* [Calls -> {"idle", "open", "published", "dropped"}]

TurnInit == turn = [c \in Calls |-> "idle"]

Open(c) ==
  /\ turn[c] = "idle"
  /\ \A d \in Calls : SessionOf[d] = SessionOf[c] => turn[d] # "open"
  /\ turn' = [turn EXCEPT ![c] = "open"]

Accept(c) ==
  /\ turn[c] = "open"
  /\ turn' = [turn EXCEPT ![c] = "published"]

\* Refused before it opened, or open and paused, deleted, failed to save, or
\* lost with the process: a crash drops every open call at once.
Drop(D) ==
  /\ \A c \in D : turn[c] \in {"idle", "open"}
  /\ turn' = [c \in Calls |-> IF c \in D THEN "dropped" ELSE turn[c]]

TurnNext ==
  \/ \E c \in Calls : Open(c) \/ Accept(c)
  \/ \E D \in SUBSET Calls : Drop(D)

Ends(c) == turn[c] = "open" /\ (Accept(c) \/ \E D \in SUBSET Calls : c \in D /\ Drop(D))

SafeTurns == TurnInit /\ [][TurnNext]_turn

TurnSpec == SafeTurns /\ \A c \in Calls : WF_turn(Ends(c))
=============================================================================
