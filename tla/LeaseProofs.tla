----------------------------- MODULE LeaseProofs -----------------------------
(***************************************************************************)
(* Theorems about Lease for every set of sessions and calls: the safety    *)
(* invariants MCLease checks on three calls, and that the protocol         *)
(* implements the safety part of Turns.                                    *)
(***************************************************************************)
EXTENDS Lease, TLAPS

\* A call that has not started holds nothing and nothing is known about it.
IdleIsFresh ==
  \A o \in Ops : pc[o] = "idle" =>
    ~Owns(SessionOf[o], o) /\ o \notin revoked /\ o \notin results

\* Published and revoked calls have lost their lease for good.
EndedHoldsNothing ==
  \A o \in Ops :
    /\ o \in results => pc[o] \in {"returning", "exited"}
    /\ o \in revoked \cup results => ~Owns(SessionOf[o], o)

\* The strengthening of the safety invariants that one step preserves.
IInv ==
  /\ TypeOK
  /\ LeaseIsWorkedOrReclaimable
  /\ AbandonedIsDead
  /\ LostLeaseIsCancelled
  /\ CancelsMatchLiveCalls
  /\ IdleIsFresh
  /\ EndedHoldsNothing
  /\ RevokedNeverPublished

-----------------------------------------------------------------------------
(***************************************************************************)
(* What holds of a start and of one step.  Modules proving that a use case *)
(* follows this protocol cite these lemmas through their INSTANCE of it.   *)
(***************************************************************************)
LEMMA InitIsSafe == Init => IInv
  BY LeaseAssumption
     DEF Init, MgrInit, IInv, TypeOK, MgrTypeOK, Phases, LeaseIsWorkedOrReclaimable,
         AbandonedIsDead, LostLeaseIsCancelled, CancelsMatchLiveCalls, IdleIsFresh,
         EndedHoldsNothing, RevokedNeverPublished, Owns

LEMMA StepKeepsTypes == TypeOK /\ [Next]_vars => TypeOK'
<1> USE LeaseAssumption DEF TypeOK, MgrTypeOK
<1> SUFFICES ASSUME TypeOK, [Next]_vars PROVE TypeOK'
  OBVIOUS
<1> USE DEF Step, Phases, Publish, Candidate
<1>1. ASSUME NEW o \in Ops, Claim(o) PROVE TypeOK'
  BY <1>1 DEF Claim
<1>2. ASSUME NEW o \in Ops, ClaimRefused(o) PROVE TypeOK'
  BY <1>2 DEF ClaimRefused, mgrVars
<1>3. ASSUME NEW o \in Ops, Attach(o) PROVE TypeOK'
  BY <1>3 DEF Attach, AttachLease
<1>4. ASSUME NEW o \in Ops, Answer(o) PROVE TypeOK'
  BY <1>4 DEF Answer, mgrVars
<1>5. ASSUME NEW o \in Ops, Commit(o) PROVE TypeOK'
  BY <1>5 DEF Commit
<1>6. ASSUME NEW o \in Ops, CommitRefused(o) PROVE TypeOK'
  BY <1>6 DEF CommitRefused, mgrVars
<1>7. ASSUME NEW o \in Ops, Detach(o) PROVE TypeOK'
  BY <1>7 DEF Detach, DetachLease
<1>8. ASSUME NEW s \in Sessions, Revoke(s) PROVE TypeOK'
  BY <1>8 DEF Revoke
<1>9. CASE Mutate
  BY <1>9 DEF Mutate
<1>10. CASE Close
  BY <1>10 DEF Close, CloseManager
<1>11. CASE Restart
  BY <1>11 DEF Restart, ReopenManager
<1>12. CASE UNCHANGED vars
  BY <1>12 DEF vars, mgrVars
<1> QED
  BY <1>1, <1>2, <1>3, <1>4, <1>5, <1>6, <1>7, <1>8, <1>9, <1>10, <1>11, <1>12
     DEF Next, Work

LEMMA StepKeepsSafety == IInv /\ [Next]_vars => IInv'
<1> USE LeaseAssumption
<1> SUFFICES ASSUME TypeOK, TypeOK', IInv, [Next]_vars PROVE IInv'
  BY StepKeepsTypes DEF IInv
<1> USE DEF IInv, TypeOK, MgrTypeOK, LeaseIsWorkedOrReclaimable, AbandonedIsDead,
            LostLeaseIsCancelled, CancelsMatchLiveCalls, IdleIsFresh, EndedHoldsNothing,
            RevokedNeverPublished, Owns, Holding, Step
<1>1. ASSUME NEW o \in Ops, Claim(o) PROVE IInv'
  BY <1>1 DEF Claim, Publish, Candidate, Live
<1>2. ASSUME NEW o \in Ops, ClaimRefused(o) PROVE IInv'
  BY <1>2 DEF ClaimRefused, mgrVars
<1>3. ASSUME NEW o \in Ops, Attach(o) PROVE IInv'
  BY <1>3 DEF Attach, AttachLease
<1>4. ASSUME NEW o \in Ops, Answer(o) PROVE IInv'
  BY <1>4 DEF Answer, mgrVars
<1>5. ASSUME NEW o \in Ops, Commit(o) PROVE IInv'
  BY <1>5 DEF Commit, Publish, Candidate, Live
<1>6. ASSUME NEW o \in Ops, CommitRefused(o) PROVE IInv'
  BY <1>6 DEF CommitRefused, mgrVars
<1>7. ASSUME NEW o \in Ops, Detach(o) PROVE IInv'
  BY <1>7 DEF Detach, DetachLease, Live
<1>8. ASSUME NEW s \in Sessions, Revoke(s) PROVE IInv'
  BY <1>8 DEF Revoke, Publish, Candidate, Live
<1>9. ASSUME Mutate PROVE IInv'
  BY <1>9 DEF Mutate, Publish, Candidate, Live
<1>10. ASSUME Close PROVE IInv'
  BY <1>10 DEF Close, CloseManager
<1>11. ASSUME Restart PROVE IInv'
  BY <1>11 DEF Restart, ReopenManager
<1>12. ASSUME UNCHANGED vars PROVE IInv'
  BY <1>12 DEF vars, mgrVars
<1> QED
  BY <1>1, <1>2, <1>3, <1>4, <1>5, <1>6, <1>7, <1>8, <1>9, <1>10, <1>11, <1>12 DEF Next, Work

-----------------------------------------------------------------------------
\* The variables keep their types.
THEOREM Typing == Spec => []TypeOK
<1>1. Init => TypeOK
  BY InitIsSafe DEF IInv
<1> QED
  BY <1>1, StepKeepsTypes, PTL DEF Spec

(***************************************************************************)
(* The safety invariants hold in every reachable state: a lease is worked  *)
(* on or reclaimable, only dead calls are reclaimed, a call that lost its  *)
(* lease has been cancelled, the registry holds exactly the live calls,    *)
(* and a revoked call publishes nothing.                                   *)
(***************************************************************************)
THEOREM Safety == Spec => []IInv
  BY InitIsSafe, StepKeepsSafety, PTL DEF Spec

-----------------------------------------------------------------------------
(***************************************************************************)
(* A confirmed pause or deletion wins over the late answer of the call it  *)
(* interrupted, for any number of sessions and calls.                      *)
(***************************************************************************)
THEOREM RevocationWins == Spec => []RevokedNeverPublished
<1>1. IInv => RevokedNeverPublished
  BY DEF IInv
<1> QED
  BY <1>1, Safety, PTL

(***************************************************************************)
(* No session stays busy for good: every published lease has a worker that *)
(* will release it, or the next mutation reclaims it.                      *)
(***************************************************************************)
THEOREM NoLeaseIsStranded == Spec => []LeaseIsWorkedOrReclaimable
<1>1. IInv => LeaseIsWorkedOrReclaimable
  BY DEF IInv
<1> QED
  BY <1>1, Safety, PTL

(***************************************************************************)
(* No provider call is left running for a result nobody will accept.       *)
(***************************************************************************)
THEOREM UnwantedCallsAreCancelled == Spec => []LostLeaseIsCancelled
<1>1. IInv => LostLeaseIsCancelled
  BY DEF IInv
<1> QED
  BY <1>1, Safety, PTL

-----------------------------------------------------------------------------
(***************************************************************************)
(* The refinement of Turns.                                                *)
(***************************************************************************)
LEMMA InitTurns == Init => Abstract!TurnInit
  BY DEF Init, Abstract!TurnInit, TurnOf

LEMMA StepTakesTurns ==
  ASSUME IInv, [Next]_vars
  PROVE  [Abstract!TurnNext]_[o \in Ops |-> TurnOf(o)]
<1> USE LeaseAssumption
<1> DEFINE turn == [o \in Ops |-> TurnOf(o)]
<1>0. TypeOK /\ TypeOK' /\ IInv'
  BY StepKeepsTypes, StepKeepsSafety DEF IInv
<1> SUFFICES Abstract!TurnNext \/ turn' = turn
  OBVIOUS
<1> USE <1>0
<1> USE DEF IInv, TypeOK, MgrTypeOK, IdleIsFresh, EndedHoldsNothing, LeaseIsWorkedOrReclaimable,
            AbandonedIsDead, TurnOf, Owns, Holding, Step
<1>1. ASSUME NEW o \in Ops, Claim(o) PROVE Abstract!Open(o)
  <2> USE <1>1 DEF Claim, Publish, Candidate
  <2>1. TurnOf(o) = "idle" /\ TurnOf(o)' = "open"
    OBVIOUS
  <2>2. \A d \in Ops : SessionOf[d] = SessionOf[o] => TurnOf(d) # "open"
    OBVIOUS
  <2>3. \A d \in Ops \ {o} : TurnOf(d)' = TurnOf(d)
    OBVIOUS
  <2> HIDE <1>1 DEF IInv, TypeOK, MgrTypeOK, Claim, Publish, Candidate
  <2>4. turn' = [turn EXCEPT ![o] = "open"]
    BY <2>1, <2>3
  <2> QED
    BY <2>1, <2>2, <2>4 DEF Abstract!Open
<1>2. ASSUME NEW o \in Ops, ClaimRefused(o) PROVE Abstract!Drop({o})
  BY <1>2 DEF ClaimRefused, mgrVars, Abstract!Drop
<1>3. ASSUME NEW o \in Ops, Attach(o) PROVE turn' = turn
  BY <1>3 DEF Attach, AttachLease
<1>4. ASSUME NEW o \in Ops, Answer(o) PROVE turn' = turn
  BY <1>4 DEF Answer, mgrVars
<1>5. ASSUME NEW o \in Ops, Commit(o) PROVE Abstract!Accept(o)
  <2> USE <1>5 DEF Commit, Publish, Candidate
  <2>1. TurnOf(o) = "open" /\ TurnOf(o)' = "published"
    OBVIOUS
  <2>2. \A d \in Ops \ {o} : TurnOf(d)' = TurnOf(d)
    OBVIOUS
  <2> HIDE <1>5 DEF IInv, TypeOK, MgrTypeOK, Commit, Publish, Candidate
  <2>3. turn' = [turn EXCEPT ![o] = "published"]
    BY <2>1, <2>2
  <2> QED
    BY <2>1, <2>3 DEF Abstract!Accept
<1>6. ASSUME NEW o \in Ops, CommitRefused(o) PROVE turn' = turn
  BY <1>6 DEF CommitRefused, mgrVars
<1>7. ASSUME NEW o \in Ops, Detach(o) PROVE Abstract!Drop({o}) \/ turn' = turn
  BY <1>7 DEF Detach, DetachLease, Abstract!Drop
<1>8. ASSUME NEW s \in Sessions, Revoke(s)
      PROVE  pending[s] \in Ops /\ Abstract!Drop({pending[s]})
  BY <1>8 DEF Revoke, Publish, Candidate, Abstract!Drop
<1>9. ASSUME Mutate PROVE turn' = turn
  BY <1>9 DEF Mutate, Publish, Candidate
<1>10. ASSUME Close PROVE turn' = turn
  BY <1>10 DEF Close, CloseManager
<1>11. ASSUME Restart PROVE Abstract!Drop({o \in Ops : TurnOf(o) = "open"})
  BY <1>11 DEF Restart, ReopenManager, Abstract!Drop
<1>12. ASSUME UNCHANGED vars PROVE turn' = turn
  BY <1>12 DEF vars, mgrVars
<1> HIDE DEF IInv, TypeOK, TurnOf, turn
<1>13. ASSUME NEW o \in Ops, Claim(o) \/ ClaimRefused(o) \/ Work(o)
       PROVE  Abstract!TurnNext \/ turn' = turn
  BY <1>1, <1>2, <1>3, <1>4, <1>5, <1>6, <1>7, <1>13 DEF Work, Abstract!TurnNext
<1>14. ASSUME NEW s \in Sessions, Revoke(s) PROVE Abstract!TurnNext
  BY <1>8, <1>14 DEF Abstract!TurnNext
<1>15. ASSUME Restart PROVE Abstract!TurnNext
  BY <1>11, <1>15 DEF Abstract!TurnNext
<1> QED
  BY <1>9, <1>10, <1>12, <1>13, <1>14, <1>15 DEF Next

(***************************************************************************)
(* Every step of the protocol is a step of Turns or leaves it unchanged:   *)
(* one open call per session, each published as a whole or dropped once.   *)
(* (Liveness, the other half of ImplementsTurns, is model-checked.)        *)
(***************************************************************************)
THEOREM Refinement == Spec => Abstract!SafeTurns
  BY InitTurns, StepTakesTurns, Safety, PTL DEF Spec, Abstract!SafeTurns
=============================================================================
