------------------------------- MODULE Lease -------------------------------
(***************************************************************************)
(* The life of one call of conversation.Service.Send, taskflow.TaskInput   *)
(* or one of their refusals, seen from the state manager: claim the        *)
(* session's lease in one mutation, register the call's cancellation, work *)
(* outside the lock, commit in a second mutation, detach.  What is stored  *)
(* besides the lease is left to the modules of the use cases; here a       *)
(* commit only records that the call published its outcome.                *)
(*                                                                         *)
(* Around the calls run the mutations that take a lease away (PauseTask,   *)
(* DeleteChat, DeleteProject), every other mutation, the shutdown of the   *)
(* server and a crash with restart at any point.                           *)
(***************************************************************************)
EXTENDS StateManager

CONSTANT SessionOf   \* the browser session each call belongs to

ASSUME LeaseAssumption ==
  /\ SessionOf \in [Ops -> Sessions]
  /\ NoLease \notin Ops

VARIABLES
  pc,        \* control state of each call
  revoked,   \* calls whose lease a pause or a deletion has taken away
  results    \* calls whose final commit has been published

vars == <<mgrVars, pc, revoked, results>>

(***************************************************************************)
(* idle      - the call has not claimed the lease yet                      *)
(* claimed   - the lease is published, the call is not registered yet      *)
(* calling   - registered; model, checkers and extractor are being called  *)
(* answered  - the external calls have returned, the commit is next        *)
(* returning - the commit has been tried, Detach is next                   *)
(* exited    - the call has returned to its handler, or died with a crash  *)
(***************************************************************************)
Phases == {"idle", "claimed", "calling", "answered", "returning", "exited"}

Holding == {"claimed", "calling", "answered", "returning"}

Step(o, from, to) ==
  /\ pc[o] = from
  /\ pc' = [pc EXCEPT ![o] = to]

Init ==
  /\ MgrInit
  /\ pc = [o \in Ops |-> "idle"]
  /\ revoked = {}
  /\ results = {}

(***************************************************************************)
(* The call.                                                               *)
(***************************************************************************)

\* Fault: the claim does not look for another call's lease.
Claim_IgnoresBusy(o) ==
  /\ Step(o, "idle", "claimed")
  /\ Publish([Candidate EXCEPT ![SessionOf[o]] = o])
  /\ UNCHANGED <<revoked, results>>

\* The claiming mutation succeeds: nobody holds the session's lease.
Claim(o) ==
  /\ Step(o, "idle", "claimed")
  /\ Candidate[SessionOf[o]] = NoLease
  /\ Publish([Candidate EXCEPT ![SessionOf[o]] = o])
  /\ UNCHANGED <<revoked, results>>

\* Busy, not found, invalid, replayed, closed, or the save failed: nothing is
\* published and the call returns.
ClaimRefused(o) ==
  /\ Step(o, "idle", "exited")
  /\ UNCHANGED <<mgrVars, revoked, results>>

Attach(o) ==
  /\ Step(o, "claimed", "calling")
  /\ AttachLease(SessionOf[o], o)
  /\ UNCHANGED <<revoked, results>>

\* Fault: a call without a timeout hangs once its result is not wanted.
Answer_Hangs(o) ==
  /\ Step(o, "calling", "answered")
  /\ o \notin cancelled
  /\ UNCHANGED <<mgrVars, revoked, results>>

\* The last external call returns.  A provider may ignore the cancellation
\* and answer late, so being cancelled does not disable this step.
Answer(o) ==
  /\ Step(o, "calling", "answered")
  /\ UNCHANGED <<mgrVars, revoked, results>>

\* Fault: the commit forgets the ownership check.
Commit_NotOwner(o) ==
  /\ Step(o, "answered", "returning")
  /\ Publish([Candidate EXCEPT ![SessionOf[o]] = NoLease])
  /\ results' = results \cup {o}
  /\ UNCHANGED revoked

\* The final mutation: the call still owns the lease, publishes its outcome
\* and releases the lease in one save.
Commit(o) ==
  /\ Step(o, "answered", "returning")
  /\ Candidate[SessionOf[o]] = o
  /\ Publish([Candidate EXCEPT ![SessionOf[o]] = NoLease])
  /\ results' = results \cup {o}
  /\ UNCHANGED revoked

\* The final mutation is refused: the chat is gone, the lease is lost, the
\* manager is closed, or the save failed.  Nothing is published.
CommitRefused(o) ==
  /\ Step(o, "answered", "returning")
  /\ UNCHANGED <<mgrVars, revoked, results>>

Detach(o) ==
  /\ Step(o, "returning", "exited")
  /\ DetachLease(o)
  /\ UNCHANGED <<revoked, results>>

(***************************************************************************)
(* The rest of the program.                                                *)
(***************************************************************************)

\* PauseTask, DeleteChat, DeleteProject: the user takes the lease away.
Revoke(s) ==
  /\ Candidate[s] # NoLease
  /\ Publish([Candidate EXCEPT ![s] = NoLease])
  /\ revoked' = revoked \cup {Candidate[s]}
  /\ UNCHANGED <<pc, results>>

\* Any other mutation that is saved: a rename, a selection, a new chat.
Mutate ==
  /\ Publish(Candidate)
  /\ UNCHANGED <<pc, revoked, results>>

Close ==
  /\ CloseManager
  /\ UNCHANGED <<pc, revoked, results>>

\* Calls in flight die with the process; their contexts die with them.
Restart ==
  /\ ReopenManager
  /\ pc' = [o \in Ops |-> IF pc[o] = "idle" THEN "idle" ELSE "exited"]
  /\ UNCHANGED <<revoked, results>>

Work(o) ==
  Attach(o) \/ Answer(o) \/ Commit(o) \/ CommitRefused(o) \/ Detach(o)

Next ==
  \/ \E o \in Ops : Claim(o) \/ ClaimRefused(o) \/ Work(o)
  \/ \E s \in Sessions : Revoke(s)
  \/ Mutate \/ Close \/ Restart

\* A call that has started runs on: goroutines are scheduled and every
\* external call has a timeout.  Users owe nothing.
Fairness == \A o \in Ops : WF_vars(Work(o))

Spec == Init /\ [][Next]_vars /\ Fairness

-----------------------------------------------------------------------------
TypeOK ==
  /\ MgrTypeOK
  /\ pc \in [Ops -> Phases]
  /\ revoked \subseteq Ops
  /\ results \subseteq Ops

(***************************************************************************)
(* A published lease belongs to a call of that session that is still at    *)
(* work, or is marked for reclamation: no session can stay busy for good   *)
(* (the claim, Attach, Detach and failed-save paths together).             *)
(***************************************************************************)
LeaseIsWorkedOrReclaimable ==
  \A s \in Sessions : pending[s] # NoLease =>
    /\ SessionOf[pending[s]] = s
    /\ pc[pending[s]] \in Holding \/ pending[s] \in abandoned

(***************************************************************************)
(* Only the lease of a call that has returned is reclaimed: Update never   *)
(* takes a lease from under a worker that could still commit.              *)
(***************************************************************************)
AbandonedIsDead == \A o \in abandoned : pc[o] = "exited"

(***************************************************************************)
(* A registered call that lost its lease, or outlived Close, has been told *)
(* to stop: whichever of Attach, Update, Close and Detach came first, no   *)
(* provider call is left running for a result nobody will accept.          *)
(***************************************************************************)
LostLeaseIsCancelled ==
  \A o \in Ops :
    pc[o] \in {"calling", "answered"} /\ (closed \/ ~Owns(SessionOf[o], o))
      => o \in cancelled

(***************************************************************************)
(* Manager.cancels holds exactly the calls that could still be cancelled   *)
(* usefully: an entry has a live lease and a running worker, and a running *)
(* worker with a live lease has an entry.  No entry leaks, none is lost.   *)
(***************************************************************************)
CancelsMatchLiveCalls ==
  /\ \A o \in cancels :
       Owns(SessionOf[o], o) /\ pc[o] \in {"calling", "answered", "returning"}
  /\ \A o \in Ops :
       pc[o] \in {"calling", "answered"} /\ Owns(SessionOf[o], o) /\ ~closed
         => o \in cancels

(***************************************************************************)
(* A pause or a deletion that has been confirmed wins over the late answer *)
(* of the call it interrupted: that call never publishes anything.         *)
(***************************************************************************)
RevokedNeverPublished == revoked \cap results = {}

(***************************************************************************)
(* A call that has claimed the lease returns to its handler, whatever      *)
(* happens to its lease, its saves and its session in the meantime.        *)
(***************************************************************************)
ClaimedCallReturns ==
  \A o \in Ops : pc[o] = "claimed" ~> pc[o] = "exited"

(***************************************************************************)
(* The same calls as Turns sees them.  A call that has returned with its   *)
(* lease still published is already dropped: Update will only ever clear   *)
(* that lease.                                                             *)
(***************************************************************************)
TurnOf(o) ==
  IF o \in results THEN "published"
  ELSE IF pc[o] = "idle" THEN "idle"
  ELSE IF pc[o] \in Holding /\ Owns(SessionOf[o], o) THEN "open"
  ELSE "dropped"

Abstract == INSTANCE Turns WITH Calls <- Ops, turn <- [o \in Ops |-> TurnOf(o)]

(***************************************************************************)
(* The lease protocol implements Turns: one open call per session, and     *)
(* every open call is published once as a whole or dropped for good.       *)
(***************************************************************************)
ImplementsTurns == Abstract!TurnSpec
=============================================================================
