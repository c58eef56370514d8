---------------------------- MODULE StateManager ----------------------------
(***************************************************************************)
(* application/state/manager.go: the single-process store that serializes  *)
(* every mutation of the browser sessions and owns the cancellation of the *)
(* external calls that run outside its lock.                               *)
(*                                                                         *)
(* The module has no specification of its own.  It declares the manager's  *)
(* state and writes each method as an operator; the use cases extend it    *)
(* and call these operators in their actions, one action per critical      *)
(* section of Manager.mu.                                                  *)
(*                                                                         *)
(* A lease (Browser.Pending) is represented by its generation.  Generation *)
(* is a fresh random identifier per call of a use case, so a generation    *)
(* and the call that drew it are one element of Ops.                       *)
(*                                                                         *)
(* The durable file is not a separate variable: Save replaces it by one    *)
(* rename before the candidate is published, and leaves it alone when it   *)
(* fails, so outside the lock the file always holds the published value.   *)
(***************************************************************************)

CONSTANTS
  Sessions,   \* browser sessions
  Ops,        \* calls of Send, TaskInput and their refusals; one generation each
  NoLease     \* Browser.Pending = nil

VARIABLES
  pending,    \* [Sessions -> Ops \cup {NoLease}]: the published leases
  closed,     \* Manager.closed
  cancels,    \* keys of Manager.cancels: registered cancellation functions
  abandoned,  \* keys of Manager.abandoned: leases whose worker is gone
  cancelled   \* calls whose context has been cancelled

mgrVars == <<pending, closed, cancels, abandoned, cancelled>>

MgrTypeOK ==
  /\ pending \in [Sessions -> Ops \cup {NoLease}]
  /\ closed \in BOOLEAN
  /\ cancels \subseteq Ops
  /\ abandoned \subseteq Ops
  /\ cancelled \subseteq Ops

MgrInit ==
  /\ pending = [s \in Sessions |-> NoLease]
  /\ closed = FALSE
  /\ cancels = {}
  /\ abandoned = {}
  /\ cancelled = {}

(***************************************************************************)
(* Update, first part: the candidate every change function receives.  A    *)
(* lease whose worker could not save its result is cleared here, in the    *)
(* candidate only: if the change or the save fails it is still there.      *)
(***************************************************************************)
Candidate ==
  [s \in Sessions |-> IF pending[s] \in abandoned THEN NoLease ELSE pending[s]]

Live(leases) == {leases[s] : s \in Sessions} \ {NoLease}

(***************************************************************************)
(* Update, last part, after a successful save: publish the candidate and   *)
(* cancel every registered call whose lease is no longer in it.            *)
(***************************************************************************)
Publish(leases) ==
  /\ ~closed
  /\ pending' = leases
  /\ cancels' = cancels \cap Live(leases)
  /\ cancelled' = cancelled \cup (cancels \ Live(leases))
  /\ UNCHANGED <<closed, abandoned>>

\* State.Owns on the published value.
Owns(s, o) == pending[s] = o

\* Fault: the call registers without asking whether it still owns the lease.
AttachLease_Unchecked(s, o) ==
  /\ cancels' = cancels \cup {o}
  /\ UNCHANGED <<pending, closed, abandoned, cancelled>>

\* Fault: the registry is keyed by the session instead of the generation.
AttachLease_BySession(s, o) ==
  /\ cancels' = cancels \cup {s}
  /\ UNCHANGED <<pending, closed, abandoned, cancelled>>

\* Attach: a pause or a deletion may have won before the call was registered.
AttachLease(s, o) ==
  /\ \/ /\ closed \/ ~Owns(s, o)
        /\ cancelled' = cancelled \cup {o}
        /\ UNCHANGED cancels
     \/ /\ ~closed /\ Owns(s, o)
        /\ cancels' = cancels \cup {o}
        /\ UNCHANGED cancelled
  /\ UNCHANGED <<pending, closed, abandoned>>

\* Fault: a lease left behind by a failed save is not marked.
DetachLease_Forgets(o) ==
  /\ cancels' = cancels \ {o}
  /\ cancelled' = cancelled \cup {o}
  /\ UNCHANGED <<pending, closed, abandoned>>

\* Detach, with the caller's own deferred cancel.  A lease that is still
\* published although its worker is leaving is marked for reclamation.
DetachLease(o) ==
  /\ cancels' = cancels \ {o}
  /\ cancelled' = cancelled \cup {o}
  /\ abandoned' = IF o \in Live(pending) THEN abandoned \cup {o} ELSE abandoned
  /\ UNCHANGED <<pending, closed>>

\* Close: no mutation is accepted any more, every registered call is cancelled.
CloseManager ==
  /\ ~closed
  /\ closed' = TRUE
  /\ cancelled' = cancelled \cup cancels
  /\ cancels' = {}
  /\ UNCHANGED <<pending, abandoned>>

\* The process stops, at any point, and starts again: statejson.Open clears
\* every durable lease (normalize) before New builds an empty manager on it.
ReopenManager ==
  /\ pending' = [s \in Sessions |-> NoLease]
  /\ closed' = FALSE
  /\ cancels' = {}
  /\ abandoned' = {}
  /\ UNCHANGED cancelled
=============================================================================
