---------------------------- MODULE TaskMachine ----------------------------
(***************************************************************************)
(* The life of one task of a chat: how taskflow.TaskInput drives it from   *)
(* its creation to done through a chain of accepted proposals, and what    *)
(* pauses, failures, refusals and restarts leave of it on disk.            *)
(*                                                                         *)
(* One attempt (a call of TaskInput) works on a snapshot in memory, next;  *)
(* task is what is stored.  The lease that keeps attempts apart is the     *)
(* subject of Lease; here at most one attempt exists at a time.            *)
(***************************************************************************)
EXTENDS TaskProposal, Naturals

CONSTANTS
  NoTask,      \* the chat has no such task
  NoAttempt,   \* no call of TaskInput is working on the task
  MaxSteps     \* maxAutonomousSteps

VARIABLES
  task,      \* the stored task
  attempt,   \* the attempt in progress
  ledger,    \* the operations of the task: "none", one is "committed", or all "open"
  migrated   \* the task comes from a file of an older version (history)

vars == <<task, attempt, ledger, migrated>>

\* base: what a refusal restores; next: the snapshot after the accepted steps.
Attempts ==
  [base : Tasks \cup {NoTask}, next : Tasks, first : BOOLEAN,
   steps : 0 .. MaxSteps, opened : {"none", "open", "committed"}]

ASSUME TaskMachineAssumption ==
  /\ MaxSteps \in Nat \ {0}
  /\ NoTask \notin Tasks /\ NoAttempt \notin Attempts

NewTask ==
  [stage |-> "clarify_input", status |-> "active", expects |-> "user", plan |-> EmptyPlan,
   current |-> NoItem, gate |-> "not_validated", legacy |-> FALSE]

\* What normalize makes of a task stored before validation_result existed.
MigratedTasks ==
  {t \in Tasks : /\ ValidateTaskPlan(t, FALSE)
                 /\ t.gate = "not_validated"
                 /\ t.legacy = Final(t)
                 /\ ValidationItem \notin DOMAIN t.plan}

\* An empty chat, or one from a file of an older version.
Init ==
  /\ task \in MigratedTasks \cup {NoTask}
  /\ attempt = NoAttempt
  /\ ledger = "none"
  /\ migrated = (task # NoTask)

-----------------------------------------------------------------------------
\* Fault: the appended item does not become the current one.
Rewritten_KeepsCurrent(t) ==
  IF t.stage = "user_feedback" /\ t.status = "active" /\ t.legacy
    THEN [t EXCEPT !.stage = "execution", !.legacy = FALSE, !.expects = "agent"]
    ELSE t

\* A migrated result of an active task is sent back to prove itself.
Rewritten(t) ==
  IF t.stage = "user_feedback" /\ t.status = "active" /\ t.legacy
    THEN [t EXCEPT
            !.stage = "execution", !.gate = "not_validated", !.legacy = FALSE,
            !.expects = "agent", !.current = ValidationItem,
            !.plan = [i \in DOMAIN t.plan \cup {ValidationItem} |->
                        IF i \in DOMAIN t.plan THEN t.plan[i]
                        ELSE [status |-> "current", label |-> "execution"]]]
    ELSE t

\* The claim of an input the router does not attribute to an existing task.
Create ==
  /\ task = NoTask /\ attempt = NoAttempt
  /\ task' = NewTask
  /\ attempt' = [base |-> NoTask, next |-> NewTask, first |-> TRUE, steps |-> 0,
                 opened |-> ledger]
  /\ ledger' = "open"
  /\ UNCHANGED migrated

(***************************************************************************)
(* An input is the first one until an operation of the task was committed. *)
(* A migrated task may have none: then the messages of its chat count as   *)
(* confirmed history, but only while no task of the chat has an operation. *)
(***************************************************************************)
FirstInput == IF ledger = "none" THEN BOOLEAN ELSE {ledger = "open"}

\* Fault: only the latest operation of the task tells whether it was answered.
Input_LatestOnly ==
  /\ task # NoTask /\ attempt = NoAttempt
  /\ task.status # "done"
  /\ \E first \in FirstInput :
       LET base == Rewritten(task)
       IN  /\ task' = [base EXCEPT !.status = "active"]
           /\ attempt' = [base |-> base, next |-> base, first |-> first, steps |-> 0,
                          opened |-> ledger]
  /\ ledger' = "open"
  /\ UNCHANGED migrated

\* The claim of an input to this task: it becomes active at once.
Input ==
  /\ task # NoTask /\ attempt = NoAttempt
  /\ task.status # "done"
  /\ \E first \in FirstInput :
       LET base == Rewritten(task)
       IN  /\ task' = [base EXCEPT !.status = "active"]
           /\ attempt' = [base |-> base, next |-> base, first |-> first, steps |-> 0,
                          opened |-> ledger]
  /\ ledger' = IF ledger = "committed" THEN "committed" ELSE "open"
  /\ UNCHANGED migrated

\* The first proposal of a first input, which has to ask.
Opening(a) == a.first /\ a.steps = 0

\* The chain goes on while the agent is expected to act.
Continues(a) == a.steps = 0 \/ ExpectsAgent(a.next)

\* Fault: nothing counts the steps of the chain.
Step_Unbounded ==
  /\ attempt # NoAttempt
  /\ Continues(attempt)
  /\ \E p \in Candidates :
       /\ Accepts(attempt.next, p, Opening(attempt))
       /\ attempt' = [attempt EXCEPT !.next = Gated(attempt.next, p), !.steps = @ + 1]
  /\ UNCHANGED <<task, ledger, migrated>>

\* One of three candidates is decoded, accepted and cleared by the checkers.
Step ==
  /\ attempt # NoAttempt
  /\ Continues(attempt) /\ attempt.steps < MaxSteps
  /\ \E p \in Candidates :
       /\ Accepts(attempt.next, p, Opening(attempt))
       /\ attempt' = [attempt EXCEPT !.next = Gated(attempt.next, p), !.steps = @ + 1]
  /\ UNCHANGED <<task, ledger, migrated>>

\* The extractor has answered: task, messages and facts are saved in one step.
Commit ==
  /\ attempt # NoAttempt
  /\ ~Continues(attempt)
  /\ task' = attempt.next
  /\ attempt' = NoAttempt
  /\ ledger' = "committed"
  /\ UNCHANGED migrated

\* Three candidates rejected, the call budget or the steps used up, or a
\* checker failed: restoreProvisionalTask.
Refuse ==
  /\ attempt # NoAttempt
  /\ Continues(attempt)
  /\ task' = attempt.base
  /\ ledger' = attempt.opened
  /\ attempt' = NoAttempt
  /\ UNCHANGED migrated

\* The model, the extractor or the final save failed: the input can be retried.
Fail ==
  /\ attempt # NoAttempt
  /\ attempt' = NoAttempt
  /\ UNCHANGED <<task, ledger, migrated>>

\* Fault: the pause keeps what the interrupted chain had reached.
PauseTask_KeepsChain ==
  /\ task # NoTask /\ task.status # "done"
  /\ task' = [(IF attempt = NoAttempt THEN task ELSE attempt.next) EXCEPT !.status = "paused"]
  /\ attempt' = NoAttempt
  /\ UNCHANGED <<ledger, migrated>>

\* The user's pause, or the one that follows a failed Resume.
PauseTask ==
  /\ task # NoTask /\ task.status # "done"
  /\ task' = [task EXCEPT !.status = "paused"]
  /\ attempt' = NoAttempt
  /\ UNCHANGED <<ledger, migrated>>

\* normalize pauses the task of an operation that was pending.
Restart ==
  /\ attempt # NoAttempt
  /\ task' = [task EXCEPT !.status = "paused"]
  /\ attempt' = NoAttempt
  /\ UNCHANGED <<ledger, migrated>>

Next ==
  \/ Create \/ Input \/ Step \/ Commit \/ Refuse \/ Fail
  \/ PauseTask \/ Restart

Spec == Init /\ [][Next]_vars

-----------------------------------------------------------------------------
TypeOK ==
  /\ task \in Tasks \cup {NoTask}
  /\ attempt \in Attempts \cup {NoAttempt}
  /\ ledger \in {"none", "open", "committed"}
  /\ migrated \in BOOLEAN

(***************************************************************************)
(* What is on disk can be read back: statejson.Open validates every task   *)
(* with the same rules and refuses the whole file if one breaks them, so   *)
(* no claim, chain, pause, refusal or crash may leave an invalid snapshot. *)
(***************************************************************************)
StoredTaskIsValid == task # NoTask => ValidateTaskPlan(task, FALSE)

\* Stored tasks only ever become done; done is terminal.
Done(t) == t # NoTask /\ t.status = "done"

(***************************************************************************)
(* A finished task carries the evidence of the gate (AC-TSM-05) or the     *)
(* mark of an older file, and no proposal, claim or restore ever puts that *)
(* mark on a task that came without it.                                    *)
(***************************************************************************)
Unproved(t) == t # NoTask /\ t.legacy

DoneIsValidated ==
  [][/\ ~Done(task) /\ Done(task)' => task.gate' = "passed" \/ Unproved(task)
     /\ Unproved(task)' => Unproved(task)]_vars

(***************************************************************************)
(* The same of tasks from older files: taskflow/service.go says such a     *)
(* task "can never become done directly, even if the input sounds          *)
(* positive", .specs/task-state-machine that a paused one follows the same *)
(* rule after Resume.                                                      *)
(***************************************************************************)
LegacyIsValidated == [][~Done(task) /\ Done(task)' => task.gate' = "passed"]_vars

(***************************************************************************)
(* Completed plan items are never lost or reopened, whatever happens to    *)
(* the attempts that follow.                                               *)
(***************************************************************************)
CompletedWorkIsKept ==
  [][task # NoTask /\ task' # NoTask
       => Completed(task.plan) \subseteq Completed(task'.plan)]_vars

(***************************************************************************)
(* What is stored of a task, apart from its status, changes only when an   *)
(* input is claimed or a chain has come to its end: no pause, failure,     *)
(* refusal or crash stores a snapshot from the middle of a chain.          *)
(***************************************************************************)
Content(t) == [t EXCEPT !.status = "active"]

NoMidChainSnapshot ==
  [][task # NoTask /\ task' # NoTask /\ Content(task') # Content(task)
       => attempt = NoAttempt \/ ~Continues(attempt)]_vars

(***************************************************************************)
(* An attempt with a step to make is in a dead end if none of the opening  *)
(* questions would be accepted from it, or later no proposal that takes    *)
(* the task to another stage or finishes it.                               *)
(***************************************************************************)
Openings == {p \in Candidates : OpensWithQuestions(p)}
MovesOn(t, p) == p.stage # t.stage \/ p.status = "done"

DeadEnd(a) ==
  /\ Continues(a)
  /\ IF Opening(a)
       THEN \A p \in Openings : ~Accepts(a.next, p, TRUE)
       ELSE \A p \in Candidates : MovesOn(a.next, p) => ~Accepts(a.next, p, FALSE)

(***************************************************************************)
(* No task is ever in a dead end.  taskflow/service.go counts an existing  *)
(* task of an older file as one with confirmed history, which needs no     *)
(* opening questions; .specs/task-state-machine says that a step can be    *)
(* repeated and that accepted data need not be explained again.            *)
(***************************************************************************)
NoDeadEnd == attempt # NoAttempt => ~DeadEnd(attempt)

(***************************************************************************)
(* Whatever was accepted, refused or interrupted before, a task of this    *)
(* version is never in a dead end, its first input included.  One from an  *)
(* older file is in one only if an input counts as its first although the  *)
(* task has left clarify_input: the opening questions are illegal there.   *)
(***************************************************************************)
DeadEndsAreMigrated ==
  attempt # NoAttempt /\ DeadEnd(attempt)
    => migrated /\ Opening(attempt) /\ attempt.next.stage # "clarify_input"
=============================================================================
