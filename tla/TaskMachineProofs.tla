------------------------- MODULE TaskMachineProofs -------------------------
(***************************************************************************)
(* The life of a task for any set of plan items and labels and any number  *)
(* of autonomous steps.  Every snapshot an attempt holds is sound: it      *)
(* passes the plan rules, and the mark of an older file stands only on a   *)
(* result that never passed the gate and has no validation item yet.       *)
(***************************************************************************)
EXTENDS TaskMachine, TLAPS

Sound(t) ==
  /\ t \in Tasks
  /\ ValidateTaskPlan(t, FALSE)
  /\ t.legacy => t.gate = "not_validated"
  /\ t.legacy /\ t.status # "done" => ValidationItem \notin DOMAIN t.plan

\* What n makes of t: nothing completed is lost, no mark of an older file is put on.
Follows(n, t) ==
  /\ Completed(t.plan) \subseteq Completed(n.plan)
  /\ n.legacy => t.legacy

\* While an attempt lasts the stored task is what the attempt has started from.
Claimed ==
  attempt # NoAttempt =>
    /\ task # NoTask /\ task.status = "active"
    /\ Sound(attempt.next)
    /\ Follows(attempt.next, task)
    /\ attempt.steps = 0 => attempt.next.status # "done"
    /\ attempt.base # NoTask =>
         /\ Sound(attempt.base) /\ attempt.base.status # "done"
         /\ task = [attempt.base EXCEPT !.status = "active"]

IInv == TypeOK /\ (task # NoTask => Sound(task)) /\ Claimed

-----------------------------------------------------------------------------
(***************************************************************************)
(* Plans and the snapshots made of them.                                   *)
(***************************************************************************)
LEMMA PlanShape ==
  ASSUME NEW plan
  PROVE  plan \in Plans <=>
           /\ DOMAIN plan \in SUBSET Items
           /\ plan \in [DOMAIN plan -> [status : ItemStatuses, label : Labels]]
BY DEF Plans

LEMMA NewTaskIsSound == Sound(NewTask)
<1>1. DOMAIN EmptyPlan = {} /\ EmptyPlan \in Plans
  BY PlanShape DEF EmptyPlan
<1>2. NewTask \in Tasks
  BY <1>1 DEF NewTask, Tasks, Stages, Statuses, Addressees
<1>3. QED
  BY <1>1, <1>2 DEF Sound, NewTask, ValidateTaskPlan, GateIsConsistent, PlanIsConsistent, Final

\* Only the status of an unfinished task differs: the plan rules do not see it.
LEMMA StatusKeepsSound ==
  ASSUME NEW t, Sound(t), t.status # "done", NEW s \in {"active", "paused"}
  PROVE  /\ Sound([t EXCEPT !.status = s])
         /\ [t EXCEPT !.status = s].status = s
         /\ Follows([t EXCEPT !.status = s], t)
         /\ Follows(t, [t EXCEPT !.status = s])
         /\ Content([t EXCEPT !.status = s]) = Content(t)
<1> DEFINE u == [t EXCEPT !.status = s]
<1>1. /\ u \in Tasks /\ u.status = s /\ u.stage = t.stage /\ u.plan = t.plan
      /\ u.current = t.current /\ u.gate = t.gate /\ u.legacy = t.legacy
  BY DEF Sound, Tasks, Statuses
<1>2. Content(u) = Content(t)
  BY DEF Sound, Tasks, Content
<1>3. ValidateTaskPlan(u, FALSE)
  <2>1. Final(u) <=> Final(t)
    BY <1>1 DEF Final
  <2>2. QED
    BY <1>1, <2>1 DEF Sound, ValidateTaskPlan, GateIsConsistent, PlanIsConsistent
<1>4. QED
  BY <1>1, <1>2, <1>3 DEF Sound, Follows

(***************************************************************************)
(* A migrated result that is sent back gets one item to do, and that item  *)
(* is new: this is what the last part of Sound is for.                     *)
(***************************************************************************)
LEMMA RewrittenIsSound ==
  ASSUME NEW t, Sound(t), t.status # "done"
  PROVE  Sound(Rewritten(t)) /\ Rewritten(t).status = t.status /\ Follows(Rewritten(t), t)
<1> DEFINE v == ValidationItem
           plan == [i \in DOMAIN t.plan \cup {v} |->
                      IF i \in DOMAIN t.plan THEN t.plan[i]
                      ELSE [status |-> "current", label |-> "execution"]]
<1>1. CASE t.stage = "user_feedback" /\ t.status = "active" /\ t.legacy
  <2>1. /\ t.plan \in Plans /\ v \in Items /\ v # NoItem /\ v \notin DOMAIN t.plan
    BY <1>1, ProposalAssumption DEF ProposalAssumption, Sound, Tasks
  <2>2. plan \in Plans
    <3>1. DOMAIN t.plan \subseteq Items
      BY <2>1, PlanShape
    <3>2. \A i \in DOMAIN t.plan : t.plan[i] \in [status : ItemStatuses, label : Labels]
      BY <2>1, PlanShape
    <3>3. QED
      BY <2>1, <3>1, <3>2, PlanShape, ProposalAssumption DEF ProposalAssumption, ItemStatuses
  <2>3. /\ Rewritten(t) \in Tasks
        /\ Rewritten(t).stage = "execution" /\ Rewritten(t).status = t.status
        /\ Rewritten(t).plan = plan /\ Rewritten(t).current = v
        /\ Rewritten(t).gate = "not_validated" /\ Rewritten(t).legacy = FALSE
    BY <1>1, <2>1, <2>2 DEF Sound, Tasks, Rewritten, Stages, Addressees
  <2>4. Completed(t.plan) = DOMAIN t.plan
    <3>1. Final(t)
      BY <1>1 DEF Final
    <3>2. QED
      BY <1>1, <3>1 DEF Sound, ValidateTaskPlan, PlanIsConsistent, Completed, WithStatus
  <2>5. /\ DOMAIN plan = DOMAIN t.plan \cup {v}
        /\ Completed(plan) = DOMAIN t.plan /\ WithStatus(plan, "current") = {v}
    BY <2>1, <2>4 DEF Completed, WithStatus
  <2>6. ValidateTaskPlan(Rewritten(t), FALSE)
    BY <1>1, <2>3, <2>5 DEF ValidateTaskPlan, GateIsConsistent, PlanIsConsistent, Final
  <2>7. QED
    BY <2>3, <2>4, <2>5, <2>6 DEF Sound, Follows
<1>2. CASE ~(t.stage = "user_feedback" /\ t.status = "active" /\ t.legacy)
  BY <1>2 DEF Rewritten, Follows
<1>3. QED
  BY <1>1, <1>2

(***************************************************************************)
(* An accepted proposal.  The one candidate validated without its evidence *)
(* is the one that finishes the execution, and the gate gives it to it.    *)
(***************************************************************************)
LEMMA AcceptedIsSound ==
  ASSUME NEW t, Sound(t), NEW p \in Proposals, NEW first, Accepts(t, p, first)
  PROVE  Sound(Gated(t, p)) /\ Follows(Gated(t, p), t)
<1> DEFINE a == Applied(t, p)
           n == Gated(t, p)
           forgets == t.stage = "user_feedback" /\ p.stage # t.stage
<1>1. /\ a \in Tasks /\ a.stage = p.stage /\ a.status = p.status /\ a.plan = p.plan
      /\ a.current = p.current
      /\ a.gate = IF forgets THEN "not_validated" ELSE t.gate
      /\ a.legacy = IF forgets THEN FALSE ELSE t.legacy
  BY ZenonT(60) DEF Sound, Tasks, Proposals, Applied
<1>2. Completed(t.plan) \subseteq Completed(p.plan)
  BY DEF Accepts, KeepsCompleted
<1>3. t.status # "done" /\ ValidateTaskPlan(a, FinishesExecution(t, p))
  BY DEF Accepts
<1>4. CASE FinishesExecution(t, p)
  <2>1. /\ n \in Tasks /\ n.stage = a.stage /\ n.status = a.status /\ n.plan = a.plan
        /\ n.current = a.current /\ n.gate = "passed" /\ n.legacy = FALSE
    BY <1>1, <1>4 DEF Tasks, Gated
  <2>2. Final(n) <=> Final(a)
    BY <2>1 DEF Final
  <2>3. ValidateTaskPlan(n, FALSE)
    BY <1>3, <2>1, <2>2 DEF ValidateTaskPlan, GateIsConsistent, PlanIsConsistent
  <2>4. QED
    BY <1>1, <1>2, <2>1, <2>3 DEF Sound, Follows
<1>5. CASE ~FinishesExecution(t, p)
  <2>1. n = a /\ ValidateTaskPlan(n, FALSE)
    <3>1. FinishesExecution(t, p) = FALSE
      BY <1>5 DEF FinishesExecution
    <3>2. QED
      BY <1>3, <1>5, <3>1 DEF Gated
  <2>2. a.legacy => ~forgets /\ t.legacy
    BY <1>1
  <2>3. a.legacy => a.gate = "not_validated"
    BY <1>1, <2>2 DEF Sound
  <2>4. a.legacy => a.status = "done"
    <3>1. t.legacy => t.stage = "user_feedback"
      BY <1>3 DEF Sound, ValidateTaskPlan, GateIsConsistent, Final
    <3>2. t.stage = "user_feedback" /\ p.stage = "user_feedback" => p.status = "done"
      BY DEF Accepts
    <3>3. QED
      BY <1>1, <2>2, <3>1, <3>2
  <2>5. QED
    BY <1>1, <1>2, <2>1, <2>2, <2>3, <2>4 DEF Sound, Follows
<1>6. QED
  BY <1>4, <1>5

-----------------------------------------------------------------------------
(***************************************************************************)
(* The inductive invariant.                                                *)
(***************************************************************************)
LEMMA InitIInv == Init => IInv
<1> SUFFICES ASSUME Init PROVE IInv
  OBVIOUS
<1>1. TypeOK
  BY DEF Init, TypeOK, MigratedTasks
<1>2. task # NoTask => Sound(task)
  BY DEF Init, MigratedTasks, Sound, Final
<1>3. QED
  BY <1>1, <1>2 DEF Init, IInv, Claimed

\* The parts of an attempt.
LEMMA AttemptShape ==
  ASSUME attempt \in Attempts
  PROVE  /\ attempt.base \in Tasks \cup {NoTask} /\ attempt.next \in Tasks
         /\ attempt.first \in BOOLEAN /\ attempt.steps \in 0 .. MaxSteps
         /\ attempt.opened \in {"none", "open", "committed"}
BY DEF Attempts

LEMMA CreateIInv == ASSUME IInv, Create PROVE IInv'
<1>1. Sound(NewTask) /\ NewTask \in Tasks
  BY NewTaskIsSound DEF Sound
<1>2. attempt' \in Attempts
  BY <1>1, TaskMachineAssumption DEF TaskMachineAssumption, IInv, TypeOK, Create, Attempts
<1>3. TypeOK'
  BY <1>1, <1>2 DEF IInv, TypeOK, Create
<1>4. NewTask.status = "active" /\ Follows(NewTask, NewTask)
  BY DEF NewTask, Follows
<1>5. Claimed'
  BY <1>1, <1>4, TaskMachineAssumption DEF TaskMachineAssumption, Create, Claimed
<1>6. QED
  BY <1>1, <1>3, <1>5 DEF IInv, Create

LEMMA InputIInv == ASSUME IInv, Input PROVE IInv'
<1> DEFINE base == Rewritten(task)
           u == [base EXCEPT !.status = "active"]
<1>1. Sound(task) /\ task.status # "done"
  BY DEF IInv, Input
<1>2. Sound(base) /\ base.status # "done"
  BY <1>1, RewrittenIsSound
<1>3. Sound(u) /\ u.status = "active" /\ Follows(base, u)
  BY <1>2, StatusKeepsSound
<1>4. base \in Tasks /\ u \in Tasks /\ u # NoTask
  BY <1>2, <1>3, TaskMachineAssumption DEF TaskMachineAssumption, Sound
<1>5. PICK first \in FirstInput :
        /\ task' = u
        /\ attempt' = [base |-> base, next |-> base, first |-> first, steps |-> 0,
                       opened |-> ledger]
  BY DEF Input
<1>6. attempt' \in Attempts
  <2>1. first \in BOOLEAN
    BY DEF FirstInput
  <2> QED
    BY <2>1, <1>4, <1>5, TaskMachineAssumption DEF TaskMachineAssumption, IInv, TypeOK, Attempts
<1>7. TypeOK'
  BY <1>4, <1>5, <1>6 DEF TypeOK, Input, IInv
<1>8. Claimed'
  BY <1>2, <1>3, <1>4, <1>5 DEF Claimed
<1>9. QED
  BY <1>3, <1>5, <1>7, <1>8 DEF IInv

LEMMA StepIInv == ASSUME IInv, Step PROVE IInv'
<1>1. PICK p \in Proposals :
        /\ Accepts(attempt.next, p, Opening(attempt))
        /\ attempt' = [attempt EXCEPT !.next = Gated(attempt.next, p), !.steps = @ + 1]
  BY DEF Step, Candidates
<1> DEFINE n == Gated(attempt.next, p)
<1>2. /\ attempt \in Attempts /\ attempt # NoAttempt /\ attempt.steps < MaxSteps
      /\ UNCHANGED <<task, ledger, migrated>>
  BY DEF IInv, TypeOK, Step
<1>3. Sound(attempt.next) /\ Follows(attempt.next, task)
  BY <1>2 DEF IInv, Claimed
<1>4. Sound(n) /\ Follows(n, attempt.next)
  BY <1>1, <1>3, AcceptedIsSound
<1>5. attempt.steps + 1 \in 0 .. MaxSteps /\ attempt.steps + 1 # 0
  BY <1>2, AttemptShape, TaskMachineAssumption DEF TaskMachineAssumption
<1>6. /\ attempt' \in Attempts /\ attempt'.next = n /\ attempt'.base = attempt.base
      /\ attempt'.steps # 0
  BY <1>1, <1>2, <1>4, <1>5 DEF Attempts, Sound
<1>7. TypeOK'
  BY <1>2, <1>6 DEF IInv, TypeOK
<1>8. Follows(n, task)
  BY <1>3, <1>4 DEF Follows
<1>9. Claimed'
  BY <1>2, <1>4, <1>6, <1>8 DEF IInv, Claimed
<1>10. QED
  BY <1>2, <1>7, <1>9 DEF IInv

LEMMA CommitIInv == ASSUME IInv, Commit PROVE IInv'
<1>1. /\ Sound(attempt.next) /\ task' = attempt.next /\ attempt' = NoAttempt
      /\ ledger' = "committed" /\ UNCHANGED migrated
  BY DEF IInv, Claimed, Commit
<1>2. QED
  BY <1>1 DEF IInv, TypeOK, Claimed, Sound

LEMMA RefuseIInv == ASSUME IInv, Refuse PROVE IInv'
<1>1. attempt \in Attempts /\ attempt # NoAttempt
  BY DEF IInv, TypeOK, Refuse
<1>2. attempt.base # NoTask => Sound(attempt.base)
  BY <1>1 DEF IInv, Claimed
<1>3. /\ task' = attempt.base /\ attempt' = NoAttempt
      /\ ledger' = attempt.opened /\ UNCHANGED migrated
  BY DEF Refuse
<1>4. QED
  BY <1>1, <1>2, <1>3, AttemptShape DEF IInv, TypeOK, Claimed

LEMMA FailIInv == ASSUME IInv, Fail PROVE IInv'
BY DEF IInv, TypeOK, Claimed, Fail

\* PauseTask and Restart store an unfinished task as paused and end the attempt.
LEMMA PausedIInv ==
  ASSUME IInv, task # NoTask, task.status # "done",
         task' = [task EXCEPT !.status = "paused"], attempt' = NoAttempt, UNCHANGED <<ledger, migrated>>
  PROVE  IInv'
<1>1. Sound(task')
  BY StatusKeepsSound DEF IInv
<1>2. QED
  BY <1>1 DEF IInv, TypeOK, Claimed, Sound

LEMMA NextIInv == IInv /\ [Next]_vars => IInv'
<1> SUFFICES ASSUME IInv, [Next]_vars PROVE IInv'
  OBVIOUS
<1>1. CASE PauseTask
  BY <1>1, PausedIInv DEF PauseTask
<1>2. CASE Restart
  BY <1>2, PausedIInv DEF Restart, IInv, Claimed
<1>3. CASE UNCHANGED vars
  BY <1>3 DEF IInv, TypeOK, Claimed, vars
<1>4. QED
  BY <1>1, <1>2, <1>3, CreateIInv, InputIInv, StepIInv, CommitIInv, RefuseIInv, FailIInv DEF Next

LEMMA AlwaysIInv == Spec => []IInv
<1>1. Init => IInv
  BY InitIInv
<1>2. IInv /\ [Next]_vars => IInv'
  BY NextIInv
<1>3. QED
  BY <1>1, <1>2, PTL DEF Spec

-----------------------------------------------------------------------------
(***************************************************************************)
(* What is stored in one step: nothing but what Follows what was stored    *)
(* before, and other content only at a claim or at the end of a chain.     *)
(***************************************************************************)
LEMMA StoredFollows ==
  ASSUME IInv, [Next]_vars, task # NoTask
  PROVE  /\ task' # NoTask => Follows(task', task)
         /\ task' # NoTask /\ Content(task') # Content(task)
              => attempt = NoAttempt \/ ~Continues(attempt)
<1>1. Sound(task)
  BY DEF IInv
<1>2. CASE Create
  BY <1>2 DEF Create
<1>3. CASE Input
  <2>1. task.status # "done" /\ attempt = NoAttempt
    BY <1>3 DEF Input
  <2>2. Sound(Rewritten(task)) /\ Rewritten(task).status # "done" /\ Follows(Rewritten(task), task)
    BY <1>1, <2>1, RewrittenIsSound
  <2>3. task' = [Rewritten(task) EXCEPT !.status = "active"]
    BY <1>3 DEF Input
  <2>4. Follows(task', Rewritten(task))
    BY <2>2, <2>3, StatusKeepsSound
  <2>5. QED
    BY <2>1, <2>2, <2>4 DEF Follows
<1>4. CASE Step \/ Fail \/ UNCHANGED vars
  BY <1>4 DEF Step, Fail, vars, Follows
<1>5. CASE Commit
  BY <1>5 DEF Commit, IInv, Claimed
<1>6. CASE Refuse
  <2>1. task' = attempt.base /\ attempt # NoAttempt
    BY <1>6 DEF Refuse
  <2>2. ASSUME attempt.base # NoTask
        PROVE  Follows(attempt.base, task) /\ Content(attempt.base) = Content(task)
    BY <2>1, <2>2, StatusKeepsSound DEF IInv, Claimed
  <2>3. QED
    BY <2>1, <2>2
<1>7. CASE PauseTask \/ Restart
  <2>1. task.status # "done" /\ task' = [task EXCEPT !.status = "paused"]
    BY <1>7 DEF PauseTask, Restart, IInv, Claimed
  <2>2. QED
    BY <1>1, <2>1, StatusKeepsSound
<1>8. QED
  BY <1>2, <1>3, <1>4, <1>5, <1>6, <1>7 DEF Next

\* What becomes stored without having been there is fresh.
LEMMA FirstStored ==
  ASSUME IInv, [Next]_vars, task = NoTask
  PROVE  task' \in {NoTask, NewTask}
<1>1. attempt = NoAttempt
  BY DEF IInv, Claimed
<1>2. QED
  BY <1>1 DEF Next, Create, Input, Step, Commit, Refuse, Fail, PauseTask, Restart, vars

(***************************************************************************)
(* The chain of an attempt is never longer than maxAutonomousSteps, and    *)
(* every stored task is a record of the domain model.                      *)
(***************************************************************************)
THEOREM TypeCorrect == Spec => []TypeOK
BY AlwaysIInv, PTL DEF IInv

(***************************************************************************)
(* Whatever is stored of a task, by a claim, a commit, a refusal, a pause  *)
(* or a restart, passes the rules with which the file is opened.           *)
(***************************************************************************)
THEOREM StoredTasksAreValid == Spec => []StoredTaskIsValid
<1>1. IInv => StoredTaskIsValid
  BY DEF IInv, StoredTaskIsValid, Sound
<1>2. QED
  BY <1>1, AlwaysIInv, PTL

(***************************************************************************)
(* No task is done without the evidence of the gate, except with the mark  *)
(* of an older file, and no task gets that mark here.                      *)
(***************************************************************************)
THEOREM DoneIsProved == Spec => DoneIsValidated
<1> DEFINE Proved == /\ ~Done(task) /\ Done(task)' => task.gate' = "passed" \/ Unproved(task)
                     /\ Unproved(task)' => Unproved(task)
<1>1. IInv /\ [Next]_vars => Proved
  <2> SUFFICES ASSUME IInv, [Next]_vars PROVE Proved
    OBVIOUS
  <2>1. CASE task = NoTask
    BY <2>1, FirstStored DEF Done, Unproved, NewTask
  <2>2. CASE task # NoTask
    <3>1. Unproved(task)' => Unproved(task)
      BY <2>2, StoredFollows DEF Unproved, Follows
    <3>2. Done(task)' => task.gate' = "passed" \/ Unproved(task)'
      <4>1. IInv'
        BY NextIInv
      <4>2. QED
        BY <4>1 DEF IInv, Sound, ValidateTaskPlan, GateIsConsistent, Final, Done, Unproved
    <3>3. QED
      BY <3>1, <3>2
  <2>3. QED
    BY <2>1, <2>2
<1>2. IInv /\ [Next]_vars => [Proved]_vars
  BY <1>1
<1>3. QED
  BY <1>2, AlwaysIInv, PTL DEF Spec, DoneIsValidated

(***************************************************************************)
(* No claim, chain, refusal, pause or restart drops or reopens an item of  *)
(* the plan that was stored as completed.                                  *)
(***************************************************************************)
THEOREM WorkIsKept == Spec => CompletedWorkIsKept
<1> DEFINE Kept == task # NoTask /\ task' # NoTask
                     => Completed(task.plan) \subseteq Completed(task'.plan)
<1>1. IInv /\ [Next]_vars => [Kept]_vars
  BY StoredFollows DEF Follows
<1>2. QED
  BY <1>1, AlwaysIInv, PTL DEF Spec, CompletedWorkIsKept

(***************************************************************************)
(* No pause, failure, refusal or restart stores a snapshot from the middle *)
(* of a chain of proposals.                                                *)
(***************************************************************************)
THEOREM NoMidChain == Spec => NoMidChainSnapshot
<1> DEFINE Whole == task # NoTask /\ task' # NoTask /\ Content(task') # Content(task)
                      => attempt = NoAttempt \/ ~Continues(attempt)
<1>1. IInv /\ [Next]_vars => [Whole]_vars
  BY StoredFollows
<1>2. QED
  BY <1>1, AlwaysIInv, PTL DEF Spec, NoMidChainSnapshot

(***************************************************************************)
(* The acceptable proposal that each stage of a sound task leaves open.    *)
(***************************************************************************)
LEMMA ClarifyMovesOn ==
  ASSUME NEW t, Sound(t), t.status # "done", t.stage = "clarify_input"
  PROVE  \E p \in Candidates : MovesOn(t, p) /\ Accepts(t, p, FALSE)
<1> DEFINE v == ValidationItem
           plan == [i \in {v} |-> [status |-> "current", label |-> "other"]]
           p == [stage |-> "research_input_data", status |-> "active", expects |-> "agent",
                 plan |-> plan, current |-> v, asks |-> FALSE, positive |-> FALSE]
<1>1. v \in Items /\ v # NoItem /\ DOMAIN plan = {v} /\ WithStatus(plan, "current") = {v}
  BY ProposalAssumption DEF ProposalAssumption, WithStatus
<1>2. p \in Proposals
  <2>1. plan \in Plans
    BY <1>1, PlanShape, ProposalAssumption DEF ProposalAssumption, ItemStatuses
  <2>2. QED
    BY <1>1, <2>1 DEF Proposals, Stages, Statuses, Addressees
<1>3. DOMAIN t.plan = {}
  BY DEF Sound, ValidateTaskPlan, PlanIsConsistent, Final
<1>4. /\ Applied(t, p).stage = "research_input_data" /\ Applied(t, p).status = "active"
      /\ Applied(t, p).plan = plan /\ Applied(t, p).current = v
      /\ Applied(t, p).gate = t.gate /\ Applied(t, p).legacy = t.legacy
  BY DEF Sound, Tasks, Applied
<1>5. ~Final(t) /\ ~Final(Applied(t, p))
  BY <1>4 DEF Final
<1>6. ValidateTaskPlan(Applied(t, p), FALSE)
  BY <1>1, <1>4, <1>5 DEF Sound, ValidateTaskPlan, GateIsConsistent, PlanIsConsistent
<1>7. ~FinishesExecution(t, p) /\ KeepsCompleted(t, p) /\ LegalStageTransition(t.stage, p.stage)
  BY <1>3 DEF FinishesExecution, KeepsCompleted, Completed, WithStatus, LegalStageTransition
<1>8. MovesOn(t, p) /\ Accepts(t, p, FALSE)
  <2>1. FinishesExecution(t, p) = FALSE
    BY <1>7 DEF FinishesExecution
  <2>2. QED
    BY <1>6, <1>7, <2>1 DEF MovesOn, Accepts, WellFormed
<1>9. QED
  BY <1>2, <1>8 DEF Candidates, Accepts

LEMMA ResearchMovesOn ==
  ASSUME NEW t, Sound(t), t.status # "done", t.stage = "research_input_data"
  PROVE  \E p \in Candidates : MovesOn(t, p) /\ Accepts(t, p, FALSE)
<1> DEFINE plan == [i \in DOMAIN t.plan |-> [status |-> t.plan[i].status, label |-> "other"]]
           p == [stage |-> "execution", status |-> "active", expects |-> "agent",
                 plan |-> plan, current |-> t.current, asks |-> FALSE, positive |-> FALSE]
<1>1. /\ DOMAIN plan = DOMAIN t.plan
      /\ Completed(plan) = Completed(t.plan)
      /\ WithStatus(plan, "current") = WithStatus(t.plan, "current")
      /\ \A i \in DOMAIN plan : plan[i].label # "execution"
  BY DEF Completed, WithStatus
<1>2. p \in Proposals
  <2>1. t.plan \in Plans
    BY DEF Sound, Tasks
  <2>2. plan \in Plans
    <3>1. DOMAIN t.plan \subseteq Items
      BY <2>1, PlanShape
    <3>2. \A i \in DOMAIN t.plan : t.plan[i].status \in ItemStatuses
      BY <2>1, PlanShape
    <3>3. QED
      BY <3>1, <3>2, PlanShape, ProposalAssumption DEF ProposalAssumption
  <2>3. QED
    BY <2>2 DEF Sound, Tasks, Proposals, Stages, Statuses, Addressees
<1>3. /\ Applied(t, p).stage = "execution" /\ Applied(t, p).status = "active"
      /\ Applied(t, p).plan = plan /\ Applied(t, p).current = t.current
      /\ Applied(t, p).gate = t.gate /\ Applied(t, p).legacy = t.legacy
  BY DEF Sound, Tasks, Applied
<1>4. ~Final(t) /\ ~Final(Applied(t, p))
  BY <1>3 DEF Final
<1>5. ValidateTaskPlan(Applied(t, p), FALSE)
  <2>1. DOMAIN t.plan # {} /\ WithStatus(t.plan, "current") = {t.current}
    BY <1>4 DEF Sound, ValidateTaskPlan, PlanIsConsistent
  <2>2. PlanIsConsistent(Applied(t, p))
    BY ZenonT(60), <1>1, <1>3, <1>4, <2>1 DEF PlanIsConsistent
  <2>3. GateIsConsistent(Applied(t, p), FALSE)
    BY <1>3, <1>4 DEF Sound, ValidateTaskPlan, GateIsConsistent
  <2>4. QED
    BY <1>3, <2>2, <2>3 DEF ValidateTaskPlan
<1>6. KeepsCompleted(t, p) /\ LegalStageTransition(t.stage, p.stage)
  BY <1>1 DEF KeepsCompleted, LegalStageTransition
<1>7. StartsExecutionFresh(p)
  <2>1. Completed(p.plan) \subseteq DOMAIN p.plan
    BY DEF Completed, WithStatus
  <2>2. QED
    BY <1>1, <2>1 DEF StartsExecutionFresh
<1>8. MovesOn(t, p) /\ Accepts(t, p, FALSE)
  <2>1. FinishesExecution(t, p) = FALSE
    BY DEF FinishesExecution
  <2>2. QED
    BY <1>5, <1>6, <1>7, <2>1 DEF MovesOn, Accepts, WellFormed
<1>9. QED
  BY <1>2, <1>8 DEF Candidates, Accepts

LEMMA ExecutionMovesOn ==
  ASSUME NEW t, Sound(t), t.status # "done", t.stage = "execution"
  PROVE  \E p \in Candidates : MovesOn(t, p) /\ Accepts(t, p, FALSE)
<1> DEFINE plan == [i \in DOMAIN t.plan |->
                      [status |-> "completed", label |-> t.plan[i].label]]
           p == [stage |-> "user_feedback", status |-> "active", expects |-> "user",
                 plan |-> plan, current |-> NoItem, asks |-> FALSE, positive |-> FALSE]
<1>1. DOMAIN plan = DOMAIN t.plan /\ Completed(plan) = DOMAIN t.plan
  BY DEF Completed, WithStatus
<1>2. p \in Proposals
  <2>1. t.plan \in Plans
    BY DEF Sound, Tasks
  <2>2. plan \in Plans
    <3>1. DOMAIN t.plan \subseteq Items
      BY <2>1, PlanShape
    <3>2. \A i \in DOMAIN t.plan : t.plan[i].label \in Labels
      BY <2>1, PlanShape
    <3>3. QED
      BY <3>1, <3>2, PlanShape DEF ItemStatuses
  <2>3. QED
    BY <2>2 DEF Proposals, Stages, Statuses, Addressees
<1>3. /\ Applied(t, p).stage = "user_feedback" /\ Applied(t, p).status = "active"
      /\ Applied(t, p).plan = plan /\ Applied(t, p).current = NoItem
      /\ Applied(t, p).gate = t.gate /\ Applied(t, p).legacy = t.legacy
  BY DEF Sound, Tasks, Applied
<1>4. ~Final(t) /\ Final(Applied(t, p)) /\ DOMAIN t.plan # {}
  BY <1>3 DEF Sound, ValidateTaskPlan, PlanIsConsistent, Final
<1>5. ValidateTaskPlan(Applied(t, p), TRUE)
  BY <1>1, <1>3, <1>4 DEF ValidateTaskPlan, GateIsConsistent, PlanIsConsistent
<1>6. KeepsCompleted(t, p) /\ LegalStageTransition(t.stage, p.stage)
  BY <1>1 DEF KeepsCompleted, Completed, WithStatus, LegalStageTransition
<1>7. MovesOn(t, p) /\ Accepts(t, p, FALSE)
  <2>1. FinishesExecution(t, p) = TRUE
    BY DEF FinishesExecution
  <2>2. QED
    BY <1>1, <1>5, <1>6, <2>1 DEF MovesOn, Accepts, WellFormed
<1>8. QED
  BY <1>2, <1>7 DEF Candidates, Accepts

LEMMA FeedbackMovesOn ==
  ASSUME NEW t, Sound(t), t.status # "done", t.stage = "user_feedback"
  PROVE  \E p \in Candidates : MovesOn(t, p) /\ Accepts(t, p, FALSE)
<1> DEFINE p == [stage |-> "user_feedback", status |-> "done", expects |-> "none",
                 plan |-> t.plan, current |-> t.current, asks |-> FALSE, positive |-> TRUE]
<1>1. p \in Proposals
  BY DEF Sound, Tasks, Proposals, Stages, Statuses, Addressees
<1>2. /\ Applied(t, p).stage = "user_feedback" /\ Applied(t, p).status = "done"
      /\ Applied(t, p).plan = t.plan /\ Applied(t, p).current = t.current
      /\ Applied(t, p).gate = t.gate /\ Applied(t, p).legacy = t.legacy
  BY DEF Sound, Tasks, Applied
<1>3. Final(t) /\ Final(Applied(t, p))
  BY <1>2 DEF Final
<1>4. ValidateTaskPlan(Applied(t, p), FALSE)
  BY <1>2, <1>3 DEF Sound, ValidateTaskPlan, GateIsConsistent, PlanIsConsistent
<1>5. KeepsCompleted(t, p) /\ LegalStageTransition(t.stage, p.stage)
  BY DEF KeepsCompleted, LegalStageTransition
<1>6. MovesOn(t, p) /\ Accepts(t, p, FALSE)
  <2>1. FinishesExecution(t, p) = FALSE
    BY DEF FinishesExecution
  <2>2. QED
    BY <1>4, <1>5, <2>1 DEF MovesOn, Accepts, WellFormed
<1>7. QED
  BY <1>1, <1>6 DEF Candidates, Accepts

\* The opening questions leave a task that is still to be clarified as it is.
LEMMA OpeningIsAccepted ==
  ASSUME NEW t, Sound(t), t.status # "done", t.stage = "clarify_input"
  PROVE  \E p \in Openings : Accepts(t, p, TRUE)
<1> DEFINE p == [stage |-> "clarify_input", status |-> "active", expects |-> "user",
                 plan |-> EmptyPlan, current |-> NoItem, asks |-> TRUE, positive |-> FALSE]
<1>1. DOMAIN EmptyPlan = {} /\ EmptyPlan \in Plans
  BY PlanShape DEF EmptyPlan
<1>2. p \in Proposals
  BY <1>1 DEF Proposals, Stages, Statuses, Addressees
<1>3. DOMAIN t.plan = {}
  BY DEF Sound, ValidateTaskPlan, PlanIsConsistent, Final
<1>4. /\ Applied(t, p).stage = "clarify_input" /\ Applied(t, p).status = "active"
      /\ Applied(t, p).plan = EmptyPlan /\ Applied(t, p).current = NoItem
      /\ Applied(t, p).gate = t.gate /\ Applied(t, p).legacy = t.legacy
  BY DEF Sound, Tasks, Applied
<1>5. ~Final(t) /\ ~Final(Applied(t, p))
  BY <1>4 DEF Final
<1>6. ValidateTaskPlan(Applied(t, p), FALSE)
  BY <1>1, <1>4, <1>5 DEF Sound, ValidateTaskPlan, GateIsConsistent, PlanIsConsistent
<1>7. KeepsCompleted(t, p) /\ LegalStageTransition(t.stage, p.stage)
  BY <1>3 DEF KeepsCompleted, Completed, WithStatus, LegalStageTransition
<1>8. FinishesExecution(t, p) = FALSE
  BY DEF FinishesExecution
<1>9. Accepts(t, p, TRUE) /\ OpensWithQuestions(p) /\ WellFormed(p)
  BY <1>6, <1>7, <1>8 DEF Accepts, OpensWithQuestions, WellFormed
<1>10. QED
  BY <1>2, <1>9 DEF Openings, Candidates

(***************************************************************************)
(* The opening questions are illegal in every later stage: from research   *)
(* and execution clarify_input cannot be reached, and a result has a plan  *)
(* that must be kept and that clarify_input must not have.                 *)
(***************************************************************************)
LEMMA OpeningIsRefused ==
  ASSUME NEW t, Sound(t), t.stage # "clarify_input", NEW p \in Openings
  PROVE  ~Accepts(t, p, TRUE)
<1> SUFFICES ASSUME Accepts(t, p, TRUE) PROVE FALSE
  OBVIOUS
<1>1. p \in Proposals /\ p.stage = "clarify_input" /\ p.status # "done"
  BY DEF Openings, Candidates, OpensWithQuestions, WellFormed
<1>2. t.stage = "user_feedback" /\ t.stage \in Stages
  BY <1>1 DEF Accepts, LegalStageTransition, Sound, Tasks, Stages
<1>3. DOMAIN t.plan # {} /\ Completed(t.plan) = DOMAIN t.plan
  BY <1>2 DEF Sound, ValidateTaskPlan, PlanIsConsistent, Final
<1>4. /\ Applied(t, p).stage = "clarify_input" /\ Applied(t, p).status # "done"
      /\ Applied(t, p).plan = p.plan
  BY <1>1 DEF Sound, Tasks, Applied
<1>5. DOMAIN p.plan # {}
  BY <1>3 DEF Accepts, KeepsCompleted, Completed, WithStatus
<1>6. PlanIsConsistent(Applied(t, p))
  BY DEF Accepts, ValidateTaskPlan
<1>7. QED
  BY <1>4, <1>5, <1>6 DEF PlanIsConsistent, Final

(***************************************************************************)
(* A task of this version leaves clarify_input only by a committed input,  *)
(* so that no input counts as its first one afterwards.                    *)
(***************************************************************************)
AnsweredFirst ==
  ~migrated =>
    /\ task # NoTask /\ ledger # "committed" => task.stage = "clarify_input"
    /\ attempt # NoAttempt =>
         /\ Opening(attempt) => attempt.next.stage = "clarify_input"
         /\ attempt.base # NoTask /\ attempt.opened # "committed"
              => attempt.base.stage = "clarify_input"

LEMMA AlwaysAnsweredFirst == Spec => []AnsweredFirst
<1>1. Init => AnsweredFirst
  BY DEF Init, AnsweredFirst
<1>2. IInv /\ AnsweredFirst /\ [Next]_vars => AnsweredFirst'
  <2> SUFFICES ASSUME IInv, AnsweredFirst, [Next]_vars, ~migrated' PROVE AnsweredFirst'
    BY DEF AnsweredFirst
  <2>m. ~migrated
    BY DEF Next, Create, Input, Step, Commit, Refuse, Fail, PauseTask, Restart, vars
  <2>1. CASE Create
    BY <2>1, TaskMachineAssumption DEF TaskMachineAssumption, Create, AnsweredFirst, NewTask
  <2>2. CASE Input
    <3> DEFINE base == Rewritten(task)
    <3>1. Sound(task) /\ task.status # "done" /\ attempt = NoAttempt
      BY <2>2 DEF IInv, Input
    <3>2. Sound(base) /\ (task.stage = "clarify_input" => base.stage = "clarify_input")
      BY <3>1, RewrittenIsSound DEF Rewritten
    <3>3. PICK first \in FirstInput :
            /\ task' = [base EXCEPT !.status = "active"]
            /\ attempt' = [base |-> base, next |-> base, first |-> first, steps |-> 0,
                           opened |-> ledger]
      BY <2>2 DEF Input
    <3>4. task'.stage = base.stage
      BY <3>2, <3>3 DEF Sound, Tasks
    <3>5. /\ ledger # "committed" => task.stage = "clarify_input"
          /\ ledger' # "committed" => ledger # "committed"
          /\ ledger = "committed" => first = FALSE
      BY <2>m, <2>2, <3>3 DEF Input, AnsweredFirst, FirstInput
    <3>6. /\ attempt'.next = base /\ attempt'.base = base /\ attempt'.opened = ledger
          /\ Opening(attempt') => first
      BY <3>3 DEF Opening
    <3> HIDE DEF base
    <3>7. QED
      BY <3>2, <3>4, <3>5, <3>6 DEF AnsweredFirst
  <2>3. CASE Step
    <3>1. PICK p \in Candidates :
            attempt' = [attempt EXCEPT !.next = Gated(attempt.next, p), !.steps = @ + 1]
      BY <2>3 DEF Step
    <3>2. attempt \in Attempts /\ attempt # NoAttempt /\ UNCHANGED <<task, ledger>>
      BY <2>3 DEF IInv, TypeOK, Step
    <3>3. attempt.steps + 1 # 0 /\ attempt.steps \in Nat
      BY <3>2, AttemptShape, TaskMachineAssumption DEF TaskMachineAssumption
    <3>4. attempt'.base = attempt.base /\ attempt'.opened = attempt.opened /\ ~Opening(attempt')
      BY <3>1, <3>2, <3>3 DEF Attempts, Opening
    <3>5. QED
      BY <2>m, <3>2, <3>4 DEF AnsweredFirst
  <2>4. CASE Commit
    BY <2>4 DEF Commit, AnsweredFirst
  <2>5. CASE Refuse
    BY <2>m, <2>5 DEF Refuse, AnsweredFirst
  <2>6. CASE Fail
    BY <2>m, <2>6 DEF Fail, AnsweredFirst
  <2>7. CASE PauseTask \/ Restart
    <3>1. /\ task # NoTask /\ task' = [task EXCEPT !.status = "paused"]
          /\ attempt' = NoAttempt /\ UNCHANGED ledger
      BY <2>7 DEF PauseTask, Restart, IInv, Claimed
    <3>2. task'.stage = task.stage
      BY <3>1 DEF IInv, Sound, Tasks
    <3>3. QED
      BY <2>m, <3>1, <3>2 DEF AnsweredFirst
  <2>8. CASE UNCHANGED vars
    BY <2>m, <2>8 DEF vars, AnsweredFirst, Opening
  <2>9. QED
    BY <2>1, <2>2, <2>3, <2>4, <2>5, <2>6, <2>7, <2>8 DEF Next
<1>3. QED
  BY <1>1, <1>2, AlwaysIInv, PTL DEF Spec

(***************************************************************************)
(* The rules of the proposals leave a way out of every stage, except that  *)
(* of the opening questions: a task of this version is never in a dead     *)
(* end, and one from an older file only where an input counts as its first *)
(* although the task has left clarify_input.                               *)
(***************************************************************************)
THEOREM OnlyMigratedDeadEnds == Spec => []DeadEndsAreMigrated
<1>1. IInv /\ AnsweredFirst => DeadEndsAreMigrated
  <2> SUFFICES ASSUME IInv, AnsweredFirst, attempt # NoAttempt, DeadEnd(attempt)
               PROVE  migrated /\ Opening(attempt) /\ attempt.next.stage # "clarify_input"
    BY DEF DeadEndsAreMigrated
  <2>1. Sound(attempt.next) /\ attempt.next.stage \in Stages /\ Continues(attempt)
    BY DEF IInv, Claimed, Sound, Tasks, DeadEnd
  <2>2. attempt.next.status # "done"
    BY <2>1 DEF IInv, Claimed, Continues, ExpectsAgent
  <2>3. \E p \in Candidates : MovesOn(attempt.next, p) /\ Accepts(attempt.next, p, FALSE)
    BY <2>1, <2>2, ClarifyMovesOn, ResearchMovesOn, ExecutionMovesOn, FeedbackMovesOn DEF Stages
  <2>4. Opening(attempt)
    BY <2>3 DEF DeadEnd
  <2>5. attempt.next.stage # "clarify_input"
    BY <2>1, <2>2, <2>4, OpeningIsAccepted DEF DeadEnd
  <2>6. migrated
    BY <2>4, <2>5 DEF IInv, AnsweredFirst, TypeOK
  <2>7. QED
    BY <2>4, <2>5, <2>6
<1>2. QED
  BY <1>1, AlwaysIInv, AlwaysAnsweredFirst, PTL

(***************************************************************************)
(* A task beyond clarify_input with operations of which none is committed, *)
(* unless it is now in an attempt whose input did not count as its first.  *)
(***************************************************************************)
Stranded ==
  /\ task # NoTask /\ task.stage # "clarify_input" /\ task.status # "done"
  /\ ledger = "open"
  /\ attempt # NoAttempt =>
       /\ Opening(attempt) /\ attempt.opened = "open"
       /\ attempt.next.stage # "clarify_input" /\ attempt.base # NoTask

(***************************************************************************)
(* The dead end of a migrated task is for good: no input, refusal, pause   *)
(* or restart gets a stranded task out of it, and every attempt on it is   *)
(* in the dead end.                                                        *)
(***************************************************************************)
THEOREM StrandedForGood ==
  Spec => [](Stranded => [](Stranded /\ (attempt # NoAttempt => DeadEnd(attempt))))
<1>1. ASSUME IInv, Stranded, attempt # NoAttempt PROVE DeadEnd(attempt)
  <2>1. Sound(attempt.next) /\ Opening(attempt) /\ attempt.next.stage # "clarify_input"
    BY <1>1 DEF IInv, Claimed, Stranded
  <2>2. \A p \in Openings : ~Accepts(attempt.next, p, TRUE)
    BY <2>1, OpeningIsRefused
  <2>3. QED
    BY <2>1, <2>2 DEF DeadEnd, Continues, Opening
<1>2. ASSUME IInv, Stranded, [Next]_vars PROVE Stranded'
  <2>1. CASE Create
    BY <1>2, <2>1 DEF Create, Stranded
  <2>2. CASE Input
    <3> DEFINE base == Rewritten(task)
    <3>1. Sound(task) /\ task.status # "done" /\ ledger = "open"
      BY <1>2 DEF IInv, Stranded
    <3>2. Sound(base) /\ base.stage # "clarify_input"
      BY <1>2, <3>1, RewrittenIsSound DEF Rewritten, Stranded, Sound, Tasks
    <3>3. base \in Tasks /\ base # NoTask
      BY <3>2, TaskMachineAssumption DEF TaskMachineAssumption, Sound
    <3>4. PICK first \in FirstInput :
            /\ task' = [base EXCEPT !.status = "active"]
            /\ attempt' = [base |-> base, next |-> base, first |-> first, steps |-> 0,
                           opened |-> ledger]
      BY <2>2 DEF Input
    <3>5. first = TRUE
      BY <3>1 DEF FirstInput
    <3>6. task'.stage = base.stage /\ task'.status = "active" /\ task' \in Tasks
      BY <3>3, <3>4 DEF Tasks, Statuses
    <3>7. ledger' = "open"
      BY <2>2, <3>1 DEF Input
    <3> HIDE DEF base
    <3>8. /\ Opening(attempt)' /\ attempt'.opened = "open"
          /\ attempt'.next = base /\ attempt'.base = base
      BY <3>1, <3>4, <3>5 DEF Opening
    <3>9. QED
      BY <3>2, <3>3, <3>6, <3>7, <3>8, TaskMachineAssumption
         DEF TaskMachineAssumption, Stranded
  <2>3. CASE Step
    <3>1. PICK p \in Candidates : Accepts(attempt.next, p, Opening(attempt))
      BY <2>3 DEF Step
    <3>2. Sound(attempt.next) /\ Opening(attempt) /\ attempt.next.stage # "clarify_input"
      BY <1>2, <2>3 DEF IInv, Claimed, Stranded, Step
    <3>3. Accepts(attempt.next, p, TRUE) /\ p \in Openings
      BY <3>1, <3>2 DEF Accepts, Openings
    <3>4. QED
      BY <3>2, <3>3, OpeningIsRefused
  <2>4. CASE Commit
    BY <1>2, <2>4 DEF Commit, Stranded, Opening, Continues
  <2>5. CASE Refuse
    <3>1. attempt # NoAttempt /\ task' = attempt.base /\ attempt' = NoAttempt /\ ledger' = attempt.opened
      BY <2>5 DEF Refuse
    <3>2. attempt.base # NoTask /\ attempt.opened = "open"
      BY <1>2, <3>1 DEF Stranded
    <3>3. /\ attempt.base \in Tasks /\ attempt.base.status # "done"
          /\ task = [attempt.base EXCEPT !.status = "active"]
      BY <1>2, <3>1, <3>2 DEF IInv, Claimed, Sound
    <3>4. attempt.base.stage = task.stage
      BY <3>3 DEF Tasks
    <3>5. QED
      BY <1>2, <3>1, <3>2, <3>3, <3>4 DEF Stranded
  <2>6. CASE Fail
    BY <1>2, <2>6 DEF Fail, Stranded
  <2>7. CASE PauseTask \/ Restart
    <3>1. task' = [task EXCEPT !.status = "paused"] /\ attempt' = NoAttempt /\ UNCHANGED ledger
      BY <2>7 DEF PauseTask, Restart
    <3>2. task \in Tasks
      BY <1>2 DEF IInv, Stranded, Sound
    <3>3. task' \in Tasks /\ task'.stage = task.stage /\ task'.status = "paused"
      BY <3>1, <3>2 DEF Tasks, Statuses
    <3>4. QED
      BY <1>2, <3>1, <3>3, TaskMachineAssumption DEF TaskMachineAssumption, Stranded
  <2>8. CASE UNCHANGED vars
    BY <1>2, <2>8 DEF vars, Stranded, Opening
  <2>9. QED
    BY <1>2, <2>1, <2>2, <2>3, <2>4, <2>5, <2>6, <2>7, <2>8 DEF Next
<1>3. IInv /\ Stranded => (attempt # NoAttempt => DeadEnd(attempt))
  BY <1>1
<1>4. IInv /\ Stranded /\ [Next]_vars => Stranded'
  BY <1>2
<1>5. QED
  BY <1>3, <1>4, AlwaysIInv, PTL DEF Spec
=============================================================================
