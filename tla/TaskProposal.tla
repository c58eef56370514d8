---------------------------- MODULE TaskProposal ----------------------------
(***************************************************************************)
(* domain/model: the task record, the plan rules (validateTaskPlan) and    *)
(* the acceptance of one proposal of the task agent (ApplyProposal), with  *)
(* the mandatory gate that taskflow applies to what was accepted.          *)
(*                                                                         *)
(* Texts are abstracted.  An expected action is its addressee: the prefix  *)
(* "user:" or "agent:", the literal "none", or anything else.  A plan item *)
(* is the pair of its id and title, so a completed item whose title was    *)
(* changed is a missing item, and a plan is a function of its items.       *)
(* Proposals that are blank, repeat an id or leave the closed enumerations *)
(* are not enumerated: they are rejected like any other.                   *)
(***************************************************************************)
EXTENDS FiniteSets

CONSTANTS
  Items,           \* plan items (id and title)
  Labels,          \* stages a plan item may carry, "other" for none
  NoItem,          \* no current plan item
  ValidationItem   \* the item "<task id>-validation" that taskflow appends

ASSUME ProposalAssumption ==
  /\ NoItem \notin Items /\ ValidationItem \in Items
  /\ {"execution", "other"} \subseteq Labels

Stages == {"clarify_input", "research_input_data", "execution", "user_feedback"}
Statuses == {"active", "paused", "done"}
ItemStatuses == {"pending", "current", "completed"}
Addressees == {"user", "agent", "none", "other"}

Plans == UNION {[S -> [status : ItemStatuses, label : Labels]] : S \in SUBSET Items}

EmptyPlan == [i \in {} |-> NoItem]

WithStatus(plan, status) == {i \in DOMAIN plan : plan[i].status = status}
Completed(plan) == WithStatus(plan, "completed")

\* gate is ValidationResult.Status, legacy its LegacyUnvalidated mark.
Tasks ==
  [stage : Stages, status : Statuses, expects : Addressees, plan : Plans,
   current : Items \cup {NoItem}, gate : {"not_validated", "passed"}, legacy : BOOLEAN]

\* asks: the proposal carries questions (and, first, its understanding).
Proposals ==
  [stage : Stages, status : Statuses, expects : Addressees, plan : Plans,
   current : Items \cup {NoItem}, asks : BOOLEAN, positive : BOOLEAN]

(***************************************************************************)
(* validateTaskPlan.  ungated allows the one candidate that has not passed *)
(* the gate yet; a stored task is always validated with ungated = FALSE.   *)
(***************************************************************************)
Final(task) == task.stage = "user_feedback" \/ task.status = "done"

GateIsConsistent(task, ungated) ==
  /\ task.gate = "not_validated" /\ task.legacy => Final(task)
  /\ Final(task) /\ ~ungated => task.legacy \/ task.gate = "passed"

PlanIsConsistent(task) ==
  IF DOMAIN task.plan = {}
    THEN task.current = NoItem /\ task.stage = "clarify_input"
    ELSE IF Final(task)
    THEN task.current = NoItem /\ Completed(task.plan) = DOMAIN task.plan
    ELSE /\ task.stage # "clarify_input"
         /\ WithStatus(task.plan, "current") = {task.current}

ValidateTaskPlan(task, ungated) ==
  /\ task.status = "done" => task.stage = "user_feedback"
  /\ GateIsConsistent(task, ungated)
  /\ PlanIsConsistent(task)

(***************************************************************************)
(* ApplyProposal.                                                          *)
(***************************************************************************)
LegalStageTransition(previous, next) ==
  \/ previous = next
  \/ previous = "clarify_input" /\ next = "research_input_data"
  \/ previous = "research_input_data" /\ next = "execution"
  \/ previous = "execution" /\ next = "user_feedback"
  \/ previous = "user_feedback"   \* to any of the three others

FinishesExecution(previous, p) ==
  previous.stage = "execution" /\ p.stage = "user_feedback"

\* Research prepares the next step, it cannot already have executed it.
StartsExecutionFresh(p) ==
  /\ p.status = "active" /\ p.expects = "agent"
  /\ \A i \in Completed(p.plan) : p.plan[i].label # "execution"

\* Fault: what is completed may be dropped from the next plan.
KeepsCompleted_Droppable(previous, p) ==
  Completed(previous.plan) \cap DOMAIN p.plan \subseteq Completed(p.plan)

KeepsCompleted(previous, p) == Completed(previous.plan) \subseteq Completed(p.plan)

\* The next snapshot: leaving user_feedback forgets the evidence of the gate.
Applied(previous, p) ==
  LET forgets == previous.stage = "user_feedback" /\ p.stage # previous.stage
  IN  [previous EXCEPT
         !.stage = p.stage, !.status = p.status, !.expects = p.expects,
         !.plan = p.plan, !.current = p.current,
         !.gate = IF forgets THEN "not_validated" ELSE @,
         !.legacy = IF forgets THEN FALSE ELSE @]

OpensWithQuestions(p) == p.stage = "clarify_input" /\ p.asks

\* What is asked of a proposal whatever task it is for.
WellFormed(p) ==
  /\ p.status # "paused"
  /\ p.status = "active" => p.expects \in {"user", "agent"}
  /\ p.stage = "clarify_input" => p.expects = "user" /\ p.asks
  /\ p.stage = "user_feedback" /\ p.status = "active" => p.expects = "user"
  /\ p.status = "done" => p.stage = "user_feedback" /\ p.expects = "none" /\ p.positive

Accepts(previous, p, first) ==
  /\ WellFormed(p) /\ previous.status # "done"
  /\ first => OpensWithQuestions(p)
  /\ LegalStageTransition(previous.stage, p.stage)
  /\ previous.stage = "research_input_data" /\ p.stage = "execution"
       => StartsExecutionFresh(p)
  /\ previous.stage = "user_feedback" /\ p.stage = "user_feedback" => p.status = "done"
  /\ FinishesExecution(previous, p) => Completed(p.plan) = DOMAIN p.plan
  /\ p.status = "done" => previous.stage = "user_feedback"
  /\ previous.stage = "user_feedback" /\ p.stage # "user_feedback" => ~p.positive
  /\ KeepsCompleted(previous, p)
  /\ ValidateTaskPlan(Applied(previous, p), FinishesExecution(previous, p))

\* Any other proposal is rejected for every task.
Candidates == {p \in Proposals : WellFormed(p)}

ExpectsAgent(task) == task.status = "active" /\ task.expects = "agent"

(***************************************************************************)
(* taskflow.TaskInput, on an accepted proposal that the invariant pipeline *)
(* has cleared: finishing the execution is the proof of the gate.          *)
(***************************************************************************)
\* Fault: a result without evidence is stored like a migrated one.
Gated_MarksLegacy(previous, p) ==
  IF FinishesExecution(previous, p)
    THEN [Applied(previous, p) EXCEPT !.legacy = TRUE]
    ELSE Applied(previous, p)

Gated(previous, p) ==
  IF FinishesExecution(previous, p)
    THEN [Applied(previous, p) EXCEPT !.gate = "passed", !.legacy = FALSE]
    ELSE Applied(previous, p)
=============================================================================
