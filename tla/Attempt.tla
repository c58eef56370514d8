------------------------------ MODULE Attempt ------------------------------
(***************************************************************************)
(* One attempt of taskflow.TaskInput between its claim and its final       *)
(* mutation: a chain of autonomous steps, up to three candidates for each, *)
(* one budget of provider calls for all of them, the single BrewMark batch *)
(* of the research phase, the invariant checkers and the memory extractor. *)
(*                                                                         *)
(* Claim and commit around it are Lease and Taskflow, the contents of the  *)
(* proposals TaskMachine.  Here a proposal is the stage it asks for and    *)
(* the one who acts next.                                                  *)
(***************************************************************************)
EXTENDS Naturals, Sequences, FiniteSets

CONSTANTS
  MaxSteps,       \* maxAutonomousSteps, also the budget of provider calls
  MaxCandidates,  \* candidates of one step
  MaxCalls,       \* tool calls of one batch
  Public          \* number of public checkers; the research checker follows them

ASSUME AttemptAssumption ==
  /\ MaxSteps \in Nat \ {0}
  /\ MaxCandidates \in Nat \ {0}
  /\ MaxCalls \in Nat \ {0}
  /\ Public \in Nat

VARIABLES
  pc,         \* what the attempt is waiting for
  task,       \* next: stage and addressee of the last accepted snapshot
  first,      \* no operation of the task counts as committed, see TaskMachine
  step,       \* accepted proposals, the index of the loop
  candidate,  \* rejected candidates of the current step
  budget,     \* callBudget
  research,   \* researchToolUsed and researchAttempt
  calls,      \* the tool calls of the batch in progress or done
  proposal,   \* the decoded candidate
  verdicts,   \* what the checkers have said about it so far
  refused,    \* refusalNeeded
  cancelled,  \* the lease has been taken away: call.Err() # nil
  made,       \* provider calls made for candidates (history)
  batches     \* batches sent to BrewMark (history)

vars == <<pc, task, first, step, candidate, budget, research, calls, proposal, verdicts,
          refused, cancelled, made, batches>>
progress == <<task, first, step>>

Stages == {"clarify_input", "research_input_data", "execution", "user_feedback"}
Research == "research_input_data"
Snapshots == [stage : Stages, expects : {"user", "agent", "none"}]

\* asking, synthesis and extracting are provider calls, batch is the WaitGroup.
Waiting == {"asking", "batch", "synthesis", "judging", "extracting"}
Results == {"commit", "refusal", "failed", "restored"}

ToolStatuses == {"success", "empty", "ambiguous", "broker_error"}
Batches == UNION {[1 .. n -> ToolStatuses \cup {"running"}] : n \in 0 .. MaxCalls}
Outcomes == {"", "no_tool", "success", "partial_failure", "failure"}
Verdicts == {"allow", "violation", "error", "skipped"}

CheckerCount == Public + 1

-----------------------------------------------------------------------------
\* Fault: every research step starts as if no tool had been used.
Prepared_Afresh(stage, r) ==
  IF stage = Research THEN [r EXCEPT !.outcome = "no_tool"] ELSE r

\* The head of the loop: research that has not used a tool is reported so.
Prepared(stage, r) ==
  IF stage = Research /\ r.outcome = "" THEN [r EXCEPT !.outcome = "no_tool"] ELSE r

Init ==
  /\ pc = "asking"
  /\ task \in {s \in Snapshots : s.expects # "none"}
  /\ first \in BOOLEAN
  /\ step = 0 /\ candidate = 0 /\ budget = 0
  /\ research = Prepared(task.stage, [used |-> FALSE, outcome |-> ""])
  /\ calls = <<>>
  /\ proposal = task
  /\ verdicts = <<>>
  /\ refused = FALSE /\ cancelled = FALSE
  /\ made = 0 /\ batches = 0

\* The loop is left with attemptErr.
Fails(result) == pc' = result /\ UNCHANGED <<candidate, refused>>

\* A rejected candidate is repaired, the last one ends the attempt.
Rejected ==
  IF candidate + 1 = MaxCandidates
    THEN pc' = "extracting" /\ refused' = TRUE /\ UNCHANGED candidate
    ELSE pc' = "asking" /\ candidate' = candidate + 1 /\ UNCHANGED refused

\* taskStep has returned: an error, no usable candidate, or a proposal.
Returned ==
  \/ /\ Fails("failed")
     /\ UNCHANGED <<proposal, verdicts>>
  \/ /\ ~cancelled
     /\ Rejected
     /\ UNCHANGED <<proposal, verdicts>>
  \/ /\ ~cancelled
     /\ pc' = "judging"
     /\ proposal' \in Snapshots
     /\ verdicts' = <<>>
     /\ UNCHANGED <<candidate, refused>>

\* The eight calls of the attempt are spent.
Exhausted ==
  /\ pc = "asking" /\ budget >= MaxSteps
  /\ pc' = "extracting"
  /\ refused' = TRUE
  /\ UNCHANGED <<progress, candidate, budget, research, calls, proposal, verdicts,
                 cancelled, made, batches>>

\* Fault: the tools are offered with one call left.
ToolsOffered_LastCall ==
  task.stage = Research /\ ~research.used /\ MaxSteps - budget >= 1

\* Tools need a second call for the synthesis of their results.
ToolsOffered ==
  task.stage = Research /\ ~research.used /\ MaxSteps - budget >= 2

\* A candidate answered in one call: no tools are offered, or none is asked for.
Ask ==
  /\ pc = "asking" /\ budget < MaxSteps
  /\ budget' = budget + 1
  /\ made' = made + 1
  /\ Returned
  /\ UNCHANGED <<progress, research, calls, cancelled, batches>>

\* Fault: that the tools have been used is not noted.
AskTools_Forgets ==
  /\ pc = "asking" /\ budget < MaxSteps
  /\ ToolsOffered
  /\ made' = made + 1
  /\ \E n \in 1 .. MaxCalls : calls' = [i \in 1 .. n |-> "running"]
  /\ batches' = batches + 1
  /\ pc' = "batch"
  /\ UNCHANGED <<progress, candidate, budget, research, proposal, verdicts, refused, cancelled>>

\* A valid batch: every call starts a goroutine of its own.
AskTools ==
  /\ pc = "asking" /\ budget < MaxSteps
  /\ ToolsOffered
  /\ made' = made + 1
  /\ research' = [research EXCEPT !.used = TRUE]
  /\ \E n \in 1 .. MaxCalls : calls' = [i \in 1 .. n |-> "running"]
  /\ batches' = batches + 1
  /\ pc' = "batch"
  /\ UNCHANGED <<progress, candidate, budget, proposal, verdicts, refused, cancelled>>

\* One goroutine has its result, or its deadline or the cancellation.
CallReturns(i) ==
  /\ pc = "batch" /\ calls[i] = "running"
  /\ \E status \in ToolStatuses : calls' = [calls EXCEPT ![i] = status]
  /\ UNCHANGED <<pc, progress, candidate, budget, research, proposal, verdicts, refused,
                 cancelled, made, batches>>

Answered(batch) == {i \in DOMAIN batch : batch[i] \in {"success", "empty", "ambiguous"}}

OutcomeOf(batch) ==
  IF Answered(batch) = {} THEN "failure"
  ELSE IF Answered(batch) = DOMAIN batch THEN "success" ELSE "partial_failure"

\* Fault: the calls that have failed are sent again.
BatchDone_Retries ==
  /\ pc = "batch" /\ \A i \in DOMAIN calls : calls[i] # "running"
  /\ research' = [research EXCEPT !.outcome = OutcomeOf(calls)]
  /\ calls' = [i \in DOMAIN calls |-> IF i \in Answered(calls) THEN calls[i] ELSE "running"]
  /\ pc' = IF Answered(calls) = DOMAIN calls THEN "synthesis" ELSE "batch"
  /\ UNCHANGED <<progress, candidate, budget, proposal, verdicts, refused, cancelled, made,
                 batches>>

\* group.Wait() returns: the outcome of the batch becomes part of the attempt.
BatchDone ==
  /\ pc = "batch" /\ \A i \in DOMAIN calls : calls[i] # "running"
  /\ research' = [research EXCEPT !.outcome = OutcomeOf(calls)]
  /\ pc' = "synthesis"
  /\ UNCHANGED <<progress, candidate, budget, calls, proposal, verdicts, refused, cancelled,
                 made, batches>>

\* The second call of the tool loop: no tools, all results, one proposal.
Synthesize ==
  /\ pc = "synthesis"
  /\ budget' = budget + 2
  /\ made' = made + 1
  /\ Returned
  /\ UNCHANGED <<progress, research, calls, cancelled, batches>>

-----------------------------------------------------------------------------
\* Fault: without a batch there is nothing for the research checker to judge.
Consulted_WithBatch(k) == k <= Public \/ (task.stage = Research /\ research.used)

\* The research checker is skipped where no outcome of the research is reported.
Consulted(k) == k <= Public \/ (task.stage = Research /\ research.outcome # "")

\* Set.Validate: the checkers one after the other, none is left out.
Check ==
  /\ pc = "judging" /\ Len(verdicts) < CheckerCount
  /\ \E verdict \in Verdicts :
       /\ verdict = "skipped" <=> ~Consulted(Len(verdicts) + 1)
       /\ cancelled => verdict \in {"skipped", "error"}
       /\ verdicts' = Append(verdicts, verdict)
  /\ UNCHANGED <<pc, progress, candidate, budget, research, calls, proposal, refused,
                 cancelled, made, batches>>

Judged == pc = "judging" /\ Len(verdicts) = CheckerCount
Given(verdict) == \E k \in DOMAIN verdicts : verdicts[k] = verdict

\* ApplyProposal as far as stages and addressees go.
Acceptable ==
  /\ proposal.expects = "none" => task.stage = "user_feedback" /\ proposal.stage = task.stage
  /\ first /\ step = 0 => proposal.stage = "clarify_input"
  /\ \/ proposal.stage = task.stage
     \/ task.stage = "user_feedback"
     \/ <<task.stage, proposal.stage>> \in {<<"clarify_input", Research>>,
          <<Research, "execution">>, <<"execution", "user_feedback">>}
  /\ task.stage = Research /\ proposal.stage = "execution" => proposal.expects = "agent"
  /\ proposal.stage = "clarify_input" => proposal.expects = "user"
  /\ proposal.stage = "user_feedback" =>
       proposal.expects = IF task.stage = "user_feedback" THEN "none" ELSE "user"

\* A checker that fails is not a verdict: the attempt is undone.
CheckerFailed ==
  /\ Judged /\ Given("error")
  /\ Fails("restored")
  /\ UNCHANGED <<progress, budget, research, calls, proposal, verdicts, cancelled, made,
                 batches>>

Reject ==
  /\ Judged /\ ~Given("error")
  /\ Given("violation") \/ ~Acceptable
  /\ Rejected
  /\ UNCHANGED <<progress, budget, research, calls, proposal, verdicts, cancelled, made,
                 batches>>

\* Fault: the last step is as good as any other.
Accept_LastAsWell ==
  /\ Judged /\ ~Given("error") /\ ~Given("violation") /\ Acceptable
  /\ task' = proposal
  /\ step' = step + 1
  /\ candidate' = 0
  /\ IF proposal.expects = "agent" /\ step + 1 < MaxSteps
       THEN pc' = "asking" /\ research' = Prepared(proposal.stage, research)
       ELSE pc' = "extracting" /\ UNCHANGED research
  /\ UNCHANGED <<first, budget, calls, proposal, verdicts, cancelled, made, batches, refused>>

(***************************************************************************)
(* The snapshot is taken over.  An agent that is expected goes on at once; *)
(* where the last step still expects it, nothing of the chain is kept.     *)
(***************************************************************************)
Accept ==
  /\ Judged /\ ~Given("error") /\ ~Given("violation") /\ Acceptable
  /\ task' = proposal
  /\ step' = step + 1
  /\ candidate' = 0
  /\ refused' = (proposal.expects = "agent" /\ step + 1 = MaxSteps)
  /\ IF proposal.expects = "agent" /\ step + 1 < MaxSteps
       THEN pc' = "asking" /\ research' = Prepared(proposal.stage, research)
       ELSE pc' = "extracting" /\ UNCHANGED research
  /\ UNCHANGED <<first, budget, calls, proposal, verdicts, cancelled, made, batches>>

\* The memory extractor answers, and the lease was not lost meanwhile.
Extract ==
  /\ pc = "extracting"
  /\ \/ Fails("failed")
     \/ ~cancelled /\ Fails(IF refused THEN "refusal" ELSE "commit")
  /\ UNCHANGED <<progress, budget, research, calls, proposal, verdicts, cancelled, made,
                 batches>>

\* A pause or a deletion takes the lease away and cancels the call.
Cancel ==
  /\ pc \in Waiting /\ ~cancelled
  /\ cancelled' = TRUE
  /\ UNCHANGED <<pc, progress, candidate, budget, research, calls, proposal, verdicts,
                 refused, made, batches>>

Returns == pc \in Results /\ UNCHANGED vars

Works ==
  \/ Exhausted \/ Ask \/ AskTools
  \/ \E i \in DOMAIN calls : CallReturns(i)
  \/ BatchDone \/ Synthesize
  \/ Check \/ CheckerFailed \/ Reject \/ Accept
  \/ Extract

Next == Works \/ Cancel \/ Returns

(***************************************************************************)
(* Every call has a deadline: the completions that of their model, the     *)
(* tool calls five seconds each.                                           *)
(***************************************************************************)
Spec == Init /\ [][Next]_vars /\ WF_vars(Works)

-----------------------------------------------------------------------------
TypeOK ==
  /\ pc \in Waiting \cup Results
  /\ task \in Snapshots /\ proposal \in Snapshots
  /\ first \in BOOLEAN /\ refused \in BOOLEAN /\ cancelled \in BOOLEAN
  /\ step \in 0 .. MaxSteps
  /\ candidate \in 0 .. MaxCandidates - 1
  /\ budget \in 0 .. MaxSteps
  /\ research \in [used : BOOLEAN, outcome : Outcomes]
  /\ calls \in Batches
  /\ verdicts \in UNION {[1 .. n -> Verdicts] : n \in 0 .. CheckerCount}
  /\ made \in Nat /\ batches \in Nat

(***************************************************************************)
(* The provider is asked at most MaxSteps times for candidates, repairs    *)
(* and tool results together, however the steps share the budget           *)
(* (.specs/task-state-machine/SPEC.md, AC-TSM-09).                         *)
(***************************************************************************)
WithinBudget == made <= MaxSteps

(***************************************************************************)
(* One attempt sends at most one batch to BrewMark, across the steps of    *)
(* the research phase and the repairs of their candidates.                 *)
(***************************************************************************)
OneBatch == batches <= 1

(***************************************************************************)
(* What the research checker is told of the tools is what became of them,  *)
(* also in the steps and repairs after the one that used them: no tool,    *)
(* all answered, some, or none.                                            *)
(***************************************************************************)
ReportIsTrue ==
  pc = "judging" /\ task.stage = Research =>
    research.outcome =
      IF batches = 0 THEN "no_tool"
      ELSE LET failed == {i \in DOMAIN calls : calls[i] = "broker_error"}
           IN  IF failed = {} THEN "success"
               ELSE IF failed = DOMAIN calls THEN "failure" ELSE "partial_failure"

(***************************************************************************)
(* A committed chain leaves the agent nothing to do on its own: it stopped *)
(* at the user or at the end of the task and never at a limit.             *)
(***************************************************************************)
CommitAwaitsUser == pc = "commit" => step > 0 /\ task.expects # "agent"

(***************************************************************************)
(* No snapshot is taken over that a checker has not allowed; while the     *)
(* task is in research, the research checker is one of them.               *)
(***************************************************************************)
AcceptedWasJudged ==
  [][step' > step =>
       /\ \A k \in 1 .. Public : verdicts[k] = "allow"
       /\ task.stage = Research => verdicts[CheckerCount] = "allow"]_vars

(***************************************************************************)
(* Every attempt ends, whatever models, tools and checkers answer: its     *)
(* lease is never held by an attempt that waits for something lost.        *)
(***************************************************************************)
AttemptEnds == <>[](pc \in Results)
=============================================================================
