--------------------------- MODULE AttemptProofs ---------------------------
(***************************************************************************)
(* The safety of one attempt for every number of steps, candidates, tool   *)
(* calls and checkers.  IInv says how much of the budget has been spent at *)
(* each point of the loop, what the report of the tools is made of, which  *)
(* checkers have spoken and when an attempt may reach its commit.          *)
(***************************************************************************)
EXTENDS Attempt, TLAPS

(***************************************************************************)
(* Inside the tool loop one call has been made that is not in the budget   *)
(* yet, and one more fits in it.                                           *)
(***************************************************************************)
Spent ==
  /\ budget \in Nat /\ made \in Nat
  /\ IF pc \in {"batch", "synthesis"}
       THEN made = budget + 1 /\ budget + 2 <= MaxSteps
       ELSE made = budget /\ budget <= MaxSteps

\* A batch is noted before it is sent.
Noted ==
  /\ batches = IF research.used THEN 1 ELSE 0
  /\ pc \in {"batch", "synthesis"} => research.used

\* The report of a batch is made of its calls, that of no batch is "no_tool".
Reported ==
  /\ batches = 0 => research.outcome \in {"", "no_tool"}
  /\ batches = 0 /\ pc \in {"asking", "judging"} /\ task.stage = Research
       => research.outcome = "no_tool"
  /\ batches # 0 => DOMAIN calls # {}
  /\ batches # 0 /\ pc # "batch" =>
       /\ research.outcome = OutcomeOf(calls)
       /\ \A i \in DOMAIN calls : calls[i] # "running"

\* A checker is skipped exactly where it is not consulted.
Heard ==
  pc = "judging" =>
    /\ Len(verdicts) <= CheckerCount
    /\ \A k \in DOMAIN verdicts :
         verdicts[k] = "skipped" <=> ~Consulted(k)

\* Only a chain that has stopped at the user goes to the extractor unrefused.
Rests ==
  /\ pc \in Waiting \ {"extracting"} => refused = FALSE
  /\ pc = "extracting" /\ refused = FALSE => step > 0 /\ task.expects # "agent"
  /\ pc = "commit" => step > 0 /\ task.expects # "agent"

Shapes ==
  /\ pc \in Waiting \cup Results
  /\ task \in Snapshots /\ proposal \in Snapshots
  /\ first \in BOOLEAN /\ refused \in BOOLEAN /\ cancelled \in BOOLEAN
  /\ step \in 0 .. MaxSteps
  /\ pc \in Waiting \ {"extracting"} => step < MaxSteps
  /\ candidate \in 0 .. MaxCandidates - 1
  /\ research \in [used : BOOLEAN, outcome : Outcomes]
  /\ calls \in Batches
  /\ verdicts \in Seq(Verdicts)
  /\ Len(verdicts) <= CheckerCount
  /\ batches \in Nat

IInv == Shapes /\ Spent /\ Noted /\ Reported /\ Heard /\ Rests

-----------------------------------------------------------------------------
(* The two ways a provider call or a verdict may end the work on a candidate. *)

\* A rejected candidate leaves the counters of the loop within their bounds.
LEMMA RejectedKeepsLoop ==
  ASSUME IInv, pc \in Waiting \ {"extracting"}, Rejected
  PROVE  /\ candidate' \in 0 .. MaxCandidates - 1
         /\ refused' \in BOOLEAN
         /\ pc' \in {"asking", "extracting"}
         /\ pc' = "asking" => refused' = FALSE
         /\ pc' = "extracting" => refused' = TRUE
<1>1. candidate \in 0 .. MaxCandidates - 1 /\ refused = FALSE
  BY DEF IInv, Shapes, Rests
<1>2. MaxCandidates \in Nat \ {0}
  BY AttemptAssumption DEF AttemptAssumption
<1>3. candidate' \in 0 .. MaxCandidates - 1 /\ pc' \in {"asking", "extracting"}
  BY <1>1, <1>2, SMT DEF Rejected
<1>4. /\ refused' \in BOOLEAN
      /\ pc' = "asking" => refused' = FALSE
      /\ pc' = "extracting" => refused' = TRUE
  BY <1>1 DEF Rejected
<1>5. QED
  BY <1>3, <1>4

\* So does whatever one call of taskStep returns.
LEMMA ReturnedKeepsLoop ==
  ASSUME IInv, pc \in Waiting \ {"extracting"}, Returned
  PROVE  /\ candidate' \in 0 .. MaxCandidates - 1
         /\ refused' \in BOOLEAN
         /\ pc' \in {"asking", "extracting", "judging", "failed"}
         /\ pc' \in {"asking", "judging"} => refused' = FALSE
         /\ pc' = "extracting" => refused' = TRUE
         /\ proposal' \in Snapshots
         /\ verdicts' \in Seq(Verdicts) /\ Len(verdicts') <= CheckerCount
         /\ pc' = "judging" => verdicts' = <<>>
<1>1. CASE Fails("failed") /\ UNCHANGED <<proposal, verdicts>>
  BY <1>1 DEF IInv, Shapes, Rests, Fails, Waiting
<1>2. CASE Rejected /\ UNCHANGED <<proposal, verdicts>>
  <2>1. proposal' \in Snapshots /\ verdicts' \in Seq(Verdicts) /\ Len(verdicts') <= CheckerCount
    BY <1>2 DEF IInv, Shapes
  <2>2. QED
    BY <1>2, <2>1, RejectedKeepsLoop
<1>3. CASE /\ pc' = "judging" /\ proposal' \in Snapshots /\ verdicts' = <<>>
           /\ UNCHANGED <<candidate, refused>>
  <2>1. <<>> \in Seq(Verdicts) /\ Len(<<>>) = 0
    OBVIOUS
  <2>2. 0 <= CheckerCount
    BY AttemptAssumption, SMT DEF AttemptAssumption, CheckerCount
  <2>3. candidate \in 0 .. MaxCandidates - 1 /\ refused = FALSE
    BY DEF IInv, Shapes, Rests
  <2>4. QED
    BY <1>3, <2>1, <2>2, <2>3
<1>4. QED
  BY <1>1, <1>2, <1>3 DEF Returned

\* An attempt starts with its whole budget and no batch.
LEMMA InitIInv == Init => IInv
<1> SUFFICES ASSUME Init PROVE IInv
  OBVIOUS
<1>1. calls \in Batches
  <2>1. <<>> \in [1 .. 0 -> ToolStatuses \cup {"running"}]
    BY SMT
  <2>2. 0 \in 0 .. MaxCalls
    BY AttemptAssumption, SMT DEF AttemptAssumption
  <2>3. calls = <<>>
    BY DEF Init
  <2>4. QED
    BY <2>1, <2>2, <2>3 DEF Batches
<1>2. /\ research \in [used : BOOLEAN, outcome : Outcomes]
      /\ research.used = FALSE
      /\ research.outcome \in {"", "no_tool"}
      /\ task.stage = Research => research.outcome = "no_tool"
  BY DEF Init, Prepared, Outcomes, Research
<1>3. task \in Snapshots
  BY DEF Init
<1>4. step = 0 /\ step \in 0 .. MaxSteps /\ step < MaxSteps
      /\ candidate \in 0 .. MaxCandidates - 1 /\ 0 <= CheckerCount /\ Spent
  <2>1. step = 0 /\ candidate = 0 /\ budget = 0 /\ made = 0 /\ pc = "asking"
    BY DEF Init
  <2>2. QED
    BY <2>1, AttemptAssumption, SMT DEF AttemptAssumption, CheckerCount, Spent
<1>5. Shapes
  <2>1. <<>> \in Seq(Verdicts) /\ Len(<<>>) = 0
    OBVIOUS
  <2>2. verdicts \in Seq(Verdicts) /\ Len(verdicts) <= CheckerCount
    BY <1>4, <2>1 DEF Init
  <2>3. batches \in Nat
    BY DEF Init
  <2>4. /\ pc \in Waiting /\ first \in BOOLEAN /\ refused \in BOOLEAN
        /\ cancelled \in BOOLEAN /\ proposal = task
    BY DEF Init, Waiting
  <2>5. QED
    BY <1>1, <1>2, <1>3, <1>4, <2>2, <2>3, <2>4 DEF Shapes
<1>6. Noted /\ Reported /\ Heard /\ Rests
  <2>1. /\ pc = "asking" /\ batches = 0 /\ refused = FALSE
    BY DEF Init
  <2>2. Noted
    BY <1>2, <2>1 DEF Noted
  <2>3. Reported
    BY <1>2, <2>1 DEF Reported
  <2>4. Heard /\ Rests
    BY <2>1 DEF Heard, Rests
  <2>5. QED
    BY <2>2, <2>3, <2>4
<1>7. QED
  BY <1>4, <1>5, <1>6 DEF IInv

-----------------------------------------------------------------------------
\* Ask and Synthesize: a provider call that may end the work on a candidate.
LEMMA AskKeeps == ASSUME IInv, Ask PROVE IInv'
<1>1. pc \in Waiting \ {"extracting"} /\ Returned
  BY DEF Ask, Waiting
<1>2. /\ candidate' \in 0 .. MaxCandidates - 1
      /\ refused' \in BOOLEAN
      /\ pc' \in {"asking", "extracting", "judging", "failed"}
      /\ pc' \in {"asking", "judging"} => refused' = FALSE
      /\ pc' = "extracting" => refused' = TRUE
      /\ proposal' \in Snapshots
      /\ verdicts' \in Seq(Verdicts) /\ Len(verdicts') <= CheckerCount
      /\ pc' = "judging" => verdicts' = <<>>
  BY <1>1, ReturnedKeepsLoop
<1>3. Shapes'
  <2>1. step' = step /\ (pc' \in Waiting \ {"extracting"} => step' < MaxSteps)
    BY DEF IInv, Shapes, Ask, progress, Waiting
  <2>2. pc' \in Waiting \cup Results
    BY <1>2 DEF Waiting, Results
  <2>3. QED
    BY <1>2, <2>1, <2>2 DEF IInv, Shapes, Ask, progress
<1>4. Spent'
  BY <1>2, AttemptAssumption, SMT DEF IInv, Spent, Ask
<1>5. Noted' /\ Reported'
  <2>1. UNCHANGED <<task, research, calls, batches>> /\ OutcomeOf(calls)' = OutcomeOf(calls)
    BY DEF Ask, progress, OutcomeOf, Answered
  <2>2. pc \in {"asking", "synthesis"} /\ pc' # "batch"
    BY <1>2 DEF Ask
  <2>3. pc = "synthesis" => batches # 0
    BY DEF IInv, Noted
  <2>4. QED
    BY <1>2, <2>1, <2>2, <2>3 DEF IInv, Noted, Reported
<1>6. Heard'
  BY <1>2, AttemptAssumption, SMT DEF IInv, Shapes, Heard, CheckerCount
<1>7. Rests'
  BY <1>2, SMT DEF Rests, Waiting
<1>8. QED
  BY <1>3, <1>4, <1>5, <1>6, <1>7 DEF IInv

\* The same for the second call of the tool loop, with the batch behind it.
LEMMA SynthesizeKeeps == ASSUME IInv, Synthesize PROVE IInv'
<1>1. pc \in Waiting \ {"extracting"} /\ Returned
  BY DEF Synthesize, Waiting
<1>2. /\ candidate' \in 0 .. MaxCandidates - 1
      /\ refused' \in BOOLEAN
      /\ pc' \in {"asking", "extracting", "judging", "failed"}
      /\ pc' \in {"asking", "judging"} => refused' = FALSE
      /\ pc' = "extracting" => refused' = TRUE
      /\ proposal' \in Snapshots
      /\ verdicts' \in Seq(Verdicts) /\ Len(verdicts') <= CheckerCount
      /\ pc' = "judging" => verdicts' = <<>>
  BY <1>1, ReturnedKeepsLoop
<1>3. Shapes'
  <2>1. step' = step /\ (pc' \in Waiting \ {"extracting"} => step' < MaxSteps)
    BY DEF IInv, Shapes, Synthesize, progress, Waiting
  <2>2. pc' \in Waiting \cup Results
    BY <1>2 DEF Waiting, Results
  <2>3. QED
    BY <1>2, <2>1, <2>2 DEF IInv, Shapes, Synthesize, progress
<1>4. Spent'
  BY <1>2, AttemptAssumption, SMT DEF IInv, Spent, Synthesize
<1>5. Noted' /\ Reported'
  <2>1. UNCHANGED <<task, research, calls, batches>> /\ OutcomeOf(calls)' = OutcomeOf(calls)
    BY DEF Synthesize, progress, OutcomeOf, Answered
  <2>2. pc \in {"asking", "synthesis"} /\ pc' # "batch"
    BY <1>2 DEF Synthesize
  <2>3. pc = "synthesis" => batches # 0
    BY DEF IInv, Noted
  <2>4. QED
    BY <1>2, <2>1, <2>2, <2>3 DEF IInv, Noted, Reported
<1>6. Heard'
  BY <1>2, AttemptAssumption, SMT DEF IInv, Shapes, Heard, CheckerCount
<1>7. Rests'
  BY <1>2, SMT DEF Rests, Waiting
<1>8. QED
  BY <1>3, <1>4, <1>5, <1>6, <1>7 DEF IInv

-----------------------------------------------------------------------------
\* A batch is sent: one call is made that is not in the budget yet.
LEMMA AskToolsKeeps == ASSUME IInv, AskTools PROVE IInv'
<1>1. Shapes'
  <2>1. PICK n \in 1 .. MaxCalls : calls' = [i \in 1 .. n |-> "running"]
    BY DEF AskTools
  <2>2. n \in 0 .. MaxCalls /\ calls' \in [1 .. n -> ToolStatuses \cup {"running"}]
    BY <2>1, AttemptAssumption, SMT DEF AttemptAssumption
  <2>3. calls' \in Batches
    BY <2>2 DEF Batches
  <2>4. batches' \in Nat
    BY DEF IInv, Shapes, AskTools
  <2>5. research' \in [used : BOOLEAN, outcome : Outcomes]
    BY DEF IInv, Shapes, AskTools
  <2>6. QED
    BY <2>3, <2>4, <2>5 DEF IInv, Shapes, AskTools, progress, Waiting
<1>2. Spent'
  BY AttemptAssumption, SMT DEF AttemptAssumption, IInv, Spent, AskTools, ToolsOffered
<1>3. Noted' /\ Reported'
  <2>1. batches = 0 /\ research \in [used : BOOLEAN, outcome : Outcomes]
    BY DEF IInv, Shapes, Noted, AskTools, ToolsOffered
  <2>2. batches' = 1 /\ research'.used = TRUE /\ pc' = "batch"
    BY <2>1 DEF AskTools
  <2>3. DOMAIN calls' # {}
    BY SMT DEF AskTools
  <2>4. QED
    BY <2>2, <2>3 DEF Noted, Reported
<1>4. Heard' /\ Rests'
  BY DEF IInv, Heard, Rests, AskTools, Waiting
<1>5. QED
  BY <1>1, <1>2, <1>3, <1>4 DEF IInv

\* One goroutine of the batch ends.
LEMMA CallReturnsKeeps ==
  ASSUME IInv, NEW i \in DOMAIN calls, CallReturns(i) PROVE IInv'
<1>1. Shapes'
  <2>1. PICK n \in 0 .. MaxCalls : calls \in [1 .. n -> ToolStatuses \cup {"running"}]
    BY DEF IInv, Shapes, Batches
  <2>2. calls' \in [1 .. n -> ToolStatuses \cup {"running"}]
    BY <2>1 DEF CallReturns
  <2>3. calls' \in Batches
    BY <2>1, <2>2 DEF Batches
  <2>4. QED
    BY <2>3 DEF IInv, Shapes, CallReturns, progress
<1>2. pc = "batch" /\ UNCHANGED <<pc, task, step, budget, research, verdicts, refused, made, batches>>
  BY DEF CallReturns, progress
<1>3. Spent' /\ Noted' /\ Rests' /\ Heard'
  BY <1>2 DEF IInv, Spent, Noted, Rests, Heard
<1>4. Reported'
  BY <1>2 DEF IInv, Reported, CallReturns
<1>5. QED
  BY <1>1, <1>3, <1>4 DEF IInv

\* The WaitGroup is done: the report is made of the finished calls.
LEMMA BatchDoneKeeps == ASSUME IInv, BatchDone PROVE IInv'
<1>1. OutcomeOf(calls) \in Outcomes
  BY DEF OutcomeOf, Outcomes
<1>2. /\ pc = "batch" /\ pc' = "synthesis"
      /\ research' = [research EXCEPT !.outcome = OutcomeOf(calls)]
      /\ UNCHANGED <<task, first, step, candidate, budget, calls, proposal, verdicts, refused,
                    cancelled, made, batches>>
  BY DEF BatchDone, progress
<1>3. /\ research' \in [used : BOOLEAN, outcome : Outcomes]
      /\ research'.used = research.used
      /\ research'.outcome = OutcomeOf(calls)
  BY <1>1, <1>2 DEF IInv, Shapes
<1>4. Shapes'
  BY <1>2, <1>3 DEF IInv, Shapes, Waiting
<1>5. Spent' /\ Rests' /\ Heard'
  BY <1>2 DEF IInv, Spent, Rests, Heard, Waiting
<1>6. Noted'
  BY <1>2, <1>3 DEF IInv, Noted
<1>7. Reported'
  <2>1. research.used = TRUE /\ batches = 1
    BY <1>2 DEF IInv, Shapes, Noted
  <2>2. OutcomeOf(calls)' = OutcomeOf(calls)
    BY <1>2 DEF OutcomeOf, Answered
  <2>3. DOMAIN calls # {} /\ \A i \in DOMAIN calls : calls[i] # "running"
    BY <2>1 DEF BatchDone, IInv, Reported
  <2>4. QED
    BY <1>2, <1>3, <2>1, <2>2, <2>3 DEF Reported
<1>8. QED
  BY <1>4, <1>5, <1>6, <1>7 DEF IInv

-----------------------------------------------------------------------------
\* One more checker has spoken.
LEMMA CheckKeeps == ASSUME IInv, Check PROVE IInv'
<1>1. PICK verdict \in Verdicts :
        /\ verdict = "skipped" <=> ~Consulted(Len(verdicts) + 1)
        /\ verdicts' = Append(verdicts, verdict)
  BY DEF Check
<1>2. /\ pc = "judging" /\ Len(verdicts) < CheckerCount
      /\ UNCHANGED <<pc, task, first, step, candidate, budget, research, calls, proposal, refused,
                    cancelled, made, batches>>
  BY DEF Check, progress
<1>3. verdicts \in Seq(Verdicts) /\ CheckerCount \in Nat
  BY AttemptAssumption, SMT DEF AttemptAssumption, IInv, Shapes, CheckerCount
<1>4. /\ verdicts' \in Seq(Verdicts)
      /\ Len(verdicts') = Len(verdicts) + 1
      /\ Len(verdicts') <= CheckerCount
      /\ \A k \in 1 .. Len(verdicts) : verdicts'[k] = verdicts[k]
      /\ verdicts'[Len(verdicts) + 1] = verdict
      /\ DOMAIN verdicts' = 1 .. Len(verdicts) + 1 /\ DOMAIN verdicts = 1 .. Len(verdicts)
      /\ Len(verdicts) \in Nat
  BY <1>1, <1>2, <1>3
<1>5. Shapes'
  BY <1>2, <1>4 DEF IInv, Shapes
<1>6. Spent' /\ Noted' /\ Rests'
  BY <1>2 DEF IInv, Spent, Noted, Rests
<1>7. Reported'
  BY <1>2 DEF IInv, Reported, OutcomeOf, Answered
<1>8. Heard'
  <2>1. ASSUME NEW k \in 1 .. Len(verdicts) + 1
        PROVE  verdicts'[k] = "skipped" <=> ~Consulted(k)
    <3>1. CASE k = Len(verdicts) + 1
      BY <3>1, <1>1, <1>4
    <3>2. CASE k # Len(verdicts) + 1
      <4>1. k \in 1 .. Len(verdicts)
        BY <3>2, <1>4
      <4>2. QED
        BY <4>1, <1>2, <1>4 DEF IInv, Heard
    <3>3. QED
      BY <3>1, <3>2
  <2>2. \A k : Consulted(k)' <=> Consulted(k)
    BY <1>2 DEF Consulted
  <2>3. QED
    BY <1>4, <2>1, <2>2 DEF Heard
<1>9. QED
  BY <1>5, <1>6, <1>7, <1>8 DEF IInv

\* A step that only moves pc to the end of the attempt, or nowhere.
LEMMA EndingKeeps ==
  ASSUME IInv, pc \notin {"batch", "synthesis"},
         pc' \in {"asking", "extracting"} \cup Results,
         pc' = "asking" => pc = "judging" /\ refused' = FALSE,
         pc' = "extracting" => refused' = TRUE,
         pc' = "commit" => step > 0 /\ task.expects # "agent",
         candidate' \in 0 .. MaxCandidates - 1, refused' \in BOOLEAN,
         UNCHANGED <<task, first, step, budget, research, calls, proposal, verdicts, cancelled,
                     made, batches>>
  PROVE  IInv'
<1>1. Shapes'
  BY DEF IInv, Shapes, Waiting, Results
<1>2. Spent' /\ Noted'
  BY DEF IInv, Spent, Noted, Results
<1>3. Reported'
  <2>1. OutcomeOf(calls)' = OutcomeOf(calls)
    BY DEF OutcomeOf, Answered
  <2>2. pc' \notin {"batch", "judging"} /\ pc # "batch"
    BY DEF Results
  <2>3. QED
    BY <2>1, <2>2 DEF IInv, Reported
<1>4. Heard' /\ Rests'
  BY DEF Heard, Rests, Waiting, Results
<1>5. QED
  BY <1>1, <1>2, <1>3, <1>4 DEF IInv

\* Whatever ends the work on a candidate, or the attempt.
LEMMA LeavesKeep ==
  ASSUME IInv, CheckerFailed \/ Reject \/ Extract \/ Exhausted PROVE IInv'
<1>1. candidate \in 0 .. MaxCandidates - 1 /\ refused \in BOOLEAN
  BY DEF IInv, Shapes
<1>2. CASE CheckerFailed
  BY <1>1, <1>2, EndingKeeps DEF CheckerFailed, Judged, Fails, progress, Results
<1>3. CASE Reject
  <2>1. pc = "judging" /\ Rejected
    BY <1>3 DEF Reject, Judged
  <2>2. /\ candidate' \in 0 .. MaxCandidates - 1
        /\ refused' \in BOOLEAN
        /\ pc' \in {"asking", "extracting"}
        /\ pc' = "asking" => refused' = FALSE
        /\ pc' = "extracting" => refused' = TRUE
    BY <2>1, RejectedKeepsLoop DEF Waiting
  <2>3. UNCHANGED <<task, first, step, budget, research, calls, proposal, verdicts, cancelled,
                    made, batches>>
    BY <1>3 DEF Reject, progress
  <2>4. QED
    BY <2>1, <2>2, <2>3, EndingKeeps
<1>4. CASE Extract
  <2>1. /\ pc = "extracting" /\ UNCHANGED <<candidate, refused>>
        /\ pc' \in Results
        /\ pc' = "commit" => refused = FALSE
    BY <1>1, <1>4 DEF Extract, Fails, Results
  <2>2. pc' = "commit" => step > 0 /\ task.expects # "agent"
    BY <2>1 DEF IInv, Rests
  <2>3. UNCHANGED <<task, first, step, budget, research, calls, proposal, verdicts, cancelled,
                    made, batches>>
    BY <1>4 DEF Extract, progress
  <2>4. pc' # "asking" /\ pc' # "extracting"
    BY <2>1 DEF Results
  <2>5. QED
    BY <1>1, <2>1, <2>2, <2>3, <2>4, EndingKeeps
<1>5. CASE Exhausted
  BY <1>1, <1>5, EndingKeeps DEF Exhausted, progress
<1>6. QED
  BY <1>2, <1>3, <1>4, <1>5

\* An accepted proposal goes on to the next step, or to the extractor.
LEMMA AcceptKeeps == ASSUME IInv, Accept PROVE IInv'
<1>1. /\ pc = "judging" /\ task' = proposal /\ step' = step + 1 /\ candidate' = 0
      /\ pc' = IF proposal.expects = "agent" /\ step + 1 < MaxSteps THEN "asking" ELSE "extracting"
      /\ research' = IF pc' = "asking" THEN Prepared(proposal.stage, research) ELSE research
      /\ UNCHANGED <<first, budget, calls, proposal, verdicts, cancelled, made, batches>>
  BY DEF Accept, Judged
<1>2. refused' \in BOOLEAN
      /\ refused' = (proposal.expects = "agent" /\ step + 1 = MaxSteps)
  BY DEF Accept
<1>3. step \in Nat /\ step < MaxSteps /\ MaxSteps \in Nat /\ MaxCandidates \in Nat \ {0}
  BY <1>1, AttemptAssumption DEF AttemptAssumption, IInv, Shapes, Waiting
<1>4. /\ research' \in [used : BOOLEAN, outcome : Outcomes]
      /\ research'.used = research.used
      /\ research'.outcome \in {research.outcome, "no_tool"}
      /\ research.outcome # "" => research'.outcome = research.outcome
      /\ pc' = "asking" /\ task'.stage = Research => research'.outcome # ""
  BY <1>1 DEF IInv, Shapes, Prepared, Outcomes
<1>5. Shapes'
  <2>1. step' \in 0 .. MaxSteps /\ candidate' \in 0 .. MaxCandidates - 1
    BY <1>1, <1>3
  <2>2. pc' \in {"asking", "extracting"} /\ (pc' = "asking" => step' < MaxSteps)
    BY <1>1
  <2>3. pc' \in Waiting /\ (pc' \in Waiting \ {"extracting"} => step' < MaxSteps)
    BY <2>2 DEF Waiting
  <2>4. QED
    BY <1>1, <1>2, <1>4, <2>1, <2>3 DEF IInv, Shapes
<1>6. Spent'
  BY <1>1 DEF IInv, Spent
<1>7. Noted'
  BY <1>1, <1>4 DEF IInv, Noted
<1>8. Reported'
  <2>1. OutcomeOf(calls)' = OutcomeOf(calls) /\ OutcomeOf(calls) # ""
    BY <1>1 DEF OutcomeOf, Answered
  <2>2. pc' \notin {"batch", "judging"} /\ pc # "batch"
    BY <1>1
  <2>3. CASE batches = 0
    BY <1>1, <1>4, <2>2, <2>3 DEF IInv, Reported
  <2>4. CASE batches # 0
    BY <1>1, <1>4, <2>1, <2>2, <2>4 DEF IInv, Reported
  <2>5. QED
    BY <2>3, <2>4
<1>9. Heard'
  BY <1>1 DEF Heard
<1>10. Rests'
  <2>1. CASE pc' = "asking"
    <3>1. step + 1 # MaxSteps
      BY <1>1, <1>3, <2>1
    <3>2. refused' = FALSE
      BY <1>2, <3>1
    <3>3. QED
      BY <2>1, <3>2 DEF Rests, Waiting
  <2>2. CASE pc' = "extracting"
    <3>1. ~(proposal.expects = "agent" /\ step + 1 < MaxSteps)
      BY <1>1, <2>2
    <3>2. refused' = FALSE => ~(proposal.expects = "agent" /\ step + 1 = MaxSteps)
      BY <1>2
    <3>3. step + 1 < MaxSteps \/ step + 1 = MaxSteps
      BY <1>3
    <3>4. refused' = FALSE => proposal.expects # "agent"
      BY <3>1, <3>2, <3>3
    <3>5. step' > 0
      BY <1>1, <1>3
    <3>6. QED
      BY <1>1, <2>2, <3>4, <3>5 DEF Rests, Waiting
  <2>3. QED
    BY <1>1, <2>1, <2>2
<1>11. QED
  BY <1>5, <1>6, <1>7, <1>8, <1>9, <1>10 DEF IInv

\* A cancellation changes nothing until a provider call notices it.
LEMMA IdleKeeps == ASSUME IInv, Cancel \/ UNCHANGED vars PROVE IInv'
<1>1. /\ UNCHANGED <<pc, task, first, step, candidate, budget, research, calls, proposal, verdicts,
                    refused, made, batches>>
      /\ cancelled' \in BOOLEAN
  BY DEF IInv, Shapes, Cancel, progress, vars
<1>2. OutcomeOf(calls)' = OutcomeOf(calls) /\ \A k : Consulted(k)' <=> Consulted(k)
  BY <1>1 DEF OutcomeOf, Answered, Consulted
<1>3. QED
  BY <1>1, <1>2 DEF IInv, Shapes, Spent, Noted, Reported, Heard, Rests

-----------------------------------------------------------------------------
\* Every step of the attempt keeps the inductive invariant.
LEMMA StepIInv == IInv /\ [Next]_vars => IInv'
<1> SUFFICES ASSUME IInv, [Next]_vars PROVE IInv'
  OBVIOUS
<1>1. CASE Works
  BY <1>1, AskKeeps, AskToolsKeeps, CallReturnsKeeps, BatchDoneKeeps, SynthesizeKeeps, CheckKeeps,
     AcceptKeeps, LeavesKeep DEF Works
<1>2. CASE Cancel \/ Returns \/ UNCHANGED vars
  BY <1>2, IdleKeeps DEF Returns
<1>3. QED
  BY <1>1, <1>2 DEF Next

\* The inductive invariant holds in every state of an attempt.
LEMMA AlwaysIInv == Spec => []IInv
BY InitIInv, StepIInv, PTL DEF Spec

(***************************************************************************)
(* The state of an attempt keeps its types, for any limits.                *)
(***************************************************************************)
THEOREM TypeCorrect == Spec => []TypeOK
<1>1. IInv => TypeOK
  <2> SUFFICES ASSUME IInv PROVE TypeOK
    OBVIOUS
  <2>1. budget \in 0 .. MaxSteps /\ made \in Nat
    BY AttemptAssumption DEF AttemptAssumption, IInv, Spent
  <2>2. verdicts \in UNION {[1 .. n -> Verdicts] : n \in 0 .. CheckerCount}
    <3>1. /\ Len(verdicts) \in 0 .. CheckerCount
          /\ verdicts \in [1 .. Len(verdicts) -> Verdicts]
      BY AttemptAssumption DEF AttemptAssumption, IInv, Shapes, CheckerCount
    <3>2. QED
      BY <3>1
  <2>3. QED
    BY <2>1, <2>2 DEF IInv, Shapes, TypeOK
<1>2. QED
  BY <1>1, AlwaysIInv, PTL

(***************************************************************************)
(* However steps, repairs and the tool loop share it, the budget of        *)
(* provider calls of an attempt is never exceeded.                         *)
(***************************************************************************)
THEOREM BudgetKept == Spec => []WithinBudget
<1>1. IInv => WithinBudget
  BY AttemptAssumption, SMT DEF AttemptAssumption, IInv, Spent, WithinBudget
<1>2. QED
  BY <1>1, AlwaysIInv, PTL

(***************************************************************************)
(* An attempt never sends a second batch of tool calls.                    *)
(***************************************************************************)
THEOREM AtMostOneBatch == Spec => []OneBatch
<1>1. IInv => OneBatch
  BY DEF IInv, Shapes, Noted, OneBatch
<1>2. QED
  BY <1>1, AlwaysIInv, PTL

(***************************************************************************)
(* The research checker is always told what became of the tool calls.      *)
(***************************************************************************)
THEOREM ReportsAreTrue == Spec => []ReportIsTrue
<1>1. IInv => ReportIsTrue
  <2> SUFFICES ASSUME IInv, pc = "judging", task.stage = Research PROVE ReportIsTrue
    BY DEF ReportIsTrue
  <2>1. CASE batches = 0
    BY <2>1 DEF IInv, Reported, ReportIsTrue
  <2>2. CASE batches # 0
    <3>1. research.outcome = OutcomeOf(calls)
      BY <2>2 DEF IInv, Reported
    <3>2. DOMAIN calls # {} /\ \A i \in DOMAIN calls : calls[i] # "running"
      BY <2>2 DEF IInv, Reported
    <3>3. Answered(calls) = DOMAIN calls \ {i \in DOMAIN calls : calls[i] = "broker_error"}
      <4>1. PICK n \in 0 .. MaxCalls : calls \in [1 .. n -> ToolStatuses \cup {"running"}]
        BY DEF IInv, Shapes, Batches
      <4>2. QED
        BY <3>2, <4>1 DEF Answered, ToolStatuses
    <3>4. QED
      BY <2>2, <3>1, <3>2, <3>3 DEF OutcomeOf, ReportIsTrue
  <2>3. QED
    BY <2>1, <2>2
<1>2. QED
  BY <1>1, AlwaysIInv, PTL

(***************************************************************************)
(* What is committed waits for the user: no limit cuts a chain short.      *)
(***************************************************************************)
THEOREM CommitsAwaitUser == Spec => []CommitAwaitsUser
<1>1. IInv => CommitAwaitsUser
  BY DEF IInv, Rests, CommitAwaitsUser
<1>2. QED
  BY <1>1, AlwaysIInv, PTL

(***************************************************************************)
(* Nothing is accepted that a checker did not allow.                       *)
(***************************************************************************)
THEOREM OnlyAllowedIsAccepted == Spec => AcceptedWasJudged
<1> DEFINE Allowed == /\ \A k \in 1 .. Public : verdicts[k] = "allow"
                      /\ task.stage = Research => verdicts[CheckerCount] = "allow"
<1>1. ASSUME IInv, [Next]_vars, step' > step PROVE Allowed
  <2>1. step' # step
    BY <1>1 DEF IInv, Shapes
  <2>2. Accept
    BY <1>1, <2>1 DEF Next, Works, Returns, Cancel, vars, progress, Ask, AskTools, CallReturns,
                      BatchDone, Synthesize, Check, CheckerFailed, Reject, Extract, Exhausted
  <2>3. /\ pc = "judging" /\ Len(verdicts) = CheckerCount
        /\ ~Given("error") /\ ~Given("violation")
    BY <2>2 DEF Accept, Judged
  <2>4. /\ verdicts \in Seq(Verdicts) /\ DOMAIN verdicts = 1 .. CheckerCount
        /\ CheckerCount = Public + 1 /\ Public \in Nat
    BY <1>1, <2>3, AttemptAssumption DEF AttemptAssumption, IInv, Shapes, CheckerCount
  <2>5. ASSUME NEW k \in 1 .. CheckerCount, Consulted(k) PROVE verdicts[k] = "allow"
    <3>1. verdicts[k] \in Verdicts /\ verdicts[k] # "error" /\ verdicts[k] # "violation"
      BY <2>3, <2>4 DEF Given
    <3>2. verdicts[k] # "skipped"
      BY <1>1, <2>3, <2>4, <2>5 DEF IInv, Heard
    <3>3. QED
      BY <3>1, <3>2 DEF Verdicts
  <2>6. task.stage = Research => research.outcome # ""
    <3>1. OutcomeOf(calls) # "" /\ (batches = 0 \/ batches # 0)
      BY DEF OutcomeOf
    <3>2. QED
      BY <1>1, <2>3, <3>1 DEF IInv, Reported
  <2>7. /\ \A k \in 1 .. Public : k \in 1 .. CheckerCount /\ Consulted(k)
        /\ CheckerCount \in 1 .. CheckerCount
        /\ task.stage = Research => Consulted(CheckerCount)
    <3>1. /\ \A k \in 1 .. Public : k \in 1 .. CheckerCount /\ k <= Public
          /\ CheckerCount \in 1 .. CheckerCount
      BY <2>4
    <3>2. QED
      BY <3>1, <2>6 DEF Consulted
  <2>8. QED
    BY <2>5, <2>7
<1>2. IInv /\ [Next]_vars => [step' > step => Allowed]_vars
  BY <1>1
<1>3. QED
  BY <1>2, AlwaysIInv, PTL DEF Spec, AcceptedWasJudged
=============================================================================
