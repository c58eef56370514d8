------------------------------ MODULE Taskflow ------------------------------
(***************************************************************************)
(* taskflow.Service: TaskInput, Resume, PauseTask and the refusal of an    *)
(* input, on the tasks of the chats and on the ledger of operations that   *)
(* makes a client_message_id idempotent.                                   *)
(*                                                                         *)
(* The state machine of one task is the subject of TaskMachine.  Here a    *)
(* task is its status and its provenance: the calls whose chains of        *)
(* proposals were accepted into its snapshot.                              *)
(***************************************************************************)
EXTENDS Chats

CONSTANTS
  TaskIds,    \* task identifiers
  NoTask,     \* no task, or no task id
  NoOp,       \* no operation in the ledger
  ClientOf,   \* the client_message_id each call brings; equal ids, equal texts
  KindOf      \* "input" or "resume"

Tasks == [status : {"active", "paused", "done"}, work : SUBSET Ops]
Operations == [task : TaskIds, status : {"pending", "paused", "failed", "committed"}]

ASSUME TaskflowAssumption ==
  /\ ClientOf \in [Ops -> Clients]
  /\ KindOf \in [Ops -> {"input", "resume"}]
  /\ NoTask \notin TaskIds /\ NoTask \notin Tasks
  /\ NoOp \notin Operations

VARIABLES
  tasks,      \* [Chats -> [TaskIds -> Tasks \cup {NoTask}]]
  ledger,     \* ChatState.Operations, [Chats -> [Clients -> Operations \cup {NoOp}]]
  lastOp,     \* ChatState.TaskOperationIDs
  pc,         \* control state of each call
  call,       \* the local variables of each call
  revoked,    \* calls whose lease a pause or a deletion has taken away (history)
  results     \* calls whose final mutation has been published (history)

taskVars == <<tasks, ledger, lastOp>>
callVars == <<pc, call, revoked, results>>
vars == <<mgrVars, chatVars, taskVars, callVars>>

(***************************************************************************)
(* idle, checked, claimed, calling, answered, titling - as in Conversation *)
(* returning - Detach is next, then the call returns its result            *)
(* failing   - Detach is next, then TaskInput returns an error             *)
(* repausing - a Resume that got an error pauses its task again            *)
(***************************************************************************)
Phases == {"idle", "checked", "claimed", "calling", "answered", "titling", "returning",
           "failing", "repausing", "exited"}

(***************************************************************************)
(* client, resumed and paused are what Resume has resolved on its snapshot *)
(* (the operation to repeat, its task, whether the task was paused);       *)
(* target and the four fields after it are what the claim has remembered.  *)
(***************************************************************************)
Calls ==
  [client : Clients, resumed : TaskIds \cup {NoTask}, paused : BOOLEAN, refused : BOOLEAN,
   target : TaskIds \cup {NoTask}, before : Tasks \cup {NoTask},
   oldOp : Operations \cup {NoOp}, oldId : Clients \cup {NoClient},
   global : SUBSET Ops, project : SUBSET Ops]

NewCall(o) ==
  [client |-> ClientOf[o], resumed |-> NoTask, paused |-> FALSE, refused |-> FALSE,
   target |-> NoTask, before |-> NoTask, oldOp |-> NoOp, oldId |-> NoClient,
   global |-> {}, project |-> {}]

Init ==
  /\ MgrInit
  /\ ChatsInit
  /\ tasks = [c \in Chats |-> [t \in TaskIds |-> NoTask]]
  /\ ledger = [c \in Chats |-> [k \in Clients |-> NoOp]]
  /\ lastOp = [c \in Chats |-> [t \in TaskIds |-> NoClient]]
  /\ pc = [o \in Ops |-> "idle"]
  /\ call = [o \in Ops |-> NewCall(o)]
  /\ revoked = {}
  /\ results = {}

Step(o, from, to) ==
  /\ pc[o] = from
  /\ pc' = [pc EXCEPT ![o] = to]

Goto(o, to) == pc' = [pc EXCEPT ![o] = to]

\* A call that has returned leaves its locals behind only in a published lease.
Forget(o) == call' = [call EXCEPT ![o] = IF o \in Live(pending) THEN @ ELSE NewCall(o)]

Old(o) == ledger[ChatOf[o]][call[o].client]

-----------------------------------------------------------------------------
\* Update, first part: the operation of a reclaimed lease has failed.
Reclaimed ==
  LET dead == {o \in Live(pending) : o \in abandoned}
  IN  [c \in Chats |-> [k \in Clients |->
         IF ledger[c][k] # NoOp /\ \E o \in dead : ChatOf[o] = c /\ call[o].client = k
           THEN [ledger[c][k] EXCEPT !.status = "failed"] ELSE ledger[c][k]]]

-----------------------------------------------------------------------------
(***************************************************************************)
(* Before the claim.                                                       *)
(***************************************************************************)

\* The error path out of TaskInput before its claim.
Failed(o) == IF call[o].paused THEN "repausing" ELSE "exited"

\* The pre-check of an input.
CheckInput(o) ==
  /\ KindOf[o] = "input"
  /\ Step(o, "idle", "checked")
  /\ ChatOf[o] \in chats
  /\ \E refused \in BOOLEAN : call' = [call EXCEPT ![o].refused = refused]
  /\ UNCHANGED <<mgrVars, chatVars, taskVars, revoked, results>>

(***************************************************************************)
(* Resume on its snapshot, then the pre-check.  A client that brings no id *)
(* repeats the last operation of the task if that is open.                 *)
(***************************************************************************)
CheckResume(o) ==
  LET c == ChatOf[o] IN
  /\ KindOf[o] = "resume"
  /\ Step(o, "idle", "checked")
  /\ c \in chats
  /\ \E t \in {u \in TaskIds : tasks[c][u] # NoTask}, refused \in BOOLEAN :
       LET last == lastOp[c][t]
           open == IF last # NoClient /\ ledger[c][last].status \in {"paused", "failed"}
                     THEN {last} ELSE {}
       IN \E k \in open \cup {ClientOf[o]} :
            call' = [call EXCEPT ![o].client = k, ![o].resumed = t, ![o].refused = refused,
                                 ![o].paused = (tasks[c][t].status = "paused")]
  /\ UNCHANGED <<mgrVars, chatVars, taskVars, revoked, results>>

\* No such chat or task, or (for an input) the checker failed.
CheckFails(o) ==
  /\ Step(o, "idle", "exited")
  /\ UNCHANGED <<mgrVars, chatVars, taskVars, call, revoked, results>>

\* The claim answers from what is stored, unless another task is named.
Replays(o) ==
  IF call[o].refused THEN Sent(ChatOf[o], call[o].client) # {}
  ELSE /\ Old(o) # NoOp /\ Old(o).status = "committed"
       /\ call[o].resumed \in {NoTask, Old(o).task}

\* The tasks that can be worked on.
Open(c) == {t \in TaskIds : tasks[c][t] # NoTask /\ tasks[c][t].status # "done"}

(***************************************************************************)
(* The tasks the claim may work on: the one of the operation it repeats,   *)
(* the one that is resumed, or whatever candidate or router yield: a task  *)
(* that is not done, or a new one.                                         *)
(***************************************************************************)
Targets(o) ==
  LET c == ChatOf[o]
      open == Open(c)
      fresh == {t \in TaskIds : tasks[c][t] = NoTask}
      named == IF call[o].resumed = NoTask THEN TaskIds ELSE {call[o].resumed}
  IN  IF Old(o) # NoOp THEN {Old(o).task} \cap open \cap named
      ELSE IF call[o].resumed # NoTask THEN named \cap open
      ELSE open \cup fresh

\* Fault: the claim does not ask whether the session is busy.
Claimable_IgnoresBusy(o) ==
  /\ pc[o] = "checked"
  /\ ChatOf[o] \in chats
  /\ ~Replays(o)

\* The lease is free and nothing stored answers the call.
Claimable(o) ==
  /\ pc[o] = "checked"
  /\ ChatOf[o] \in chats
  /\ ~Replays(o)
  /\ Candidate[SessionOf[o]] = NoLease

\* What every claim reads: the candidate it is about to publish.
Reads(o) ==
  [call[o] EXCEPT !.global = memory[SessionOf[o]], !.project = memory[ProjectOf[ChatOf[o]]]]

\* A new task, or one that becomes active again; its operation is pending.
Claim(o) ==
  LET c == ChatOf[o]
      k == call[o].client
  IN
  /\ Claimable(o) /\ ~call[o].refused
  /\ \E t \in Targets(o) :
       /\ tasks' = [tasks EXCEPT ![c][t] =
            IF @ = NoTask THEN [status |-> "active", work |-> {}]
            ELSE [@ EXCEPT !.status = "active"]]
       /\ ledger' = [Reclaimed EXCEPT ![c][k] = [task |-> t, status |-> "pending"]]
       /\ lastOp' = [lastOp EXCEPT ![c][t] = k]
       /\ call' = [call EXCEPT ![o] =
            [Reads(o) EXCEPT !.target = t, !.before = tasks[c][t],
                             !.oldOp = Reclaimed[c][k], !.oldId = lastOp[c][t]]]
  /\ Publish([Candidate EXCEPT ![SessionOf[o]] = o])
  /\ Goto(o, "claimed")
  /\ UNCHANGED <<chatVars, revoked, results>>

\* The claim of a refusal: a lease without a task.
ClaimRefusal(o) ==
  /\ Claimable(o) /\ call[o].refused
  /\ call' = [call EXCEPT ![o] = Reads(o)]
  /\ ledger' = Reclaimed
  /\ Publish([Candidate EXCEPT ![SessionOf[o]] = o])
  /\ Goto(o, "claimed")
  /\ UNCHANGED <<chatVars, tasks, lastOp, revoked, results>>

\* The router offers every paused task, and active ones only if none is paused.
Ambiguous(c) ==
  LET paused == {t \in Open(c) : tasks[c][t].status = "paused"}
  IN  Cardinality(IF paused # {} THEN paused ELSE Open(c)) > 1

\* Replayed, or several tasks match: a result, and nothing is changed.
ClaimAnswered(o) ==
  /\ Step(o, "checked", "exited")
  /\ ~closed /\ ChatOf[o] \in chats
  /\ \/ Replays(o)
     \/ /\ Claimable(o) /\ ~call[o].refused /\ KindOf[o] = "input"
        /\ Old(o) = NoOp /\ Ambiguous(ChatOf[o])
  /\ Forget(o)
  /\ UNCHANGED <<mgrVars, chatVars, taskVars, revoked, results>>

\* Busy, not found, done, closed, not saved, the pre-check of Resume failed, or the
\* client id was used for another text or task.
ClaimFails(o) ==
  /\ Step(o, "checked", Failed(o))
  /\ IF call[o].paused THEN UNCHANGED call ELSE Forget(o)
  /\ UNCHANGED <<mgrVars, chatVars, taskVars, revoked, results>>

-----------------------------------------------------------------------------
Attach(o) ==
  /\ Step(o, "claimed", "calling")
  /\ AttachLease(SessionOf[o], o)
  /\ UNCHANGED <<chatVars, taskVars, call, revoked, results>>

\* The chain of proposals has ended and the extractor has returned.
Answer(o) ==
  /\ Step(o, "calling", "answered")
  /\ UNCHANGED <<mgrVars, chatVars, taskVars, call, revoked, results>>

\* Fault: the final mutation does not ask whether the lease is still owned.
Release_Unowned(o) ==
  /\ pc[o] = "answered"
  /\ ChatOf[o] \in chats
  /\ Publish([Candidate EXCEPT ![SessionOf[o]] = NoLease])
  /\ results' = results \cup {o}
  /\ UNCHANGED <<projects, chats, worker, call, revoked>>

\* The final mutation goes through and releases the lease.
Release(o) ==
  /\ pc[o] = "answered"
  /\ ChatOf[o] \in chats
  /\ Candidate[SessionOf[o]] = o
  /\ Publish([Candidate EXCEPT ![SessionOf[o]] = NoLease])
  /\ results' = results \cup {o}
  /\ UNCHANGED <<projects, chats, worker, call, revoked>>

\* The pair joins the transcript, and the first one claims the title.
StorePair(o) ==
  /\ messages' = [messages EXCEPT ![ChatOf[o]] =
                    @ \o <<UserMessage(call[o].client, "success"), Reply>>]
  /\ title' = TitleClaimed(ChatOf[o])
  /\ Goto(o, IF title' # title THEN "titling" ELSE "returning")

Extracted(o) ==
  [memory EXCEPT ![SessionOf[o]] = call[o].global \cup {o},
                 ![ProjectOf[ChatOf[o]]] = call[o].project \cup {o}]

\* Fault: the accepted snapshot is built on the task as it was created.
Accepted_Afresh(o, status) == [status |-> status, work |-> {o}]

\* The snapshot the chain has arrived at, from the task it has claimed.
Accepted(o, status) ==
  [status |-> status,
   work |-> {o} \cup (IF call[o].before = NoTask THEN {} ELSE call[o].before.work)]

\* A task is done only on the feedback to an earlier result.
CommitTask(o) ==
  LET c == ChatOf[o] IN
  /\ ~call[o].refused
  /\ Release(o)
  /\ \E status \in {"active"} \cup
         (IF call[o].before = NoTask \/ call[o].before.work = {} THEN {} ELSE {"done"}) :
       tasks' = [tasks EXCEPT ![c][call[o].target] = Accepted(o, status)]
  /\ ledger' = [Reclaimed EXCEPT ![c][call[o].client].status = "committed"]
  /\ UNCHANGED lastOp
  /\ StorePair(o)
  /\ memory' = Extracted(o)

\* Fault: the task's pointer to its last operation is not put back.
Restore_KeepsPointer(o) ==
  LET c == ChatOf[o] IN
  /\ tasks' = [tasks EXCEPT ![c][call[o].target] = call[o].before]
  /\ ledger' = [Reclaimed EXCEPT ![c][call[o].client] = call[o].oldOp]
  /\ UNCHANGED lastOp

\* restoreProvisionalTask: task, operation and pointer as the claim found them.
Restore(o) ==
  LET c == ChatOf[o] IN
  /\ tasks' = [tasks EXCEPT ![c][call[o].target] = call[o].before]
  /\ ledger' = [Reclaimed EXCEPT ![c][call[o].client] = call[o].oldOp]
  /\ lastOp' = [lastOp EXCEPT ![c][call[o].target] = call[o].oldId]

\* Candidates or budget exhausted: a template answer, no step of the task.
CommitRefusal(o) ==
  /\ ~call[o].refused
  /\ Release(o)
  /\ Restore(o)
  /\ StorePair(o)
  /\ memory' = Extracted(o)

\* A checker failed: as if the input had not been sent.
CommitNothing(o) ==
  /\ ~call[o].refused
  /\ Release(o)
  /\ Restore(o)
  /\ Goto(o, "failing")
  /\ UNCHANGED <<messages, memory, title>>

\* The model or the extractor failed: the operation can be repeated.
CommitFailure(o) ==
  /\ ~call[o].refused
  /\ Release(o)
  /\ ledger' = [Reclaimed EXCEPT ![ChatOf[o]][call[o].client].status = "failed"]
  /\ Goto(o, "failing")
  /\ UNCHANGED <<tasks, lastOp, messages, memory, title>>

\* The refusal of the pre-check: a pair, whether or not the extractor answered.
CommitPair(o) ==
  /\ call[o].refused
  /\ Release(o)
  /\ ledger' = Reclaimed
  /\ StorePair(o)
  /\ memory' \in {memory, Extracted(o)}
  /\ UNCHANGED <<tasks, lastOp>>

\* The lease is lost: TaskInput returns the chat, a refusal returns an error.
\* The chat is gone, the manager closed, or the save failed: an error.
CommitRefused(o) ==
  /\ pc[o] = "answered"
  /\ pc' \in {[pc EXCEPT ![o] = "failing"], [pc EXCEPT ![o] = "returning"]}
  /\ pc'[o] = "returning" =>
       ~closed /\ ChatOf[o] \in chats /\ Candidate[SessionOf[o]] # o /\ ~call[o].refused
  /\ UNCHANGED <<mgrVars, chatVars, taskVars, call, revoked, results>>

StartTitle(o) ==
  /\ Step(o, "titling", "returning")
  /\ StartWorker(ChatOf[o])
  /\ UNCHANGED <<taskVars, call, revoked, results>>

Detach(o) ==
  /\ \/ Step(o, "returning", "exited") /\ Forget(o)
     \/ Step(o, "failing", Failed(o)) /\ (IF call[o].paused THEN UNCHANGED call ELSE Forget(o))
  /\ DetachLease(o)
  /\ UNCHANGED <<chatVars, taskVars, revoked, results>>

\* A Resume that got an error pauses its task again, if it still can.
Repause(o) ==
  LET c == ChatOf[o]
      t == call[o].resumed
  IN
  /\ Step(o, "repausing", "exited")
  /\ c \in chats /\ tasks[c][t] # NoTask
  /\ Publish(Candidate)
  /\ ledger' = Reclaimed
  /\ tasks' = [tasks EXCEPT ![c][t].status = IF @ = "done" THEN @ ELSE "paused"]
  /\ Forget(o)
  /\ UNCHANGED <<chatVars, lastOp, revoked, results>>

RepauseFails(o) ==
  /\ Step(o, "repausing", "exited")
  /\ Forget(o)
  /\ UNCHANGED <<mgrVars, chatVars, taskVars, revoked, results>>

-----------------------------------------------------------------------------
\* PauseTask wins over the call that works on the task.
PauseTask(c, t) ==
  LET s == OwnerOf[ProjectOf[c]]
      hit == {o \in Live(Candidate) : ChatOf[o] = c /\ call[o].target = t}
  IN
  /\ c \in chats
  /\ tasks[c][t] # NoTask /\ tasks[c][t].status # "done"
  /\ Publish([Candidate EXCEPT ![s] = IF @ \in hit THEN NoLease ELSE @])
  /\ tasks' = [tasks EXCEPT ![c][t].status = "paused"]
  /\ ledger' = [Reclaimed EXCEPT ![c] = [k \in Clients |->
       IF \E o \in hit : call[o].client = k THEN [@[k] EXCEPT !.status = "paused"] ELSE @[k]]]
  /\ revoked' = revoked \cup hit
  /\ UNCHANGED <<chatVars, lastOp, pc, call, results>>

\* Tasks and ledger go with their chat.
Dropped(gone) ==
  /\ tasks' = [c \in Chats |-> IF c \in gone THEN [t \in TaskIds |-> NoTask] ELSE tasks[c]]
  /\ ledger' = [c \in Chats |-> IF c \in gone THEN [k \in Clients |-> NoOp] ELSE Reclaimed[c]]
  /\ lastOp' = [c \in Chats |-> IF c \in gone THEN [t \in TaskIds |-> NoClient] ELSE lastOp[c]]
  /\ revoked' = revoked \cup {o \in Live(Candidate) : ChatOf[o] \in gone}

DeleteChat(c) ==
  /\ DeletedChat(c)
  /\ Dropped({c})
  /\ UNCHANGED <<pc, call, results>>

\* Mutations of the workspace that touch neither chats nor tasks.
Mutate ==
  /\ Publish(Candidate)
  /\ ledger' = Reclaimed
  /\ UNCHANGED <<chatVars, tasks, lastOp, callVars>>

\* Saving a title is a mutation too.
TitleWork(c) ==
  /\ \/ TitleSaved(c) /\ ledger' = Reclaimed
     \/ (TitleAnswered(c) \/ TitleNotSaved(c)) /\ UNCHANGED ledger
  /\ UNCHANGED <<tasks, lastOp, callVars>>

Close == CloseStore /\ UNCHANGED <<taskVars, callVars>>

\* Fault: only the lease is cleared, its task and operation stay as they are.
Restart_LeaseOnly ==
  /\ Reopen
  /\ pc' = [o \in Ops |-> IF pc[o] \in {"idle", "checked"} THEN "idle" ELSE "exited"]
  /\ call' = [o \in Ops |-> NewCall(o)]
  /\ UNCHANGED <<taskVars, revoked, results>>

\* normalize: what a call was working on when the process died is paused.
Restart ==
  /\ Reopen
  /\ tasks' = [c \in Chats |-> [t \in TaskIds |->
       IF tasks[c][t] # NoTask /\ \E o \in Live(pending) : ChatOf[o] = c /\ call[o].target = t
         THEN [tasks[c][t] EXCEPT !.status = "paused"] ELSE tasks[c][t]]]
  /\ ledger' = [c \in Chats |-> [k \in Clients |->
       IF ledger[c][k] # NoOp /\ \E o \in Live(pending) : ChatOf[o] = c /\ call[o].client = k
         THEN [ledger[c][k] EXCEPT !.status = "paused"] ELSE ledger[c][k]]]
  /\ pc' = [o \in Ops |-> IF pc[o] \in {"idle", "checked"} THEN "idle" ELSE "exited"]
  /\ call' = [o \in Ops |-> NewCall(o)]
  /\ UNCHANGED <<lastOp, revoked, results>>

Work(o) ==
  \/ Attach(o) \/ Answer(o) \/ StartTitle(o) \/ Detach(o)
  \/ CommitTask(o) \/ CommitRefusal(o) \/ CommitNothing(o) \/ CommitFailure(o)
  \/ CommitPair(o) \/ CommitRefused(o)

Next ==
  \/ \E o \in Ops :
       \/ CheckInput(o) \/ CheckResume(o) \/ CheckFails(o)
       \/ Claim(o) \/ ClaimRefusal(o) \/ ClaimAnswered(o) \/ ClaimFails(o)
       \/ Work(o) \/ Repause(o) \/ RepauseFails(o)
  \/ \E c \in Chats : DeleteChat(c) \/ TitleWork(c) \/ \E t \in TaskIds : PauseTask(c, t)
  \/ Mutate \/ Close \/ Restart

Spec == Init /\ [][Next]_vars

-----------------------------------------------------------------------------
TypeOK ==
  /\ MgrTypeOK
  /\ ChatsTypeOK
  /\ tasks \in [Chats -> [TaskIds -> Tasks \cup {NoTask}]]
  /\ ledger \in [Chats -> [Clients -> Operations \cup {NoOp}]]
  /\ lastOp \in [Chats -> [TaskIds -> Clients \cup {NoClient}]]
  /\ pc \in [Ops -> Phases]
  /\ call \in [Ops -> Calls]
  /\ revoked \subseteq Ops /\ results \subseteq Ops

(***************************************************************************)
(* The stored ledger can be read back (statejson validate refuses the file *)
(* otherwise): every operation belongs to a task of its chat, and a task's *)
(* last operation is one of its own - whatever creations, refusals,        *)
(* pauses and crashes interleave on the ids.                               *)
(***************************************************************************)
LedgerIsReadable ==
  \A c \in Chats :
    /\ \A k \in Clients : ledger[c][k] # NoOp => tasks[c][ledger[c][k].task] # NoTask
    /\ \A t \in TaskIds : lastOp[c][t] # NoClient =>
         /\ tasks[c][t] # NoTask
         /\ ledger[c][lastOp[c][t]] # NoOp
         /\ ledger[c][lastOp[c][t]].task = t

(***************************************************************************)
(* An operation is pending exactly while the lease of its call is          *)
(* published: nothing else would ever end it, and Resume would not find it.*)
(***************************************************************************)
PendingMeansLeased ==
  \A c \in Chats, k \in Clients :
    (ledger[c][k] # NoOp /\ ledger[c][k].status = "pending")
      <=> \E o \in Live(pending) :
            ChatOf[o] = c /\ call[o].client = k /\ call[o].target # NoTask

(***************************************************************************)
(* What a chain was accepted into a task stays in it: a later call builds  *)
(* on it, and no refusal, pause or late answer puts an older snapshot back.*)
(***************************************************************************)
AcceptedWorkIsKept ==
  [][\A c \in Chats, t \in TaskIds :
       c \in chats' /\ tasks[c][t] # NoTask /\ tasks[c][t].work # {}
         => tasks'[c][t] # NoTask /\ tasks[c][t].work \subseteq tasks'[c][t].work]_vars

(***************************************************************************)
(* A paused task that nobody works on rests: only the claim of a new call  *)
(* takes it up again, no late answer of the call that the pause has        *)
(* interrupted does.                                                       *)
(***************************************************************************)
Worked(c, t) == \E o \in Live(pending) : ChatOf[o] = c /\ call[o].target = t

PausedTaskRests ==
  [][\A c \in Chats, t \in TaskIds :
       c \in chats' /\ tasks[c][t] # NoTask /\ tasks[c][t].status = "paused" /\ ~Worked(c, t)
         => tasks'[c][t] = tasks[c][t] \/ Worked(c, t)']_vars

(***************************************************************************)
(* TaskInput, Resume and their refusals follow the lease protocol.         *)
(***************************************************************************)
ProtocolPhase(o) ==
  IF pc[o] = "checked" THEN "idle"
  ELSE IF pc[o] \in {"titling", "failing"} THEN "returning"
  ELSE IF pc[o] = "repausing" THEN "exited"
  ELSE pc[o]

Protocol == INSTANCE Lease WITH pc <- [o \in Ops |-> ProtocolPhase(o)]

ImplementsLease == Protocol!Init /\ [][Protocol!Next]_(Protocol!vars)

(***************************************************************************)
(* .specs/invariants: the pre-check belongs to the operation, and a        *)
(* confirmed pause wins over it.  So a task that is paused stays paused    *)
(* under the claim of an input that had been sent before.                  *)
(***************************************************************************)
PauseOutlivesPreCheck ==
  [][\A o \in Ops, c \in Chats, t \in TaskIds :
       /\ pc[o] = "checked" /\ pc'[o] = "claimed" /\ call'[o].target = t /\ ChatOf[o] = c
       /\ KindOf[o] = "resume" /\ ~call[o].paused
       => tasks[c][t].status # "paused"]_vars
=============================================================================
