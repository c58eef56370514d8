# Verification of the barista backend

This directory specifies the stateful core of the backend (`src/backend`) in
TLA+, model-checks it with TLC on small instances and proves its most important
invariants with TLAPS for instances of every size.

The system is a chat assistant for coffee. A Go backend keeps, per browser
session, projects with chats, a two-layer memory (facts of the session and of
the project), profiles, and per chat a set of long-lived tasks that a language
model drives through four stages. The whole state is one value that one process
publishes in memory and replaces atomically in one JSON file. Model, checker,
extractor and tool calls take seconds and run outside the lock on a snapshot;
a *lease* (`Browser.Pending`) keeps two such calls of one session apart, and
user actions - pause, delete, shutdown - may take the lease away at any moment.

## 1. Inventory

| component | state it keeps | operations | talks to |
|---|---|---|---|
| State manager (`application/state/manager.go`) | published state, registered cancellations, abandoned leases, title cancellations, closed flag | `Update`, `Snapshot`, `Attach`, `Detach`, `AttachTitle`, `Close` | state file (`Save`), every use case |
| Conversation (`application/conversation`) | none of its own; transcripts, memory, title status in the state | `Send`, `Retry`, refusal of an input, `Titles.Start/Close` | manager, invariant pipeline, chat model, memory extractor, title model |
| Taskflow (`application/taskflow`) | tasks, operation ledger (`Operations`, `TaskOperationIDs`), `TaskInputs` | `TaskInput`, `Resume`, `PauseTask`, refusal, research batch | manager, router, pipeline, task model, MCP client, extractor, titles |
| Task state machine (`domain/model`) | the task record | `ApplyProposal`, `validateTaskPlan`, `ExpectsAgent`, `TaskRouter.Match` | called by taskflow and the state file |
| Workspace (`application/workspace`) | projects, chats, selection, memory, profiles | create, rename, select, delete, clear, list | manager |
| State file (`adapters/statejson`) | one JSON file, versions 1 to 9, archives | `Open` (migrate, normalize, validate), `Save` | manager, `cmd/api-server` |
| Invariant pipeline (`application/invariant`) | none | `Validate`: the checkers one after the other, fail closed | checker model |
| JSON contracts (`adapters/extractjson`) | none | strict decoding of proposals and facts | taskflow, conversation |
| HTTP API (`internal/httpapi`) | none | request validation, mapping of outcomes to responses | use cases |
| Server process (`cmd/api-server`) | none | wiring, shutdown: store, titles, then HTTP | all |
| BrewMark client and tools (`internal/brewmark`) | none: no cache, no pacing, no retry | one catalogue query per tool call, strict decoding of its answer | external catalogue |
| MCP server and client (`internal/mcpserver`, `internal/mcpclient`) | one short-lived session per call | tool listing and calls; delivery of events to the collector | taskflow, BrewMark, HTTP API |
| LLM adapter (`adapters/openai`, `internal/llm`) | none | one completion per call, usage, trace | provider |
| Event journal (`internal/observability`) | unbounded list of events, deleted dialogs | append, list, redact | all |
| Configuration (`internal/config`) | none | files read at start-up | server process |
| Legacy `internal/session`, `internal/agent` | - | no production caller is left | - |
| Frontend and BFF (`src/frontend`) | what the page shows; the session cookie | send, retry, poll, pause, resume, navigate | HTTP API |

What makes each part correct, and what is hard about it:

* **Manager.** No lease outlives its worker for good, no lease is taken from a
  worker that could still commit, every call that lost its lease is cancelled.
  Hard: a save that fails after the external calls, cancellation racing
  registration, shutdown.
* **Conversation.** A confirmed pause or deletion wins over a late answer; a
  client's input and its reply appear once; a failed input stays until it is
  answered; memory written from an old snapshot neither loses nor resurrects
  facts; one title call per chat. Hard: resends and retries of one
  `client_message_id`, clearing memory under a running call, title workers of
  deleted chats.
* **Task state machine and taskflow.** Every stored task passes the plan rules
  (the next start refuses the file otherwise); a task is done only after a
  gated result its user has seen; completed work is never lost; no task gets
  stuck. Hard: long legal sequences, chains abandoned half-way, tasks of older
  files, first inputs that fail.
* **One attempt.** Eight provider calls and one research batch are shared by up
  to eight steps of up to three candidates; a chain that reaches a limit is
  undone, never committed. Hard: the tool call that takes two calls of the
  budget, repairs after the batch, one tool of several failing, a checker that
  fails or is not consulted, a cancellation in the middle of any of it.
* **Workspace and state file.** Selections, lease and active profile refer to
  what exists; what the program has saved it can open again; a start replaces a
  file only after a complete copy of it. Hard: a crash between the steps of a
  migration or a reset, a directory nobody syncs, two different comparisons of
  profile names.
* **MCP and BrewMark.** One request to BrewMark per call; a result is what
  BrewMark said; the events of an answered call are in the journal or on the
  console before its answer. Hard: the client's five seconds against the
  server's longer timeout, a collector that hangs or loses its answer, a server
  that dies under a request.

`PROJECT.json` lists every hazard at its line with the properties that cover it,
and every component with its status.

## 2. Modules

| module | models | kind |
|---|---|---|
| `StateManager` | `manager.go`: state and every method as an operator, one per critical section | state and operators |
| `Lease` | the life of one leased call against the manager: claim, register, answer, commit, detach; pause, deletion, other mutations, shutdown, restart | state machine |
| `Turns` | what manager and callers promise together: one open call per session, each published once as a whole or dropped | abstract specification |
| `LeaseProofs` | inductive invariant of `Lease`, its consequences, refinement of `Turns`; instantiated by the proofs of the use cases | proofs |
| `Chats` | transcripts, memory and titles, the workspace mutations on them, the title worker | state and operators |
| `ChatsProofs` | what the operators of `StateManager` and `Chats` return and keep | lemmas |
| `Conversation` | `Send`, `Retry`, refusals, composed with `Chats` and `StateManager`; implements `Lease` | state machine |
| `ConversationProofs` | its safety properties, refinement of `Lease` and `Turns` | proofs |
| `TaskProposal` | `ApplyProposal`, `validateTaskPlan`, the gate | pure operators |
| `TaskMachine` | one task under inputs, chains of proposals, refusals, failures, pauses, restarts | state machine |
| `TaskMachineProofs` | inductive invariant of `TaskMachine`, its properties, the dead end of migrated tasks | proofs |
| `Taskflow` | `TaskInput`, `Resume`, `PauseTask`, refusals on several tasks of a chat with the ledger of operations, composed with `Chats` and `StateManager`; implements `Lease` | state machine |
| `TaskflowProofs` | its safety properties, refinement of `Lease` and `Turns` | proofs |
| `Attempt` | the inside of one `TaskInput`: steps, candidates, call budget, tool batch, checkers, extractor, cancellation | state machine |
| `AttemptProofs` | its safety properties | proofs |
| `Workspace` | projects, chats, selections, profiles and the lease of one session; every mutation up to its save | state and operators |
| `StateFile` | `Open`, `Save` and the legacy reset on a disk, with crashes, power and write failures, around `Workspace` | state machine |
| `StateFileProofs` | its safety properties | proofs |
| `Catalogue` | one session of the MCP client: its POSTs and closing DELETE, the request to BrewMark, events and their collector | state machine |
| `CatalogueProofs` | its safety properties | proofs |
| `MCLease`, `MCConversation`, `MCTaskMachine`, `MCTaskflow`, `MCAttempt`, `MCStateFile`, `MCCatalogue` | instances for TLC | configuration |

How they fit together: `Taskflow` and `Conversation` are the critical sections
of the use cases around one long call each, composed from `StateManager` and
`Chats`, and follow `Lease`, which implements `Turns`. `Attempt` is the inside
of the action `Answer` of `Taskflow`, `TaskMachine` says what its accepted
proposals make of the task, `Catalogue` what is behind one tool call of its
batch. `StateFile` is the inside of the one step by which `StateManager` saves
and a restart reads back. These three relations are by reading; no refinement is
stated for them.

Operators whose name has a suffix (`Commit_NotOwner`) are faults: the definition
before the underscore, changed the way a plausible bug would change it. They are
used in no specification; they are there to show that the properties notice.

### How state and actions correspond to the code

`StateManager`. A lease is represented by its generation, and a generation - a
fresh random id per call - by the call that drew it (`Ops`). `pending` is the
published `Browser.Pending` of each session, `cancels` and `abandoned` are the
keys of the maps of those names, `cancelled` the calls whose context is done.
`Candidate` is the clone that `Update` hands to its change function, with
reclaimed leases cleared; `Publish` is what follows a successful save. An
`Update` whose change or save fails publishes nothing, so it is an action that
leaves the manager's variables alone (`ClaimRefused`, `CommitRefused`). The file
is not a variable: `Save` replaces it by one rename before the candidate is
published and leaves it alone when it fails.

`Lease`. `Claim`, `Attach`, `Answer`, `Commit` or `CommitRefused`, `Detach` are
the critical sections of `TaskInput`, `Send` and both `refuse` in program
order; between any two of them everything else may happen. `Revoke` stands for
`PauseTask`, `DeleteChat` and `DeleteProject`. `Restart` is a crash at any
point: workers die, `normalize` clears the leases.

`Chats` and `Conversation`. A message is its client id, role and status, in the
order of the transcript. A layer of memory is represented by its provenance: the
set of calls whose answers its facts were extracted from. `read` is what a call
saw of it in its claim; `Extracted` replaces both layers by what was read plus
the call's own answer, as the commit does with the extractor's result. The
pre-check works on an unlocked snapshot and is an action of its own (`Check`);
its verdict is nondeterministic. `CommitAnswer`, `CommitFailure` and
`CommitNothing` are the three outcomes of the final mutation (accepted pair with
or without facts, durable failed message, fail-closed release). Refusals append
their pair without removing a failed message, as `refuse` does. The title worker
of a chat is `worker`; `titling` is the window between the commit that claims
the title and `Titles.Start`, in which the caller still has to detach. `SavesFail`
says whether the disk may refuse the save of a title, which it may in the run:
the worker then gives up (`unsaved`), and the title stays pending until the next
start. `TitleSettles` excepts this title and no other.

`TaskProposal` and `TaskMachine`. A plan is a function from its items to status
and stage label; an item is the pair of id and title, so changing the title of a
completed item removes it. An expected action is its addressee. `Accepts` is
`ApplyProposal`, conjunct by conjunct; `Gated` is the evidence that taskflow
adds when execution is finished. `task` is the stored record, `attempt` the
snapshot that `TaskInput` advances in memory together with what
`restoreProvisionalTask` will restore. `ledger` is what the operations of the
task say; together with those of the rest of the chat it decides whether an input
counts as a first one (`FirstInput`): a task without operations is exempt only
while no task of its chat has any, so for such a task both answers are possible.
`migrated` is a history variable. `Input` includes the rewrite of migrated
results. Which of three candidates is accepted is left open: a rejected
candidate changes nothing but the budget of the attempt, and `Refuse` is possible
at every step.

`Taskflow`. A task is its status and its provenance: the calls whose chains were
accepted into its snapshot (`work`); the stages, plan and gate inside are the
subject of `TaskMachine`. `ledger` is `ChatState.Operations` by client id,
`lastOp` is `TaskOperationIDs`; `TaskInputs` holds the text that goes with
`lastOp` and is put back with it, so it is not a variable of its own. `call`
holds the local variables of `TaskInput` and `Resume` that outlive a critical
section. `CheckInput` and `CheckResume` are the pre-check on an unlocked
snapshot, with what `Resume` resolves on its own snapshot before it; `Claim`,
`ClaimRefusal`, `ClaimAnswered` and `ClaimFails` are the outcomes of the claiming
mutation (the first two in `TaskInput` and `refuse`; a client id that comes back
with another text or for another task fails); `CommitTask`,
`CommitRefusal`, `CommitNothing`, `CommitFailure` and `CommitPair` those of the
final one. `Restore` is `restoreProvisionalTask`. A `Resume` that gets an error
pauses its task again in a mutation of its own (`Repause`). Which task router or
candidate yield is left open: any task that is not done, or a new one. `Restart`
and `Reclaimed` do to operations and tasks what `normalize` and `Update` do:
pause what a dead process was working on, fail what a failed save has left.

`Attempt`. `task`, `step`, `candidate`, `budget` and `research` are the local
variables of the loop in `TaskInput` (`next`, `step`, `candidate`, `callBudget`,
`researchToolUsed` with `researchAttempt`); `made` and `batches` count what was
really sent. A proposal is its stage and addressee, the part of `ApplyProposal`
that the loop depends on (`Acceptable`). `Returned` has the three outcomes of
`taskStep`. The goroutines of a batch return in any order (`CallReturns`), and
`BatchDone` is `group.Wait`. `Check` asks one checker after the other as
`Set.Validate` does. `Cancel` is the loss of the lease: an answer that arrives
afterwards is only an error, but a call that ignores its context may still end.

`Workspace` and `StateFile`. A session is a record with the fields of
`model.Browser` that operations relate to each other; `place` is the project a
chat is stored under. A profile is its name, and a name matters by two
functions: `FoldOf`, its class under `strings.EqualFold`, and `LowerOf`, its
`strings.ToLower`. An operation leaves the changed clone in `cand`; `Replace`
is the rename of the synced temporary file, `Publish` what `Update` does after
it. A file is its version, whether it has the equipment fields of version 8, and
the session; `Absent`, `Broken` and `Legacy` are no file, an undecodable one and
one of the two formats before projects. `settled` is the disk without its last
directory change, which a power failure may bring back. `down` is the process
between two starts; a start that refuses the file leaves everything as it is.

`Catalogue`. Time is in seconds: `clock` is the age of the client's context,
`waited` that of the request to BrewMark. A request is its number in the session:
three POSTs, and the DELETE of `Close`. `Send` is one POST of `Connect` and
`CallTool` or `ListTools`; the handler behind the last one asks BrewMark
(`Wait`, `Fetch`), then delivers its events one after the other (`Accepted`,
`Rejected`, `AnswerLost`, `Hangs`) and answers (`Respond`). An answer of BrewMark
is the number of items it lists, or what is wrong with it. An event is its request,
name and category. The deferred `session.Close` of `mcpclient` lets the SDK send a
DELETE, which `postOnly` answers with 405: its event has the HTTP status text as
category, which the collector refuses (`Valid`), so it ends on the console. Time
that the DELETE adds to the return of the method is not modelled: `result` is
decided before it. The MCP library and the network
between client and server are external: a POST arrives once or not at all.

## 3. What the runs show

| run | instance | shows |
|---|---|---|
| `lease` | 2 sessions, 3 calls, two of them in one session | no stranded or stolen lease, cancellation, revocation wins, calls return, `Turns` implemented with liveness |
| `conversation` | 1 session, 1 project, 1 chat, 3 calls in it: a send and a retry of one client id and a send of another; a disk that may refuse titles | pairing, kept inputs, memory, title workers; the lease protocol is implemented (fairness included), titles settle |
| `task_machine` | 2 plan items, 2 labels, chains of 2 steps; an empty chat or any valid task of an older file | validity, dead ends only for tasks of older files, done only with the gate or an older file's mark, kept work, no mid-chain snapshot |
| `taskflow` | 1 chat, 2 tasks; two inputs with one client id and a Resume | the ledger can be read back, no operation is stuck pending, accepted work is final, paused tasks rest; the lease protocol is implemented (safety) |
| `attempt` | 8 steps, 3 candidates, batches of up to 2 calls, 2 checkers | the budget, one batch, a true report, no commit at a limit, nothing unjudged accepted; the attempt ends |
| `statefile` | 2 projects, 2 chats, 3 names of which one folds to a built-in; every kind of file; 2 faults | references, reopening, durability, no orphaned lease, archive before replacement; a start succeeds when the faults end |
| `catalogue` | client budget 5, server limits 2 and 6, 2 deliveries per event | one request, true results, complete traces; the session and the handler end |

Runs that end in a counterexample; each refutes what a document or a comment of
the repository says, and stands in `PROJECT.json` under `findings`:

| run | statement | what happens |
|---|---|---|
| `statefile_names` | profiles survive a restart of the backend | `CreateProfile` compares with `EqualFold`, the next start with `ToLower`: two names may pass the first and fail the second, and the whole file is refused |
| `catalogue_collector` | an unavailable collector does not change the product response | BrewMark answers at once, but the first five of the six deliveries that precede the tool's answer hang for a second each: the client's five seconds are over |
| `task_dead_end` | tasks of older files have confirmed history and can repeat their step | the exemption from the opening questions asks whether the chat has operations, not the task: once a sibling got an input, or the task's own first one failed, was paused or died with the process, only `clarify_input` is accepted, which the task's stage or its completed items no longer allow |
| `task_paused_legacy` | a migrated result is never finished without a new gate, "paused" or not | the rewrite asks for an active task; a paused one is resumed as it is and finished |
| `taskflow_precheck` | the pre-check belongs to the operation, a confirmed pause wins | a pause during the pre-check finds no lease; the claim makes the task active again |

Further disagreements met while modelling, without a run of their own: a task in
`user_feedback` cannot return to `clarify_input`, since completed items must be
kept and that stage requires an empty plan; a completed item labelled `execution`
blocks `research_input_data -> execution` although the label is called
explanatory (`StartsExecutionFresh`); a refusal after the claim deletes
the operation of the client id, so a repeat stores a second pair (`Restore`);
the collector refuses the records of failed HTTP requests, whose category is a
status text (`Valid`), so the event of the DELETE that closes each session never
reaches the journal.

### Bounds

Sessions interact only through the shutdown and the shared reclamation in
`Update`, so two of them, one with competing calls, show every interaction. In
`conversation` three calls compete for the transcript, the lease and the memory
of their chat, which may be deleted, with its project, under each of them. What
calls of two chats have in common is the session's lease, which is the subject
of `lease` and, for any number of chats, of the proofs. Calls run once each: a
repeated request is another call with the same client id. Transcripts are
bounded by the number of calls. Two plan items are enough for a completed item
beside a current one and for the appended validation item; every proposal over
them is tried in every state. `MaxSteps` (8 in the code) is 2: a chain of one
step and a chain that goes on differ, longer chains repeat the second case, as
each step depends only on the snapshot before it. In `taskflow` one client id is
shared by two inputs, and a Resume comes with an id of its own or takes over the
one it finds: every pair of claim, repeat, pause and restoration on one ledger
entry occurs. Two task ids let an operation move between tasks and let the
router be undecided. Task ids are fresh and random and both inputs are alike, so
states that differ by exchanging them are identified (`MCSymmetry`; the run has
no liveness property). `TaskMachine` has no bound on the number of inputs.

`attempt` has the code's own limits of steps and candidates. Two calls in a
batch give all outcomes of it (all, some, none answered), one public checker and
the research checker all patterns of verdicts that the loop tells apart.
`statefile` has two of everything that one reference can be moved between. Two
faults allow an interrupted start and an interrupted repetition of it. A power
failure undoes at most the last directory change; a longer lost suffix is not
modelled. In `catalogue` the client's budget and the number of deliveries are
the code's; the server's limit is configurable, and what matters is whether it
is shorter than the client's (2) or longer (6; the default of ten seconds
behaves the same, the client is gone either way). `MaxFaults` is the only bound
on a counter; `asked`, `made` and `batches` are bounded by the code, which is
what their properties say.

### Fairness

Only the system's own steps are fair (`Lease!Fairness`,
`Conversation!Fairness`): goroutines are scheduled, every external call has a
timeout, and a failed save returns. Weak fairness is enough since a worker's
next step, once possible, stays possible until it is taken. Claims, pauses,
deletions, shutdown and restart are never forced. `TaskMachine` has no liveness
property: whether a task ends is up to its user and to the model's proposals;
`DeadEndsAreMigrated` says that a task of this version always can move on.
`Taskflow` states safety only and has no fairness; that its calls return is what
`Lease` shows under its own.

`Attempt` is weakly fair in `Works`: every completion, tool call and check runs
under a deadline, so some step of the attempt is always taken; the cancellation
is not forced. `StateFile` is weakly fair in `Progress`: the compose file starts
the container again (`restart: unless-stopped`), and a step of `Open` or `Save`
that does not fail ends; faults are bounded and users owe nothing. `Catalogue` is
weakly fair in `Progress`: timers run and goroutines are scheduled; which of
the possible answers BrewMark and the collector give, if any, is left to them. The DELETE of `Close` may get lost and is not forced.

`CHECK_DEADLOCK FALSE` stands in the configurations of `Conversation`,
`Taskflow`, `TaskMachine` and `Catalogue`: calls and sessions run once each, and a
finished task stays finished.

## 4. What is proved

Eight modules hold proofs, one of them (`ChatsProofs`) lemmas only. Each of the
others proves an inductive invariant of its specification and derives the
properties from it; hardly any of these properties is inductive alone. Every
safety invariant and every action property that a passing run checks is proved,
`SavedStateReopens` under one assumption more, on names (see `StateFileProofs`).
The assumptions are those on the constants, which TLC evaluates in every run. The
type invariants of `Lease`, `Attempt`, `StateFile` and `Catalogue` are proved and
therefore not repeated in the runs.

**`LeaseProofs`**, for any sets of sessions and calls (`LeaseAssumption`:
`SessionOf` maps calls to sessions, `NoLease` is no call): `Typing`; `Safety`,
the inductive invariant; `NoLeaseIsStranded`, `UnwantedCallsAreCancelled`,
`RevocationWins`; `Refinement`, every step of `Lease` is a step of `Turns` or
stutters. That a published lease is worked on needs to know that a reclaimed
lease belongs to a dead call, so that reclaiming never takes a live worker's
lease; that a revoked call never publishes needs that it neither owns the lease
nor can get it back, which rests on the lease naming a call of its own session
past its claim; that an unwanted call is cancelled needs that every live
registered call is in the registry. The lemmas that take `Init` and one step to
the invariant and to `Turns` are stated apart from the temporal theorems, so that
the two modules that follow the protocol can use them.

**`ChatsProofs`**, for any sessions, projects, chats and calls
(`ChatsAssumption`): the type lemmas of every operator of `StateManager` and
`Chats`, and that `Without` takes exactly the messages of one client out of a
transcript and leaves the others in their order. `Without` is written without
recursion (the n-th message is the one with n - 1 messages that stay before it),
since the provers know nothing of `SelectSeq`.

**`ConversationProofs`**, for any sets of sessions, projects, chats, client ids
and calls: `TypeCorrect`; `FollowsLease`, every step is a step of `Lease` or
stutters, so that `LeasesAreSafe` (the invariant of `LeaseProofs`) and
`ImplementsTurns` hold of `Send` and `Retry`; `OwnersAreSafe`, the inductive
invariant `OwnerInv`; and from it `MemoryIsKept` and `TranscriptsArePaired`;
`InputsAreKept`, `TitlesAreWanted`. The commit builds on what the claim has read
before the external calls; that this is not stale is `OwnerInv`: while a call
holds its lease its chat exists, the memory it has read is the memory there is,
and its input is not in the transcript, unless it is the failed message that it
retries. It is inductive because a step after which a call is at work under its
lease is its claim or left all of this alone (`OwnerIsUndisturbed`).

**`TaskflowProofs`**, for any sets of sessions, chats, tasks, client ids and calls
(`TaskflowAssumption`: every call has a client id and a kind; `NoTask` and `NoOp`
are no task or task id and no operation): `TasksAreSafe`, the inductive
invariant `TaskInv`, with `TypeCorrect`, `LeasesAreSafe`, `FollowsLease` (the
whole of `ImplementsLease`, which has no fairness here) and `ImplementsTurns`;
`LedgerStaysReadable`, `PendingOperationsAreLeased`, `AcceptedWorkStays`,
`PausedTasksRest`. `restoreProvisionalTask` writes back task, operation and
pointer as the claim has found them, so what is stored stays sound only if what
the call remembers fits what is stored when it commits: `Recorded` says this of
the call that holds the chat's lease (its operation is pending and is the last
one of its task; the remembered operation, the remembered pointer and a task that
did not exist before leave nothing dangling when they are put back). `Good` says
that a chat is sound and that only such a call has an operation pending, and is
shown once for each thing that can happen to the tasks of one chat, as a lemma
about values: `GoodClaim`, `GoodEnd` (commit, failure, pause), `GoodRestore`,
`GoodPaused` and `GoodUnworked` (reclaim, restart). The rest of the proof brings
every action down to one of these in its own chat (`StepKeepsGood`), and to the
reclamation in `Update` in all others (`MutatedChat`, `CandidateIsGood`). Even the
types of the stored tasks depend on `TaskInv`: without it nothing says that a call
that commits has a task to write to.

**`TaskMachineProofs`**, for any plan items, labels and chain lengths
(`ProposalAssumption`, `TaskMachineAssumption`: the empty identifiers are none
of the real ones, the validation item is an item): `TypeCorrect`,
`StoredTasksAreValid`, `DoneIsProved`, `WorkIsKept`, `NoMidChain`,
`OnlyMigratedDeadEnds`, `StrandedForGood`. Every snapshot an attempt holds is
`Sound`: it passes the plan rules, and the mark of an older file stands only on
a result that never passed the gate and has no validation item, which is why the
item that the rewrite appends is the only current one. Snapshots only `Follow`
each other: nothing completed is lost and no mark is put on. While an attempt
lasts, the stored task is what it started from, so undoing it changes the status
only. That a task of this version has no dead end is shown by naming an
acceptable proposal for each stage of a sound task, and the opening questions
for one that has nothing committed, which is still in `clarify_input` if no
older file made it. The dead end that `task_dead_end` shows is permanent: a task
beyond `clarify_input` with an operation in the ledger, but none committed, is
`Stranded`, and `StrandedForGood` says that it stays so and that every attempt
on it is in the dead end.

**`AttemptProofs`**, for any numbers of steps, candidates, tool calls and
checkers: `TypeCorrect`, `BudgetKept`, `AtMostOneBatch`, `ReportsAreTrue`,
`CommitsAwaitUser`, `OnlyAllowedIsAccepted`. The invariant says how much of the
budget is spent at each point of the loop (between the two calls of the tool
loop one is made that is not counted yet, and both fit), that a batch is noted
before it is sent, what the report is made of, which checkers have spoken and
when an attempt may reach its commit.

**`StateFileProofs`**, for any identifiers, names, foldings, stored files and
numbers of faults (`WorkspaceAssumption`, `StateFileAssumption`: the references
in files of earlier starts hold, and a file of this version is one that this
version could save): `Safety`, `TypeCorrect`, `ReferencesHold`, `ServedIsSaved`,
`NothingIsOverwritten`, `LeasesEndWithTheProcess`; and `SavedReopens` under
`NamesAgree`, that names equal in lower case are equal under folding. Real names
do not all satisfy it: this is what `statefile_names` shows. The invariant says
what each phase of the process knows of the disk and of the two sessions, for
the disk and for the one a power failure may bring back.

**`CatalogueProofs`**, for any budget, limits and number of deliveries:
`TypeCorrect`, `OneBrokerRequest` (an action property: one request at most, and
none once the result is decided), `ResultsAreTrue`, `AnswersAreTraced`. The
events a request owes are determined by what was sent and answered; what is in the
journal or on the console was owed, and what is owed is there or still queued.

Model-checked only: liveness (`ClaimedCallReturns`, `TitleSettles`,
`AttemptEnds`, `Reopens`, `SessionEnds`, the fairness half of `ImplementsTurns`
and of `Conversation`'s `ImplementsLease`), which is outside the prover's reach;
and the counterexamples.

## 5. What is left

In the order in which it is planned:

1. `Attempt` as a refinement of the step `Answer` of `Taskflow`, and `TaskMachine`
   as the inside of the tasks of `Taskflow`, stated in TLA+ and proved.
2. `Frontend`: what the page shows when answers, polls and navigation are
   reordered.

Not modelled, and not planned: texts of prompts and answers, token accounting,
logging, HTML and styles; configuration parsing, pure decoding
(`adapters/extractjson`) and the provider adapter, which keep no state between
calls and appear as nondeterministic outcomes; the HTTP handlers other than the
collector, each of which is one call of a modelled service; the redaction and
deletion of journal texts; and the legacy session store and agent
(`internal/session`, `internal/agent`), which nothing in production calls.
