---------------------------- MODULE Conversation ----------------------------
(***************************************************************************)
(* conversation.Service: Send, Retry and the refusal of an input that the  *)
(* invariant pipeline rejects, beside the mutations of the workspace, the  *)
(* title workers, the shutdown and a crash with restart.                   *)
(*                                                                         *)
(* A call is checked against a snapshot, claims its session's lease in one *)
(* mutation, calls model, checkers and extractor without the lock on what  *)
(* the claim has read, and stores everything in a second mutation.         *)
(***************************************************************************)
EXTENDS Chats

CONSTANTS
  ClientOf,   \* client_message_id of each call; equal ids carry equal texts
  KindOf      \* "send" or "retry"

ASSUME ConversationAssumption ==
  /\ ClientOf \in [Ops -> Clients]
  /\ KindOf \in [Ops -> {"send", "retry"}]

VARIABLES
  pc,        \* control state of each call
  refused,   \* calls whose input the pre-check has rejected
  read,      \* the memory each call has read with its claim
  revoked,   \* calls whose lease a deletion has taken away (history)
  results    \* calls whose final mutation has been published (history)

callVars == <<pc, refused, read, revoked, results>>
vars == <<mgrVars, chatVars, callVars>>

(***************************************************************************)
(* idle, checked - before the claim                                        *)
(* claimed, calling, answered - as in Lease                                *)
(* titling   - committed; the title it claimed is to be started            *)
(* returning, exited - as in Lease                                         *)
(***************************************************************************)
Phases ==
  {"idle", "checked", "claimed", "calling", "answered", "titling", "returning", "exited"}

Unread == [global |-> {}, project |-> {}]

Step(o, from, to) ==
  /\ pc[o] = from
  /\ pc' = [pc EXCEPT ![o] = to]

Init ==
  /\ MgrInit
  /\ ChatsInit
  /\ pc = [o \in Ops |-> "idle"]
  /\ refused = {}
  /\ read = [o \in Ops |-> Unread]
  /\ revoked = {}
  /\ results = {}

-----------------------------------------------------------------------------
(***************************************************************************)
(* Before the claim: everything is read from a snapshot and may be stale   *)
(* when the claim comes.                                                   *)
(***************************************************************************)
Check(o) ==
  /\ Step(o, "idle", "checked")
  /\ ChatOf[o] \in chats
  /\ KindOf[o] = "retry" => UserMessage(ClientOf[o], "error") \in Sent(ChatOf[o], ClientOf[o])
  /\ refused' \in {refused, refused \cup {o}}
  /\ UNCHANGED <<mgrVars, chatVars, read, revoked, results>>

\* No such chat or message, or the checker failed.
CheckFails(o) ==
  /\ Step(o, "idle", "exited")
  /\ UNCHANGED <<mgrVars, chatVars, refused, read, revoked, results>>

\* Fault: a retry claims although its message has been answered since.
Replays_SendOnly(o) ==
  KindOf[o] = "send" /\ Sent(ChatOf[o], ClientOf[o]) # {}

\* The claim answers from the transcript.  A refusal replays a failed message
\* too, whatever brought it here.
Replays(o) ==
  \E m \in Sent(ChatOf[o], ClientOf[o]) :
    m.status = "success" \/ KindOf[o] = "send" \/ o \in refused

\* Fault: the claim does not look for the lease of another call.
Claim_IgnoresBusy(o) ==
  /\ Step(o, "checked", "claimed")
  /\ ChatOf[o] \in chats
  /\ ~Replays(o)
  /\ Publish([Candidate EXCEPT ![SessionOf[o]] = o])
  /\ read' = [read EXCEPT ![o] = [global |-> memory[SessionOf[o]],
                                  project |-> memory[ProjectOf[ChatOf[o]]]]]
  /\ UNCHANGED <<chatVars, refused, revoked, results>>

Claim(o) ==
  /\ Step(o, "checked", "claimed")
  /\ ChatOf[o] \in chats
  /\ ~Replays(o)
  /\ Candidate[SessionOf[o]] = NoLease
  /\ Publish([Candidate EXCEPT ![SessionOf[o]] = o])
  /\ read' = [read EXCEPT ![o] = [global |-> memory[SessionOf[o]],
                                  project |-> memory[ProjectOf[ChatOf[o]]]]]
  /\ UNCHANGED <<chatVars, refused, revoked, results>>

\* Not found, replayed, busy, closed or not saved.
ClaimRefused(o) ==
  /\ Step(o, "checked", "exited")
  /\ UNCHANGED <<mgrVars, chatVars, refused, read, revoked, results>>

-----------------------------------------------------------------------------
Attach(o) ==
  /\ Step(o, "claimed", "calling")
  /\ AttachLease(SessionOf[o], o)
  /\ UNCHANGED <<chatVars, refused, read, revoked, results>>

\* Candidates, checkers and extractor are through, cancelled or not.
Answer(o) ==
  /\ Step(o, "calling", "answered")
  /\ UNCHANGED <<mgrVars, chatVars, refused, read, revoked, results>>

\* The final mutation goes through and releases the lease.
Release(o) ==
  /\ ChatOf[o] \in chats
  /\ Candidate[SessionOf[o]] = o
  /\ Publish([Candidate EXCEPT ![SessionOf[o]] = NoLease])
  /\ results' = results \cup {o}
  /\ UNCHANGED <<projects, chats, worker, refused, read, revoked>>

\* The transcript of the call's chat becomes msgs.
Stored(o, msgs) == messages' = [messages EXCEPT ![ChatOf[o]] = msgs]

\* The pair that is appended: an answer replaces the failed message it retries.
Pair(o) ==
  (IF o \in refused THEN messages[ChatOf[o]] ELSE Without(ChatOf[o], ClientOf[o]))
    \o <<UserMessage(ClientOf[o], "success"), Reply>>

\* Both layers are replaced by what was extracted from the memory that was read.
Extracted(o) ==
  [memory EXCEPT ![SessionOf[o]] = read[o].global \cup {o},
                 ![ProjectOf[ChatOf[o]]] = read[o].project \cup {o}]

\* An accepted answer or refusal; without an extractor the memory stays.
CommitAnswer(o) ==
  /\ pc[o] = "answered"
  /\ Release(o)
  /\ Stored(o, Pair(o))
  /\ memory' \in {memory, Extracted(o)}
  /\ title' = TitleClaimed(ChatOf[o])
  /\ pc' = [pc EXCEPT ![o] = IF title' # title THEN "titling" ELSE "returning"]

\* The provider failed: the input stays in the transcript, to be retried.
CommitFailure(o) ==
  /\ Step(o, "answered", "returning")
  /\ o \notin refused
  /\ Release(o)
  /\ Stored(o, Append(Without(ChatOf[o], ClientOf[o]), UserMessage(ClientOf[o], "error")))
  /\ UNCHANGED <<memory, title>>

\* Fault: the failed message is taken out before the checkers' error is seen.
CommitNothing_DropsInput(o) ==
  /\ Step(o, "answered", "returning")
  /\ o \notin refused
  /\ Release(o)
  /\ Stored(o, Without(ChatOf[o], ClientOf[o]))
  /\ UNCHANGED <<memory, title>>

\* A checker failed: fail closed, only the lease is released.
CommitNothing(o) ==
  /\ Step(o, "answered", "returning")
  /\ o \notin refused
  /\ Release(o)
  /\ UNCHANGED <<messages, memory, title>>

\* The chat or the lease is gone, the manager closed, or the save failed.
CommitRefused(o) ==
  /\ Step(o, "answered", "returning")
  /\ UNCHANGED <<mgrVars, chatVars, refused, read, revoked, results>>

StartTitle(o) ==
  /\ Step(o, "titling", "returning")
  /\ StartWorker(ChatOf[o])
  /\ UNCHANGED <<refused, read, revoked, results>>

Detach(o) ==
  /\ Step(o, "returning", "exited")
  /\ DetachLease(o)
  /\ read' = [read EXCEPT ![o] = Unread]
  /\ UNCHANGED <<chatVars, refused, revoked, results>>

-----------------------------------------------------------------------------
\* Calls whose lease a deletion takes away.
Losing(gone) == {Candidate[s] : s \in Sessions} \ {Released(gone)[s] : s \in Sessions}

DeleteChat(c) ==
  /\ DeletedChat(c)
  /\ revoked' = revoked \cup (Losing({c}) \ {NoLease})
  /\ UNCHANGED <<pc, refused, read, results>>

DeleteProject(p) ==
  /\ DeletedProject(p)
  /\ revoked' = revoked \cup (Losing({c \in chats : ProjectOf[c] = p}) \ {NoLease})
  /\ UNCHANGED <<pc, refused, read, results>>

ClearGlobal(s) == ClearedGlobal(s) /\ UNCHANGED callVars
ClearProject(p) == ClearedProject(p) /\ UNCHANGED callVars

\* Renames, selections, profiles: saved, and nothing of the above changes.
Mutate == Publish(Candidate) /\ UNCHANGED <<chatVars, callVars>>

TitleWork(c) == (TitleAnswered(c) \/ TitleSaved(c) \/ TitleNotSaved(c)) /\ UNCHANGED callVars

Close == CloseStore /\ UNCHANGED callVars

\* A call that had not claimed is forgotten, the others die where they are.
Restart ==
  /\ Reopen
  /\ pc' = [o \in Ops |-> IF pc[o] \in {"idle", "checked"} THEN "idle" ELSE "exited"]
  /\ refused' = {o \in refused : pc[o] # "checked"}
  /\ read' = [o \in Ops |-> Unread]
  /\ UNCHANGED <<revoked, results>>

Work(o) ==
  \/ Attach(o) \/ Answer(o) \/ StartTitle(o) \/ Detach(o)
  \/ CommitAnswer(o) \/ CommitFailure(o) \/ CommitNothing(o) \/ CommitRefused(o)

Next ==
  \/ \E o \in Ops :
       Check(o) \/ CheckFails(o) \/ Claim(o) \/ ClaimRefused(o) \/ Work(o)
  \/ \E c \in Chats : DeleteChat(c) \/ TitleWork(c)
  \/ \E p \in Projects : DeleteProject(p) \/ ClearProject(p)
  \/ \E s \in Sessions : ClearGlobal(s)
  \/ Mutate \/ Close \/ Restart

\* Goroutines run on and every external call has a timeout.
Fairness ==
  /\ \A o \in Ops : WF_vars(Work(o))
  /\ \A c \in Chats : WF_vars(TitleWork(c))

Spec == Init /\ [][Next]_vars /\ Fairness

-----------------------------------------------------------------------------
TypeOK ==
  /\ MgrTypeOK
  /\ ChatsTypeOK
  /\ pc \in [Ops -> Phases]
  /\ refused \subseteq Ops
  /\ read \in [Ops -> [global : SUBSET Ops, project : SUBSET Ops]]
  /\ revoked \subseteq Ops /\ results \subseteq Ops

(***************************************************************************)
(* A transcript holds each client's input at most once, and exactly the    *)
(* accepted inputs are followed by their reply, whatever resends, retries  *)
(* and refusals of one client_message_id raced each other.                 *)
(***************************************************************************)
TranscriptIsPaired ==
  \A c \in Chats : LET log == messages[c] IN
    /\ \A i, j \in DOMAIN log :
         log[i].role = "user" /\ log[i].client = log[j].client => i = j
    /\ \A i \in DOMAIN log :
         (log[i] \in {UserMessage(k, "success") : k \in Clients})
           <=> (i + 1 \in DOMAIN log /\ log[i + 1] = Reply)

(***************************************************************************)
(* An input that was stored stays in the transcript while the chat exists: *)
(* no retry that fails, loses its lease or dies half-way removes it.       *)
(***************************************************************************)
StoredInputIsKept ==
  [][\A c \in Chats, k \in Clients : c \in chats' /\ Sent(c, k) # {} => Sent(c, k)' # {}]_vars

(***************************************************************************)
(* A layer of the memory is only ever emptied or extended by one answer:   *)
(* the answer of a call that read an older memory neither drops facts that *)
(* were stored since nor brings back facts the user has cleared.           *)
(***************************************************************************)
MemoryIsNotRolledBack ==
  [][\A k \in DOMAIN memory :
       memory'[k] = {} \/ (/\ memory[k] \subseteq memory'[k]
                           /\ Cardinality(memory'[k] \ memory[k]) <= 1)]_vars

(***************************************************************************)
(* A title worker that nobody has cancelled still has a chat to name, and  *)
(* a deleted chat gets no title from a worker that answers late.           *)
(***************************************************************************)
UnwantedTitleIsCancelled ==
  \A c \in Chats :
    /\ worker[c] = "running" => ~closed /\ c \in chats /\ title[c] = "pending"
    /\ c \notin chats => title[c] = "idle"

(***************************************************************************)
(* Send, Retry and their refusals follow the lease protocol.               *)
(***************************************************************************)
ProtocolPhase(o) ==
  IF pc[o] = "checked" THEN "idle" ELSE IF pc[o] = "titling" THEN "returning" ELSE pc[o]

Protocol == INSTANCE Lease WITH pc <- [o \in Ops |-> ProtocolPhase(o)]

ImplementsLease == Protocol!Spec

(***************************************************************************)
(* A pending title gets its final value, unless the server is shut down    *)
(* first or the chat is deleted.  The one way to stay pending is a title   *)
(* the disk refused to save: nothing tries again before the next start.    *)
(***************************************************************************)
TitleSettles ==
  \A c \in Chats :
    title[c] = "pending" ~> (title[c] # "pending" \/ closed \/ worker[c] = "unsaved")
=============================================================================
