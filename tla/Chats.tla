------------------------------- MODULE Chats -------------------------------
(***************************************************************************)
(* What model.State stores of the chats besides the leases - transcripts,  *)
(* memory, titles - with the mutations of workspace.Service that touch it  *)
(* and the title worker of conversation.Titles.                            *)
(*                                                                         *)
(* A message is its client id, role and status.  A layer of the memory     *)
(* (GlobalFacts of a session, Facts of a project) is represented by its    *)
(* provenance: the calls whose answers its facts were extracted from.      *)
(*                                                                         *)
(* The module has no specification of its own: the use cases extend it.    *)
(***************************************************************************)
EXTENDS StateManager, Sequences, FiniteSets, Naturals

CONSTANTS
  Projects, Chats,   \* projects and chats that exist at the start
  ProjectOf,         \* the project of each chat
  OwnerOf,           \* the browser session of each project
  Clients,           \* client_message_id values
  NoClient,          \* an assistant message has none
  ChatOf,            \* the chat each call was made in
  SavesFail          \* the disk may refuse to save a title

ASSUME ChatsAssumption ==
  /\ ProjectOf \in [Chats -> Projects]
  /\ OwnerOf \in [Projects -> Sessions]
  /\ ChatOf \in [Ops -> Chats]
  /\ Projects \cap Sessions = {}
  /\ NoLease \notin Ops /\ NoClient \notin Clients
  /\ SavesFail \in BOOLEAN

VARIABLES
  projects, chats,   \* the projects and chats that have not been deleted
  messages,          \* [Chats -> Seq(message)]
  memory,            \* [Sessions \cup Projects -> SUBSET Ops]
  title,             \* ChatState.TitleStatus
  worker             \* the goroutine of conversation.Titles for the chat

chatVars == <<projects, chats, messages, memory, title, worker>>

\* The session each call belongs to.
SessionOf == [o \in Ops |-> OwnerOf[ProjectOf[ChatOf[o]]]]

TitleStatuses == {"idle", "pending", "success", "fallback"}

(***************************************************************************)
(* none    - no worker, or it has returned                                 *)
(* running - registered in Manager.titles, the model is being called       *)
(* stopped - cancelled by a deletion or the shutdown, still to return      *)
(* saving  - has passed its last look at the cancellation                  *)
(* unsaved - has returned because the disk refused its title               *)
(***************************************************************************)
WorkerPhases == {"none", "running", "stopped", "saving", "unsaved"}

UserMessage(k, status) == [client |-> k, role |-> "user", status |-> status]
Reply == [client |-> NoClient, role |-> "assistant", status |-> "success"]

Messages == {UserMessage(k, st) : k \in Clients, st \in {"success", "error"}} \cup {Reply}

ChatsTypeOK ==
  /\ projects \subseteq Projects
  /\ chats \subseteq {c \in Chats : ProjectOf[c] \in projects}
  /\ messages \in [Chats -> Seq(Messages)]
  /\ memory \in [Sessions \cup Projects -> SUBSET Ops]
  /\ title \in [Chats -> TitleStatuses]
  /\ worker \in [Chats -> WorkerPhases]

ChatsInit ==
  /\ projects = Projects
  /\ chats = Chats
  /\ messages = [c \in Chats |-> <<>>]
  /\ memory = [k \in Sessions \cup Projects |-> {}]
  /\ title = [c \in Chats |-> "idle"]
  /\ worker = [c \in Chats |-> "none"]

\* The messages of a chat that carry the client id, and the chat without them.
Sent(c, k) == {m \in {messages[c][i] : i \in DOMAIN messages[c]} : m.client = k}

\* SelectSeq, by the places of the messages that stay.
Without(c, k) ==
  LET log == messages[c]
      kept == {i \in DOMAIN log : log[i].client # k}
      Place(n) == CHOOSE i \in kept : Cardinality({j \in kept : j <= i}) = n
  IN  [n \in 1 .. Cardinality(kept) |-> log[Place(n)]]

\* Update, last part: title workers of deleted chats are cancelled.
StopTitles(live) ==
  worker' = [c \in Chats |-> IF worker[c] = "running" /\ c \notin live THEN "stopped"
                             ELSE worker[c]]

-----------------------------------------------------------------------------
(***************************************************************************)
(* workspace.Service.                                                      *)
(***************************************************************************)

\* The candidate without the leases of calls in the given chats.
Released(gone) ==
  [s \in Sessions |->
     IF Candidate[s] # NoLease /\ ChatOf[Candidate[s]] \in gone THEN NoLease
     ELSE Candidate[s]]

\* Fault: the title worker of a deleted chat is left running.
RemoveChats_KeepsTitle(gone) ==
  /\ Publish(Released(gone))
  /\ chats' = chats \ gone
  /\ messages' = [c \in Chats |-> IF c \in gone THEN <<>> ELSE messages[c]]
  /\ title' = [c \in Chats |-> IF c \in gone THEN "idle" ELSE title[c]]
  /\ UNCHANGED worker

\* Deleting chats takes their lease away and stops their title workers.
RemoveChats(gone) ==
  /\ Publish(Released(gone))
  /\ chats' = chats \ gone
  /\ messages' = [c \in Chats |-> IF c \in gone THEN <<>> ELSE messages[c]]
  /\ title' = [c \in Chats |-> IF c \in gone THEN "idle" ELSE title[c]]
  /\ StopTitles(chats \ gone)

DeletedChat(c) ==
  /\ c \in chats
  /\ RemoveChats({c})
  /\ UNCHANGED <<projects, memory>>

\* The project's memory goes with it, the global memory stays.
DeletedProject(p) ==
  /\ p \in projects
  /\ RemoveChats({c \in chats : ProjectOf[c] = p})
  /\ projects' = projects \ {p}
  /\ memory' = [memory EXCEPT ![p] = {}]

\* Fault: the memory is cleared under a call that has already read it.
ClearedGlobal_Busy(s) ==
  /\ Publish(Candidate)
  /\ memory' = [memory EXCEPT ![s] = {}]
  /\ UNCHANGED <<projects, chats, messages, title, worker>>

ClearedGlobal(s) ==
  /\ Candidate[s] = NoLease
  /\ Publish(Candidate)
  /\ memory' = [memory EXCEPT ![s] = {}]
  /\ UNCHANGED <<projects, chats, messages, title, worker>>

\* Only a call in the same project makes clearing its memory wait.
ClearedProject(p) ==
  /\ p \in projects
  /\ Candidate[OwnerOf[p]] \notin {o \in Ops : ProjectOf[ChatOf[o]] = p}
  /\ Publish(Candidate)
  /\ memory' = [memory EXCEPT ![p] = {}]
  /\ UNCHANGED <<projects, chats, messages, title, worker>>

-----------------------------------------------------------------------------
(***************************************************************************)
(* conversation.Titles.                                                    *)
(***************************************************************************)

\* ClaimTitle, inside the mutation that accepts an input.
TitleClaimed(c) == [title EXCEPT ![c] = IF @ = "idle" THEN "pending" ELSE @]

\* Nothing to name any more: the chat is gone or the manager is closed.
Unnameable(c) == closed \/ c \notin chats \/ title[c] # "pending"

\* Start and AttachTitle: a deletion or the shutdown may have come first.
StartWorker(c) ==
  /\ worker' = [worker EXCEPT
                  ![c] = IF Unnameable(c) THEN "stopped" ELSE "running"]
  /\ UNCHANGED <<mgrVars, projects, chats, messages, memory, title>>

\* The model has answered, or given up.  A cancelled worker returns.
TitleAnswered(c) ==
  /\ worker[c] \in {"running", "stopped"}
  /\ worker' = [worker EXCEPT ![c] = IF @ = "running" THEN "saving" ELSE "none"]
  /\ UNCHANGED <<mgrVars, projects, chats, messages, memory, title>>

TitleSaved(c) ==
  /\ worker[c] = "saving"
  /\ c \in chats /\ title[c] = "pending"
  /\ Publish(Candidate)
  /\ \E status \in {"success", "fallback"} : title' = [title EXCEPT ![c] = status]
  /\ worker' = [worker EXCEPT ![c] = "none"]
  /\ UNCHANGED <<projects, chats, messages, memory>>

\* The title is not saved: there is nothing to name, or the disk refuses it.
TitleNotSaved(c) ==
  /\ worker[c] = "saving"
  /\ Unnameable(c) \/ SavesFail
  /\ worker' = [worker EXCEPT ![c] = IF Unnameable(c) THEN "none" ELSE "unsaved"]
  /\ UNCHANGED <<mgrVars, projects, chats, messages, memory, title>>

\* Manager.Close, then Titles.Close, which waits for the workers.
CloseStore ==
  /\ CloseManager
  /\ worker' = [c \in Chats |-> IF worker[c] = "running" THEN "stopped" ELSE worker[c]]
  /\ UNCHANGED <<projects, chats, messages, memory, title>>

\* Fault: a title that was being generated stays pending after a restart.
Reopen_KeepsTitles ==
  /\ ReopenManager
  /\ worker' = [c \in Chats |-> "none"]
  /\ UNCHANGED <<projects, chats, messages, memory, title>>

\* normalize gives every pending title its fallback.
Reopen ==
  /\ ReopenManager
  /\ title' = [c \in Chats |-> IF title[c] = "pending" THEN "fallback" ELSE title[c]]
  /\ worker' = [c \in Chats |-> "none"]
  /\ UNCHANGED <<projects, chats, messages, memory>>
=============================================================================
