------------------------------ MODULE Workspace ------------------------------
(***************************************************************************)
(* workspace.Service: the projects, chats and profiles of one browser      *)
(* session, and the save that every mutation of them goes through.         *)
(*                                                                         *)
(* Manager.Update clones the published session, lets the operation change  *)
(* the clone, saves it and only then publishes it.  An operation is one    *)
(* action here: its guard is what the change function accepts, and it      *)
(* leaves the changed clone to the save.  An operation that is refused     *)
(* changes nothing and has no action.                                      *)
(*                                                                         *)
(* A profile is its name: the texts play no part, and no two profiles of a *)
(* session have the same one.  Titles, facts, transcripts and tasks are    *)
(* the business of Conversation and Taskflow; of their calls only what     *)
(* this package reads and clears is here, the lease.                       *)
(*                                                                         *)
(* The module has no specification of its own: StateFile extends it.       *)
(***************************************************************************)
EXTENDS Naturals

CONSTANTS
  Projects, Chats,      \* identifiers s.id() can draw
  Names,                \* names users give to profiles
  BuiltIns, Barista,    \* the built-in profiles, and the default one
  FoldOf,               \* the class of a name under strings.EqualFold
  LowerOf,              \* the name under strings.ToLower
  NoProject, NoChat, NoProfile   \* the empty identifiers

ASSUME WorkspaceAssumption ==
  /\ Barista \in BuiltIns /\ BuiltIns \cap Names = {}
  /\ DOMAIN FoldOf = Names \cup BuiltIns /\ DOMAIN LowerOf = Names \cup BuiltIns
  /\ NoProject \notin Projects /\ NoChat \notin Chats
  /\ NoProfile \notin Names \cup BuiltIns

VARIABLES
  mem,      \* the published session: Manager.value
  cand,     \* the clone that is being saved
  phase     \* what the process is doing

workVars == <<mem, cand, phase>>

\* model.Browser; `place` is the project each chat is stored under.
Browsers ==
  [projects : SUBSET Projects, place : [Chats -> Projects \cup {NoProject}],
   project : Projects \cup {NoProject}, chat : Chats \cup {NoChat},
   profiles : SUBSET Names, active : Names \cup BuiltIns \cup {NoProfile},
   lease : Chats \cup {NoChat}]

\* State.Browser: the session of a cookie that was never seen.
NewBrowser ==
  [projects |-> {}, place |-> [c \in Chats |-> NoProject],
   project |-> NoProject, chat |-> NoChat, profiles |-> {}, active |-> Barista,
   lease |-> NoChat]

InProject(b, p) == {c \in Chats : b.place[c] = p}

IsKnownProfile(b, n) == n \in BuiltIns \cup b.profiles

\* Fault: a name is compared letter for letter.
ProfileNameExists_Exact(b, n) == n \in BuiltIns \cup b.profiles

ProfileNameExists(b, n) ==
  \E m \in BuiltIns \cup b.profiles : FoldOf[m] = FoldOf[n]

\* Update, up to the save: the clone has been changed.
Save(b) ==
  /\ phase = "running"
  /\ phase' = "saving"
  /\ cand' = b
  /\ UNCHANGED mem

-----------------------------------------------------------------------------
\* Fault: the chat that was selected in another project stays selected.
CreateProject_KeepsChat(p) ==
  /\ p \notin mem.projects
  /\ Save([mem EXCEPT !.projects = @ \cup {p}, !.project = p])

CreateProject(p) ==
  /\ p \notin mem.projects
  /\ Save([mem EXCEPT !.projects = @ \cup {p}, !.project = p, !.chat = NoChat])

SelectProject(p) ==
  /\ p \in mem.projects
  /\ Save([mem EXCEPT !.project = p, !.chat = NoChat])

\* Its chats go with it, and with them the lease of a call in one of them.
DeleteProject(p) ==
  /\ p \in mem.projects
  /\ LET gone == InProject(mem, p) IN
     Save([mem EXCEPT
       !.projects = @ \ {p},
       !.place = [c \in Chats |-> IF c \in gone THEN NoProject ELSE @[c]],
       !.lease = IF @ \in gone THEN NoChat ELSE @,
       !.project = IF @ = p THEN NoProject ELSE @,
       !.chat = IF mem.project = p THEN NoChat ELSE @])

CreateChat(p, c) ==
  /\ p \in mem.projects /\ mem.place[c] = NoProject
  /\ Save([mem EXCEPT !.place[c] = p, !.project = p, !.chat = c])

SelectChat(p, c) ==
  /\ p \in mem.projects /\ mem.place[c] = p
  /\ Save([mem EXCEPT !.project = p, !.chat = c])

DeleteChat(p, c) ==
  /\ p \in mem.projects /\ mem.place[c] = p
  /\ Save([mem EXCEPT
       !.place[c] = NoProject,
       !.lease = IF @ = c THEN NoChat ELSE @,
       !.chat = IF @ = c THEN NoChat ELSE @])

CreateProfile(n) ==
  /\ ~ProfileNameExists(mem, n)
  /\ Save([mem EXCEPT !.profiles = @ \cup {n}, !.active = n])

SelectProfile(n) ==
  /\ IsKnownProfile(mem, n)
  /\ Save([mem EXCEPT !.active = n])

DeleteProfile(n) ==
  /\ n \in mem.profiles
  /\ Save([mem EXCEPT !.profiles = @ \ {n}, !.active = IF @ = n THEN Barista ELSE @])

\* RenameProject, ClearGlobal, ClearProject: a save that moves nothing kept here.
Touch == mem.projects # {} /\ Save(mem)

-----------------------------------------------------------------------------
(***************************************************************************)
(* The calls of the other packages, as far as they write the same record.  *)
(***************************************************************************)

\* Send and TaskInput claim the lease in an existing chat.
Claim(c) ==
  /\ mem.lease = NoChat /\ mem.place[c] # NoProject
  /\ Save([mem EXCEPT !.lease = c])

\* The commit of the call, or PauseTask: the lease ends.
Settle ==
  /\ mem.lease # NoChat
  /\ Save([mem EXCEPT !.lease = NoChat])

Mutate ==
  \/ \E p \in Projects : CreateProject(p) \/ SelectProject(p) \/ DeleteProject(p)
  \/ \E p \in Projects, c \in Chats :
       CreateChat(p, c) \/ SelectChat(p, c) \/ DeleteChat(p, c)
  \/ \E n \in Names : CreateProfile(n) \/ DeleteProfile(n)
  \/ \E n \in Names \cup BuiltIns : SelectProfile(n)
  \/ \E c \in Chats : Claim(c)
  \/ Settle \/ Touch
=============================================================================
