------------------------- MODULE ConversationProofs -------------------------
(***************************************************************************)
(* Theorems about Conversation for every set of sessions, projects, chats  *)
(* and calls: Send, Retry and their refusals follow the lease protocol,    *)
(* and with the protocol's own invariant at hand the transcripts, the      *)
(* memory and the titles are what MCConversation checks on three calls.    *)
(***************************************************************************)
EXTENDS Conversation, ChatsProofs

\* The lease protocol as Conversation instantiates it, with its theorems.
Leases == INSTANCE LeaseProofs WITH pc <- [o \in Ops |-> ProtocolPhase(o)]

LEMMA LeasesAssumption == Leases!LeaseAssumption
  BY SessionOfType, ChatsAssumption DEF Leases!LeaseAssumption

-----------------------------------------------------------------------------
(***************************************************************************)
(* Types.                                                                  *)
(***************************************************************************)
LEMMA MessageTypes ==
  /\ \A k \in Clients : UserMessage(k, "success") \in Messages
                        /\ UserMessage(k, "error") \in Messages
  /\ Reply \in Messages
  BY DEF Messages

\* The transcripts that the three commits store.
LEMMA StoredTypes ==
  ASSUME TypeOK, NEW o \in Ops
  PROVE  /\ Pair(o) \in Seq(Messages)
         /\ Append(Without(ChatOf[o], ClientOf[o]), UserMessage(ClientOf[o], "error"))
              \in Seq(Messages)
<1>1. ChatOf[o] \in Chats /\ ClientOf[o] \in Clients
  BY ChatsAssumption, ConversationAssumption
<1>2. messages[ChatOf[o]] \in Seq(Messages)
  BY <1>1 DEF TypeOK, ChatsTypeOK
<1>3. Without(ChatOf[o], ClientOf[o]) \in Seq(Messages)
  BY <1>2, WithoutEmbeds
<1>4. <<UserMessage(ClientOf[o], "success"), Reply>> \in Seq(Messages)
  BY <1>1, MessageTypes
<1> QED
  BY <1>1, <1>2, <1>3, <1>4, MessageTypes DEF Pair

LEMMA StepKeepsTypes == TypeOK /\ [Next]_vars => TypeOK'
<1> SUFFICES ASSUME TypeOK, [Next]_vars PROVE TypeOK'
  OBVIOUS
<1> DEFINE CallTypes ==
      /\ pc \in [Ops -> Phases]
      /\ refused \subseteq Ops
      /\ read \in [Ops -> [global : SUBSET Ops, project : SUBSET Ops]]
      /\ revoked \subseteq Ops /\ results \subseteq Ops
<1>0. MgrTypeOK /\ ChatsTypeOK /\ CallTypes
  BY DEF TypeOK
<1> SUFFICES MgrTypeOK' /\ ChatsTypeOK' /\ CallTypes'
  BY DEF TypeOK
<1>s. Candidate \in [Sessions -> Ops \cup {NoLease}]
  BY <1>0, CandidateType
<1>u. UNCHANGED mgrVars => MgrTypeOK'
  BY <1>0 DEF MgrTypeOK, mgrVars
<1>v. UNCHANGED chatVars => ChatsTypeOK'
  BY <1>0 DEF ChatsTypeOK, chatVars
<1>c. UNCHANGED callVars => CallTypes'
  BY <1>0 DEF callVars
<1>1. ASSUME NEW o \in Ops, Check(o) PROVE MgrTypeOK' /\ ChatsTypeOK' /\ CallTypes'
  BY <1>0, <1>1, <1>u, <1>v DEF Check, Step, Phases
<1>2. ASSUME NEW o \in Ops, CheckFails(o) PROVE MgrTypeOK' /\ ChatsTypeOK' /\ CallTypes'
  BY <1>0, <1>2, <1>u, <1>v DEF CheckFails, Step, Phases
<1>3. ASSUME NEW o \in Ops, Claim(o) PROVE MgrTypeOK' /\ ChatsTypeOK' /\ CallTypes'
  <2>1. MgrTypeOK'
    BY <1>0, <1>3, <1>s, PublishKeepsTypes DEF Claim
  <2>2. memory[SessionOf[o]] \subseteq Ops /\ memory[ProjectOf[ChatOf[o]]] \subseteq Ops
    BY <1>0, SessionOfType, ChatsAssumption DEF ChatsTypeOK
  <2> QED
    BY <1>0, <1>3, <1>v, <2>1, <2>2 DEF Claim, Step, Phases
<1>4. ASSUME NEW o \in Ops, ClaimRefused(o) PROVE MgrTypeOK' /\ ChatsTypeOK' /\ CallTypes'
  BY <1>0, <1>4, <1>u, <1>v DEF ClaimRefused, Step, Phases
<1>5. ASSUME NEW o \in Ops, Attach(o) PROVE MgrTypeOK' /\ ChatsTypeOK' /\ CallTypes'
  BY <1>0, <1>5, <1>v, AttachKeepsTypes DEF Attach, Step, Phases
<1>6. ASSUME NEW o \in Ops, Answer(o) PROVE MgrTypeOK' /\ ChatsTypeOK' /\ CallTypes'
  BY <1>0, <1>6, <1>u, <1>v DEF Answer, Step, Phases
<1>7. ASSUME NEW o \in Ops, Release(o)
      PROVE  /\ MgrTypeOK' /\ results' \subseteq Ops
             /\ UNCHANGED <<projects, chats, worker, refused, read, revoked>>
  BY <1>0, <1>7, <1>s, PublishKeepsTypes DEF Release
<1>8. ASSUME NEW o \in Ops, CommitAnswer(o) PROVE MgrTypeOK' /\ ChatsTypeOK' /\ CallTypes'
  <2>1. messages' \in [Chats -> Seq(Messages)]
    BY <1>0, <1>8, StoredTypes DEF CommitAnswer, Stored, ChatsTypeOK, TypeOK
  <2>2. memory' \in [Sessions \cup Projects -> SUBSET Ops]
    <3>1. read[o].global \cup {o} \subseteq Ops /\ read[o].project \cup {o} \subseteq Ops
      BY <1>0
    <3>2. Extracted(o) \in [Sessions \cup Projects -> SUBSET Ops]
      BY <1>0, <3>1 DEF Extracted, ChatsTypeOK
    <3> QED
      BY <1>0, <1>8, <3>2 DEF CommitAnswer, ChatsTypeOK
  <2>3. title' \in [Chats -> TitleStatuses]
    BY <1>0, <1>8 DEF CommitAnswer, TitleClaimed, ChatsTypeOK, TitleStatuses
  <2>4. pc' \in [Ops -> Phases]
    BY <1>0, <1>8 DEF CommitAnswer, Phases
  <2> QED
    BY <1>0, <1>7, <1>8, <2>1, <2>2, <2>3, <2>4 DEF CommitAnswer, ChatsTypeOK
<1>9. ASSUME NEW o \in Ops, CommitFailure(o) PROVE MgrTypeOK' /\ ChatsTypeOK' /\ CallTypes'
  <2>1. messages' \in [Chats -> Seq(Messages)]
    BY <1>0, <1>9, StoredTypes DEF CommitFailure, Stored, ChatsTypeOK, TypeOK
  <2> QED
    BY <1>0, <1>7, <1>9, <2>1 DEF CommitFailure, ChatsTypeOK, Step, Phases
<1>10. ASSUME NEW o \in Ops, CommitNothing(o) PROVE MgrTypeOK' /\ ChatsTypeOK' /\ CallTypes'
  BY <1>0, <1>7, <1>10 DEF CommitNothing, ChatsTypeOK, Step, Phases
<1>11. ASSUME NEW o \in Ops, CommitRefused(o) PROVE MgrTypeOK' /\ ChatsTypeOK' /\ CallTypes'
  BY <1>0, <1>11, <1>u, <1>v DEF CommitRefused, Step, Phases
<1>12. ASSUME NEW o \in Ops, StartTitle(o) PROVE MgrTypeOK' /\ ChatsTypeOK' /\ CallTypes'
  BY <1>0, <1>12, StartWorkerKeepsTypes DEF StartTitle, Step, Phases
<1>13. ASSUME NEW o \in Ops, Detach(o) PROVE MgrTypeOK' /\ ChatsTypeOK' /\ CallTypes'
  BY <1>0, <1>13, <1>v, DetachKeepsTypes DEF Detach, Step, Phases, Unread
<1>14. ASSUME NEW gone
       PROVE  Losing(gone) \ {NoLease} \subseteq Ops
  BY <1>s DEF Losing
<1>15. ASSUME NEW c \in Chats, DeleteChat(c) PROVE MgrTypeOK' /\ ChatsTypeOK' /\ CallTypes'
  BY <1>0, <1>14, <1>15, DeletedChatKeepsTypes DEF DeleteChat
<1>16. ASSUME NEW p \in Projects, DeleteProject(p) PROVE MgrTypeOK' /\ ChatsTypeOK' /\ CallTypes'
  BY <1>0, <1>14, <1>16, DeletedProjectKeepsTypes DEF DeleteProject
<1>17. ASSUME NEW k, ClearGlobal(k) \/ ClearProject(k) PROVE MgrTypeOK' /\ ChatsTypeOK' /\ CallTypes'
  BY <1>0, <1>17, <1>c, ClearedKeepsTypes DEF ClearGlobal, ClearProject
<1>18. ASSUME NEW c \in Chats, TitleWork(c) PROVE MgrTypeOK' /\ ChatsTypeOK' /\ CallTypes'
  BY <1>0, <1>18, <1>c, TitleAnsweredKeepsTypes, TitleSavedKeepsTypes DEF TitleWork
<1>19. ASSUME Mutate PROVE MgrTypeOK' /\ ChatsTypeOK' /\ CallTypes'
  BY <1>0, <1>19, <1>s, <1>v, <1>c, PublishKeepsTypes DEF Mutate
<1>20. ASSUME Close PROVE MgrTypeOK' /\ ChatsTypeOK' /\ CallTypes'
  BY <1>0, <1>20, <1>c, CloseStoreKeepsTypes DEF Close
<1>21. ASSUME Restart PROVE MgrTypeOK' /\ ChatsTypeOK' /\ CallTypes'
  BY <1>0, <1>21, ReopenKeepsAllTypes DEF Restart, Phases, Unread
<1>22. ASSUME UNCHANGED vars PROVE MgrTypeOK' /\ ChatsTypeOK' /\ CallTypes'
  BY <1>22, <1>u, <1>v, <1>c DEF vars
<1> HIDE DEF CallTypes
<1>23. ASSUME NEW o \in Ops, Work(o) PROVE MgrTypeOK' /\ ChatsTypeOK' /\ CallTypes'
  BY <1>5, <1>6, <1>8, <1>9, <1>10, <1>11, <1>12, <1>13, <1>23 DEF Work
<1> QED
  BY <1>1, <1>2, <1>3, <1>4, <1>15, <1>16, <1>17, <1>18, <1>19, <1>20, <1>21, <1>22, <1>23
     DEF Next

(***************************************************************************)
(* The variables keep their types.                                         *)
(***************************************************************************)
THEOREM TypeCorrect == Spec => []TypeOK
<1>1. Init => TypeOK
  BY InitTypes DEF Init, TypeOK, Phases, Unread
<1> QED
  BY <1>1, StepKeepsTypes, PTL DEF Spec

-----------------------------------------------------------------------------
(***************************************************************************)
(* The lease protocol.  Every step of a use case is the step of the        *)
(* protocol that ProtocolPhase makes of it, or leaves the protocol alone;  *)
(* what the protocol shows of the leases is then true here.                *)
(***************************************************************************)
LEMMA SameManager ==
  /\ Leases!MgrInit = MgrInit
  /\ Leases!Candidate = Candidate
  /\ \A leases : Leases!Publish(leases) = Publish(leases)
  /\ \A s, o : Leases!AttachLease(s, o) = AttachLease(s, o)
  /\ \A o : Leases!DetachLease(o) = DetachLease(o)
  /\ Leases!CloseManager = CloseManager
  /\ Leases!ReopenManager = ReopenManager
  /\ Leases!mgrVars = mgrVars
  BY DEF MgrInit, Leases!MgrInit, Candidate, Leases!Candidate, Publish, Leases!Publish,
         AttachLease, Leases!AttachLease, DetachLease, Leases!DetachLease, CloseManager,
         Leases!CloseManager, ReopenManager, Leases!ReopenManager, mgrVars, Leases!mgrVars,
         Live, Leases!Live, Owns, Leases!Owns

\* The session of the chats that one deletion takes away.
LEMMA ChatHasOneSession ==
  /\ \A c \in Chats, o \in Ops : ChatOf[o] = c => SessionOf[o] = OwnerOf[ProjectOf[c]]
  /\ \A c \in Chats : OwnerOf[ProjectOf[c]] \in Sessions
  /\ \A p \in Projects, o \in Ops : ProjectOf[ChatOf[o]] = p => SessionOf[o] = OwnerOf[p]
  /\ \A p \in Projects : OwnerOf[p] \in Sessions
  BY SessionOfDef, ChatsAssumption

LEMMA LosingIsOneCall ==
  ASSUME TypeOK, LeasesAreOwn, NEW s0 \in Sessions, NEW gone,
         \A o \in Ops : ChatOf[o] \in gone => SessionOf[o] = s0
  PROVE  Losing(gone) \ {NoLease} = IF Hits(gone, s0) THEN {Candidate[s0]} ELSE {}
<1>1. MgrTypeOK
  BY DEF TypeOK
<1>2. \A s \in Sessions : Candidate[s] # NoLease => Candidate[s] \in Ops /\ SessionOf[Candidate[s]] = s
  BY <1>1 DEF MgrTypeOK, LeasesAreOwn, Candidate
<1>3. \A s \in Sessions : Hits(gone, s) => s = s0
  BY <1>1, ReleasedIsOneLease
<1>4. \A s \in Sessions : Released(gone)[s] = IF Hits(gone, s) THEN NoLease ELSE Candidate[s]
  BY DEF Released, Hits
<1>5. ASSUME Hits(gone, s0)
      PROVE  Candidate[s0] \notin {Released(gone)[s] : s \in Sessions}
  BY <1>2, <1>4, <1>5 DEF Hits
<1> QED
  BY <1>2, <1>3, <1>4, <1>5 DEF Losing, Hits

\* A deletion revokes the lease of the session, or is a mutation like any other.
LEMMA RemovalFollowsLeases ==
  ASSUME TypeOK, Leases!IInv, NEW s0 \in Sessions, NEW gone,
         \A o \in Ops : ChatOf[o] \in gone => SessionOf[o] = s0,
         Publish(Released(gone)), revoked' = revoked \cup (Losing(gone) \ {NoLease}),
         UNCHANGED <<pc, results>>
  PROVE  Leases!Revoke(s0) \/ Leases!Mutate
<1>1. MgrTypeOK /\ LeasesAreOwn
  BY DEF TypeOK, Leases!IInv, Leases!LeaseIsWorkedOrReclaimable, LeasesAreOwn
<1>2. UNCHANGED [o \in Ops |-> ProtocolPhase(o)]
  BY DEF ProtocolPhase
<1>3. CASE Hits(gone, s0)
  <2>1. Released(gone) = [Candidate EXCEPT ![s0] = NoLease]
    BY <1>1, <1>3, ReleasedIsOneLease
  <2>2. Losing(gone) \ {NoLease} = {Candidate[s0]}
    BY <1>1, <1>3, LosingIsOneCall
  <2> QED
    BY <1>2, <1>3, <2>1, <2>2, SameManager DEF Leases!Revoke, Hits
<1>4. CASE ~Hits(gone, s0)
  <2>1. Released(gone) = Candidate
    BY <1>1, <1>4, ReleasedIsOneLease
  <2>2. Losing(gone) \ {NoLease} = {}
    BY <1>1, <1>4, LosingIsOneCall
  <2> QED
    BY <1>2, <2>1, <2>2, SameManager DEF Leases!Mutate
<1> QED
  BY <1>3, <1>4

LEMMA StepFollowsLeases ==
  ASSUME TypeOK, TypeOK', Leases!IInv, [Next]_vars
  PROVE  [Leases!Next]_(Leases!vars)
<1> DEFINE phase == [o \in Ops |-> ProtocolPhase(o)]
           Follows == Leases!Next \/ UNCHANGED Leases!vars
<1> USE DEF TypeOK
<1>p. ASSUME NEW o \in Ops, NEW from, NEW to, Step(o, from, to)
      PROVE  /\ ProtocolPhase(o) = IF from = "checked" THEN "idle" ELSE IF from = "titling" THEN "returning" ELSE from
             /\ ProtocolPhase(o)' = IF to = "checked" THEN "idle" ELSE IF to = "titling" THEN "returning" ELSE to
             /\ phase' = [phase EXCEPT ![o] = ProtocolPhase(o)']
  BY <1>p DEF Step, ProtocolPhase
<1>u. UNCHANGED callVars => UNCHANGED <<phase, revoked, results>>
  BY DEF callVars, ProtocolPhase
<1>m. UNCHANGED mgrVars => UNCHANGED Leases!mgrVars
  BY DEF mgrVars, Leases!mgrVars
<1>v. UNCHANGED <<mgrVars, phase, revoked, results>> => UNCHANGED Leases!vars
  BY DEF Leases!vars, mgrVars, Leases!mgrVars
<1> USE DEF Leases!Step
<1>1. ASSUME NEW o \in Ops, Check(o) PROVE UNCHANGED Leases!vars
  <2>1. UNCHANGED phase
    BY <1>1, <1>p DEF Check
  <2> QED
    BY <1>1, <1>v, <2>1 DEF Check
<1>2. ASSUME NEW o \in Ops, CheckFails(o) PROVE Leases!ClaimRefused(o)
  BY <1>2, <1>p, <1>m DEF CheckFails, Leases!ClaimRefused
<1>3. ASSUME NEW o \in Ops, Claim(o) PROVE Leases!Claim(o)
  BY <1>3, <1>p, SameManager DEF Claim, Leases!Claim
<1>4. ASSUME NEW o \in Ops, ClaimRefused(o) PROVE Leases!ClaimRefused(o)
  BY <1>4, <1>p, <1>m DEF ClaimRefused, Leases!ClaimRefused
<1>5. ASSUME NEW o \in Ops, Attach(o) PROVE Leases!Attach(o)
  BY <1>5, <1>p, SameManager DEF Attach, Leases!Attach
<1>6. ASSUME NEW o \in Ops, Answer(o) PROVE Leases!Answer(o)
  BY <1>6, <1>p, <1>m DEF Answer, Leases!Answer
<1>7. ASSUME NEW o \in Ops, Release(o),
             Step(o, "answered", "returning") \/ Step(o, "answered", "titling")
      PROVE  Leases!Commit(o)
  BY <1>7, <1>p, SameManager DEF Release, Leases!Commit
<1>8. ASSUME NEW o \in Ops, CommitAnswer(o) PROVE Leases!Commit(o)
  BY <1>7, <1>8 DEF CommitAnswer, Step
<1>9. ASSUME NEW o \in Ops, CommitFailure(o) \/ CommitNothing(o) PROVE Leases!Commit(o)
  BY <1>7, <1>9 DEF CommitFailure, CommitNothing
<1>10. ASSUME NEW o \in Ops, CommitRefused(o) PROVE Leases!CommitRefused(o)
  BY <1>10, <1>p, <1>m DEF CommitRefused, Leases!CommitRefused
<1>11. ASSUME NEW o \in Ops, StartTitle(o) PROVE UNCHANGED Leases!vars
  <2>1. UNCHANGED phase
    BY <1>11, <1>p DEF StartTitle
  <2> QED
    BY <1>11, <1>v, <2>1 DEF StartTitle, StartWorker
<1>12. ASSUME NEW o \in Ops, Detach(o) PROVE Leases!Detach(o)
  BY <1>12, <1>p, SameManager DEF Detach, Leases!Detach
<1>13. ASSUME NEW c \in Chats, DeleteChat(c)
       PROVE  \E s \in Sessions : Leases!Revoke(s) \/ Leases!Mutate
  <2> DEFINE s == OwnerOf[ProjectOf[c]]
  <2>1. s \in Sessions /\ \A o \in Ops : ChatOf[o] \in {c} => SessionOf[o] = s
    BY ChatHasOneSession
  <2>2. /\ Publish(Released({c})) /\ revoked' = revoked \cup (Losing({c}) \ {NoLease})
        /\ UNCHANGED <<pc, results>>
    BY <1>13 DEF DeleteChat, DeletedChat, RemoveChats
  <2> QED
    BY <2>1, <2>2, RemovalFollowsLeases
<1>14. ASSUME NEW p \in Projects, DeleteProject(p)
       PROVE  \E s \in Sessions : Leases!Revoke(s) \/ Leases!Mutate
  <2> DEFINE gone == {c \in chats : ProjectOf[c] = p}
  <2>1. OwnerOf[p] \in Sessions /\ \A o \in Ops : ChatOf[o] \in gone => SessionOf[o] = OwnerOf[p]
    BY ChatHasOneSession
  <2>2. /\ Publish(Released(gone)) /\ revoked' = revoked \cup (Losing(gone) \ {NoLease})
        /\ UNCHANGED <<pc, results>>
    BY <1>14 DEF DeleteProject, DeletedProject, RemoveChats
  <2> QED
    BY <2>1, <2>2, RemovalFollowsLeases
<1>15. ASSUME NEW k, ClearGlobal(k) \/ ClearProject(k) PROVE Leases!Mutate
  BY <1>15, <1>u, SameManager DEF ClearGlobal, ClearProject, ClearedGlobal, ClearedProject, Leases!Mutate
<1>16. ASSUME NEW c \in Chats, TitleWork(c) PROVE Leases!Mutate \/ UNCHANGED Leases!vars
  BY <1>16, <1>u, <1>v, SameManager
     DEF TitleWork, TitleSaved, TitleAnswered, TitleNotSaved, Leases!Mutate
<1>17. ASSUME Mutate PROVE Leases!Mutate
  BY <1>17, <1>u, SameManager DEF Mutate, Leases!Mutate
<1>18. ASSUME Close PROVE Leases!Close
  BY <1>18, <1>u, SameManager DEF Close, CloseStore, Leases!Close
<1>19. ASSUME Restart PROVE Leases!Restart
  BY <1>19, SameManager DEF Restart, Reopen, Leases!Restart, ProtocolPhase
<1>20. ASSUME UNCHANGED vars PROVE UNCHANGED Leases!vars
  BY <1>20, <1>u, <1>v DEF vars
<1> HIDE DEF TypeOK
<1>21. ASSUME NEW o \in Ops, Work(o) PROVE Leases!Work(o) \/ UNCHANGED Leases!vars
  BY <1>5, <1>6, <1>8, <1>9, <1>10, <1>11, <1>12, <1>21 DEF Work, Leases!Work
<1> QED
  BY <1>1, <1>2, <1>3, <1>4, <1>13, <1>14, <1>15, <1>16, <1>17, <1>18, <1>19, <1>20, <1>21
     DEF Next, Leases!Next

LEMMA InitFollowsLeases == Init => Leases!Init
  BY DEF Init, Leases!Init, MgrInit, Leases!MgrInit, ProtocolPhase

(***************************************************************************)
(* What one step keeps: the types, and everything the lease protocol knows *)
(* of its calls.                                                           *)
(***************************************************************************)
LEMMA StepKeepsLeases == TypeOK /\ Leases!IInv /\ [Next]_vars => TypeOK' /\ Leases!IInv'
<1> SUFFICES ASSUME TypeOK, Leases!IInv, [Next]_vars PROVE TypeOK' /\ Leases!IInv'
  OBVIOUS
<1>1. TypeOK'
  BY StepKeepsTypes
<1>2. [Leases!Next]_(Leases!vars)
  BY <1>1, StepFollowsLeases
<1> QED
  BY <1>1, <1>2, LeasesAssumption, Leases!StepKeepsSafety

(***************************************************************************)
(* The invariant of the lease protocol holds of the calls of Send, Retry   *)
(* and their refusals: no session stays busy for good, no lease is taken   *)
(* from a call that could still commit, a call that has lost its lease has *)
(* been cancelled and publishes nothing.                                   *)
(***************************************************************************)
THEOREM LeasesAreSafe == Spec => []Leases!IInv
<1>1. Init => Leases!IInv
  BY InitFollowsLeases, LeasesAssumption, Leases!InitIsSafe
<1>2. Spec => [](TypeOK /\ Leases!IInv)
  BY <1>1, TypeCorrect, StepKeepsLeases, PTL DEF Spec
<1> QED
  BY <1>2, PTL

\* Conversation and this module instantiate the same protocol.
LEMMA SameProtocol ==
  /\ Leases!Init => Protocol!Init
  /\ Leases!Next => Protocol!Next
  /\ UNCHANGED Leases!vars => UNCHANGED Protocol!vars
<1>1. Leases!Init => Protocol!Init
  BY DEF Leases!Init, Protocol!Init, Leases!MgrInit, Protocol!MgrInit
<1>2. ASSUME NEW o \in Ops, Leases!Claim(o) PROVE Protocol!Claim(o)
  BY <1>2
     DEF Leases!Claim, Protocol!Claim, Leases!Step, Protocol!Step, Leases!Publish,
         Protocol!Publish, Leases!Candidate, Protocol!Candidate, Leases!Live,
         Protocol!Live
<1>3. ASSUME NEW o \in Ops, Leases!ClaimRefused(o) PROVE Protocol!ClaimRefused(o)
  BY <1>3
     DEF Leases!ClaimRefused, Protocol!ClaimRefused, Leases!Step, Protocol!Step,
         Leases!mgrVars, Protocol!mgrVars
<1>4. ASSUME NEW o \in Ops, Leases!Attach(o) PROVE Protocol!Attach(o)
  BY <1>4
     DEF Leases!Attach, Protocol!Attach, Leases!Step, Protocol!Step, Leases!AttachLease,
         Protocol!AttachLease, Leases!Owns, Protocol!Owns
<1>5. ASSUME NEW o \in Ops, Leases!Answer(o) PROVE Protocol!Answer(o)
  BY <1>5
     DEF Leases!Answer, Protocol!Answer, Leases!Step, Protocol!Step, Leases!mgrVars,
         Protocol!mgrVars
<1>6. ASSUME NEW o \in Ops, Leases!Commit(o) PROVE Protocol!Commit(o)
  BY <1>6
     DEF Leases!Commit, Protocol!Commit, Leases!Step, Protocol!Step, Leases!Publish,
         Protocol!Publish, Leases!Candidate, Protocol!Candidate, Leases!Live,
         Protocol!Live
<1>7. ASSUME NEW o \in Ops, Leases!CommitRefused(o) PROVE Protocol!CommitRefused(o)
  BY <1>7
     DEF Leases!CommitRefused, Protocol!CommitRefused, Leases!Step, Protocol!Step,
         Leases!mgrVars, Protocol!mgrVars
<1>8. ASSUME NEW o \in Ops, Leases!Detach(o) PROVE Protocol!Detach(o)
  BY <1>8
     DEF Leases!Detach, Protocol!Detach, Leases!Step, Protocol!Step, Leases!DetachLease,
         Protocol!DetachLease, Leases!Live, Protocol!Live
<1>9. ASSUME NEW s \in Sessions, Leases!Revoke(s) PROVE Protocol!Revoke(s)
  BY <1>9
     DEF Leases!Revoke, Protocol!Revoke, Leases!Publish, Protocol!Publish,
         Leases!Candidate, Protocol!Candidate, Leases!Live, Protocol!Live
<1>10. Leases!Mutate => Protocol!Mutate
  BY DEF Leases!Mutate, Protocol!Mutate, Leases!Publish, Protocol!Publish,
         Leases!Candidate, Protocol!Candidate, Leases!Live, Protocol!Live
<1>11. Leases!Close => Protocol!Close
  BY DEF Leases!Close, Protocol!Close, Leases!CloseManager, Protocol!CloseManager
<1>12. Leases!Restart => Protocol!Restart
  BY DEF Leases!Restart, Protocol!Restart, Leases!ReopenManager, Protocol!ReopenManager
<1>13. Leases!Next => Protocol!Next
  BY <1>2, <1>3, <1>4, <1>5, <1>6, <1>7, <1>8, <1>9, <1>10, <1>11, <1>12
     DEF Leases!Next, Protocol!Next, Leases!Work, Protocol!Work
<1>14. UNCHANGED Leases!vars => UNCHANGED Protocol!vars
  BY DEF Leases!vars, Protocol!vars, Leases!mgrVars, Protocol!mgrVars
<1> QED
  BY <1>1, <1>13, <1>14

(***************************************************************************)
(* Every step of Conversation is a step of the lease protocol or leaves it *)
(* alone: the safety half of ImplementsLease.                              *)
(***************************************************************************)
THEOREM FollowsLease == Spec => Protocol!Init /\ [][Protocol!Next]_(Protocol!vars)
<1>1. Init => Protocol!Init
  BY InitFollowsLeases, SameProtocol
<1>2. TypeOK /\ TypeOK' /\ Leases!IInv /\ [Next]_vars => [Protocol!Next]_(Protocol!vars)
  BY StepFollowsLeases, SameProtocol
<1> QED
  BY <1>1, <1>2, TypeCorrect, LeasesAreSafe, PTL DEF Spec

\* The calls as Turns sees them take a step of Turns, or none.
TakesTurns == [Leases!Abstract!TurnNext]_[o \in Ops |-> Leases!TurnOf(o)]

\* Send, Retry and their refusals keep the promise of Turns: at most one of
\* the calls of a session is open at a time, and an open call is published once,
\* as a whole, or dropped for good.
THEOREM ImplementsTurns == Spec => Leases!Abstract!SafeTurns
<1>1. TypeOK /\ TypeOK' /\ Leases!IInv /\ [Next]_vars => TakesTurns
  <2>1. TypeOK /\ TypeOK' /\ Leases!IInv /\ [Next]_vars => [Leases!Next]_(Leases!vars)
    BY StepFollowsLeases
  <2> QED
    BY <2>1, LeasesAssumption, Leases!StepTakesTurns DEF TakesTurns
<1>2. Init => Leases!Abstract!TurnInit
  BY InitFollowsLeases, LeasesAssumption, Leases!InitTurns
<1> QED
  BY <1>1, <1>2, TypeCorrect, LeasesAreSafe, PTL DEF Spec, TakesTurns, Leases!Abstract!SafeTurns

-----------------------------------------------------------------------------
(***************************************************************************)
(* What a call that is at work under its lease may rely on.  The lease     *)
(* keeps every other mutation of its chat and of the two layers it has     *)
(* read away; a deletion takes the lease with the chat.                    *)
(***************************************************************************)
Owning(o) == Owns(SessionOf[o], o) /\ pc[o] \in {"claimed", "calling", "answered"}

OwnerHasChat == \A o \in Ops : Owning(o) => ChatOf[o] \in chats

\* The memory it has read is the memory there is.
ReadIsCurrent ==
  \A o \in Ops : Owning(o) =>
    /\ read[o].global = memory[SessionOf[o]]
    /\ read[o].project = memory[ProjectOf[ChatOf[o]]]

\* Its input is not in the transcript, unless it retries a failed message.
InputIsOpen ==
  \A o \in Ops : Owning(o) =>
    \A m \in Sent(ChatOf[o], ClientOf[o]) :
      m.status = "error" /\ KindOf[o] = "retry" /\ o \notin refused

\* What a step leaves to a call that keeps its lease over it.
Undisturbed(o) ==
  /\ Owning(o)
  /\ ChatOf[o] \in chats => ChatOf[o] \in chats'
  /\ memory'[SessionOf[o]] = memory[SessionOf[o]]
  /\ memory'[ProjectOf[ChatOf[o]]] = memory[ProjectOf[ChatOf[o]]]
  /\ messages'[ChatOf[o]] = messages[ChatOf[o]]
  /\ read'[o] = read[o] /\ (o \in refused' <=> o \in refused)

\* The key fact of this module: a step after which a call is at work under its
\* lease is its claim, or a step that touched nothing it relies on.
LEMMA OwnerIsUndisturbed ==
  ASSUME TypeOK, OwnerHasChat, [Next]_vars, NEW o \in Ops, Owning(o)'
  PROVE  Claim(o) \/ Undisturbed(o)
<1>1. /\ SessionOf[o] \in Sessions /\ ChatOf[o] \in Chats /\ ProjectOf[ChatOf[o]] \in Projects
      /\ SessionOf[o] \notin Projects /\ ProjectOf[ChatOf[o]] \notin Sessions
      /\ o # NoLease /\ SessionOf[o] = OwnerOf[ProjectOf[ChatOf[o]]]
  BY SessionOfType, SessionOfDef, ChatsAssumption
<1>2. Candidate[SessionOf[o]] = o => pending[SessionOf[o]] = o
  BY <1>1 DEF Candidate
<1>3. Candidate \in [Sessions -> Ops \cup {NoLease}]
  BY CandidateType DEF TypeOK
<1> USE DEF Undisturbed, Owning, Owns, TypeOK
<1>4. ASSUME NEW q \in Ops, Check(q) \/ CheckFails(q) \/ ClaimRefused(q) PROVE Undisturbed(o)
  <2>1. pc[o] = pc'[o] /\ UNCHANGED <<mgrVars, chatVars, read>> /\ (o \in refused' <=> o \in refused)
    BY <1>4 DEF Check, CheckFails, ClaimRefused, Step
  <2> QED
    BY <2>1 DEF mgrVars, chatVars
<1>5. ASSUME NEW q \in Ops \ {o}, Claim(q) PROVE Undisturbed(o)
  BY <1>1, <1>2, <1>3, <1>5 DEF Claim, Step, Publish, chatVars
<1>6. ASSUME NEW q \in Ops, Attach(q) \/ Answer(q) \/ CommitRefused(q) PROVE Undisturbed(o)
  BY <1>6 DEF Attach, AttachLease, Answer, CommitRefused, Step, mgrVars, chatVars
<1>7. ASSUME NEW q \in Ops, StartTitle(q) \/ Detach(q) PROVE Undisturbed(o)
  BY <1>7 DEF StartTitle, StartWorker, Detach, DetachLease, Step, mgrVars, chatVars
<1>8. ASSUME NEW q \in Ops, Release(q), pc' \in {[pc EXCEPT ![q] = "returning"], [pc EXCEPT ![q] = "titling"]}
      PROVE  /\ Owning(o) /\ UNCHANGED <<chats, read, refused>>
             /\ SessionOf[q] # SessionOf[o] /\ ChatOf[q] # ChatOf[o]
             /\ ProjectOf[ChatOf[q]] # ProjectOf[ChatOf[o]]
             /\ SessionOf[q] \in Sessions /\ ProjectOf[ChatOf[q]] \in Projects
  <2>1. q # o /\ pc[o] = pc'[o]
    BY <1>8
  <2>2. SessionOf[q] # SessionOf[o] /\ Candidate[SessionOf[o]] = o
    BY <1>1, <1>3, <1>8 DEF Release, Publish
  <2>3. SessionOf[q] = OwnerOf[ProjectOf[ChatOf[q]]]
    BY SessionOfDef
  <2>4. SessionOf[q] \in Sessions /\ ProjectOf[ChatOf[q]] \in Projects
    BY SessionOfType, ChatsAssumption
  <2> QED
    BY <1>1, <1>2, <1>8, <2>1, <2>2, <2>3, <2>4 DEF Release
<1>9. ASSUME NEW q \in Ops, CommitAnswer(q) PROVE Undisturbed(o)
  <2>1. pc' \in {[pc EXCEPT ![q] = "returning"], [pc EXCEPT ![q] = "titling"]}
    BY <1>9 DEF CommitAnswer
  <2>2. Release(q)
    BY <1>9 DEF CommitAnswer
  <2>3. messages'[ChatOf[o]] = messages[ChatOf[o]]
    BY <1>1, <1>8, <1>9, <2>1, <2>2 DEF CommitAnswer, Stored, ChatsTypeOK
  <2>4. /\ memory'[SessionOf[o]] = memory[SessionOf[o]]
        /\ memory'[ProjectOf[ChatOf[o]]] = memory[ProjectOf[ChatOf[o]]]
    BY <1>1, <1>8, <1>9, <2>1, <2>2 DEF CommitAnswer, Extracted, ChatsTypeOK
  <2> QED
    BY <1>8, <2>1, <2>2, <2>3, <2>4
<1>10. ASSUME NEW q \in Ops, CommitFailure(q) \/ CommitNothing(q) PROVE Undisturbed(o)
  <2>1. Release(q) /\ UNCHANGED memory /\ pc' = [pc EXCEPT ![q] = "returning"]
    BY <1>10 DEF CommitFailure, CommitNothing, Step
  <2>2. messages'[ChatOf[o]] = messages[ChatOf[o]]
    BY <1>1, <1>8, <1>10, <2>1 DEF CommitFailure, CommitNothing, Stored, ChatsTypeOK
  <2> QED
    BY <1>8, <2>1, <2>2
<1>11. ASSUME NEW gone, RemoveChats(gone), UNCHANGED <<pc, refused, read>>
       PROVE  /\ Owning(o) /\ ChatOf[o] \notin gone
              /\ messages'[ChatOf[o]] = messages[ChatOf[o]] /\ chats' = chats \ gone
  BY <1>1, <1>2, <1>11 DEF RemoveChats, Publish, Released
<1>12. ASSUME NEW c \in Chats, DeleteChat(c) PROVE Undisturbed(o)
  BY <1>11, <1>12 DEF DeleteChat, DeletedChat
<1>13. ASSUME NEW p \in Projects, DeleteProject(p) PROVE Undisturbed(o)
  <2>1. Owning(o) /\ ChatOf[o] \in chats
    BY <1>11, <1>13 DEF DeleteProject, DeletedProject, OwnerHasChat
  <2>2. ProjectOf[ChatOf[o]] # p
    BY <1>11, <1>13, <2>1 DEF DeleteProject, DeletedProject
  <2>3. /\ memory'[SessionOf[o]] = memory[SessionOf[o]]
        /\ memory'[ProjectOf[ChatOf[o]]] = memory[ProjectOf[ChatOf[o]]]
    BY <1>1, <1>13, <2>2 DEF DeleteProject, DeletedProject, ChatsTypeOK
  <2> QED
    BY <1>11, <1>13, <2>3 DEF DeleteProject, DeletedProject
<1>14. ASSUME NEW s \in Sessions, ClearGlobal(s) PROVE Undisturbed(o)
  BY <1>1, <1>2, <1>14 DEF ClearGlobal, ClearedGlobal, Publish, callVars, ChatsTypeOK
<1>15. ASSUME NEW p \in Projects, ClearProject(p) PROVE Undisturbed(o)
  BY <1>1, <1>2, <1>15 DEF ClearProject, ClearedProject, Publish, callVars, ChatsTypeOK
<1>16. ASSUME NEW c \in Chats, TitleWork(c) PROVE Undisturbed(o)
  BY <1>1, <1>2, <1>16
     DEF TitleWork, TitleAnswered, TitleSaved, TitleNotSaved, Publish, callVars, mgrVars
<1>17. ASSUME Mutate PROVE Undisturbed(o)
  BY <1>1, <1>2, <1>17 DEF Mutate, Publish, callVars, chatVars
<1>18. ASSUME Close PROVE Undisturbed(o)
  BY <1>18 DEF Close, CloseStore, CloseManager, callVars
<1>19. ~Restart
  BY <1>1 DEF Restart, Reopen, ReopenManager
<1>20. ASSUME UNCHANGED vars PROVE Undisturbed(o)
  BY <1>20 DEF vars, mgrVars, chatVars, callVars
<1> HIDE DEF Undisturbed, Owning, Owns, TypeOK
<1>21. ASSUME NEW q \in Ops, Work(q) PROVE Undisturbed(o)
  BY <1>6, <1>7, <1>9, <1>10, <1>21 DEF Work
<1> QED
  BY <1>4, <1>5, <1>12, <1>13, <1>14, <1>15, <1>16, <1>17, <1>18, <1>19, <1>20, <1>21 DEF Next

OwnerInv == OwnerHasChat /\ ReadIsCurrent /\ InputIsOpen

\* The fields of a message, as the proofs tell messages apart.
LEMMA MessageFields ==
  ASSUME NEW m \in Messages
  PROVE  /\ m = Reply <=> m.role = "assistant"
         /\ m.role = "user" <=> m.client \in Clients
         /\ m.role = "user" \/ m.role = "assistant"
         /\ m \in {UserMessage(k, "success") : k \in Clients} <=> m.role = "user" /\ m.status = "success"
         /\ m.role = "user" => m.status \in {"success", "error"}
  BY ChatsAssumption DEF Messages, UserMessage, Reply

LEMMA SentMessages ==
  ASSUME TypeOK, NEW c \in Chats, NEW k
  PROVE  \A m \in Sent(c, k) : m \in Messages /\ m.client = k
<1>1. messages[c] \in Seq(Messages)
  BY DEF TypeOK, ChatsTypeOK
<1>2. \A i \in DOMAIN messages[c] : messages[c][i] \in Messages
  BY <1>1
<1> QED
  BY <1>2 DEF Sent

LEMMA StepKeepsOwner ==
  ASSUME TypeOK, OwnerInv, [Next]_vars
  PROVE  OwnerInv'
<1>1. ASSUME NEW o \in Ops, Owning(o)'
      PROVE  /\ ChatOf[o] \in chats'
             /\ read'[o].global = memory'[SessionOf[o]]
             /\ read'[o].project = memory'[ProjectOf[ChatOf[o]]]
             /\ \A m \in Sent(ChatOf[o], ClientOf[o])' :
                  m.status = "error" /\ KindOf[o] = "retry" /\ o \notin refused'
  <2>1. ChatOf[o] \in Chats /\ ClientOf[o] \in Clients /\ KindOf[o] \in {"send", "retry"}
    BY ChatsAssumption, ConversationAssumption
  <2>2. CASE Claim(o)
    <3>1. UNCHANGED <<chats, messages, memory, refused>> /\ ChatOf[o] \in chats /\ ~Replays(o)
      BY <2>2 DEF Claim, chatVars
    <3>2. read'[o] = [global |-> memory[SessionOf[o]], project |-> memory[ProjectOf[ChatOf[o]]]]
      BY <2>2 DEF Claim, TypeOK
    <3>3. \A m \in Sent(ChatOf[o], ClientOf[o]) :
            m.status # "success" /\ KindOf[o] # "send" /\ o \notin refused
      BY <3>1 DEF Replays
    <3>4. \A m \in Sent(ChatOf[o], ClientOf[o]) : m.status \in {"success", "error"}
      BY <2>1, SentMessages, MessageFields
    <3>5. Sent(ChatOf[o], ClientOf[o])' = Sent(ChatOf[o], ClientOf[o])
      BY <3>1 DEF Sent
    <3> QED
      BY <2>1, <3>1, <3>2, <3>3, <3>4, <3>5
  <2>3. CASE Undisturbed(o)
    <3>1. Sent(ChatOf[o], ClientOf[o])' = Sent(ChatOf[o], ClientOf[o])
      BY <2>3 DEF Undisturbed, Sent
    <3> QED
      BY <2>3, <3>1 DEF Undisturbed, OwnerInv, OwnerHasChat, ReadIsCurrent, InputIsOpen
  <2> QED
    BY <1>1, <2>2, <2>3, OwnerIsUndisturbed DEF OwnerInv
<1> QED
  BY <1>1 DEF OwnerInv, OwnerHasChat, ReadIsCurrent, InputIsOpen

LEMMA InitOwner == Init => OwnerInv
  BY DEF Init, OwnerInv, OwnerHasChat, ReadIsCurrent, InputIsOpen, Owning

\* The final mutation of a call is made by a call at work under its lease.
LEMMA CommitIsOwned ==
  ASSUME NEW o \in Ops, pc[o] = "answered", Release(o)
  PROVE  Owning(o)
<1>1. SessionOf[o] \in Sessions /\ o # NoLease
  BY SessionOfType, ChatsAssumption
<1> QED
  BY <1>1 DEF Owning, Owns, Release, Candidate

(***************************************************************************)
(* While a call holds its lease its chat exists, the memory it has read is *)
(* the memory that is stored, and its input is still to be answered.       *)
(***************************************************************************)
THEOREM OwnersAreSafe == Spec => []OwnerInv
  BY InitOwner, TypeCorrect, StepKeepsOwner, PTL DEF Spec

-----------------------------------------------------------------------------
(***************************************************************************)
(* The memory.                                                             *)
(***************************************************************************)
LEMMA OneMore == \A A, x : Cardinality((A \cup {x}) \ A) <= 1
<1> SUFFICES ASSUME NEW A, NEW x PROVE Cardinality((A \cup {x}) \ A) <= 1
  OBVIOUS
<1>1. (A \cup {x}) \ A = {} \/ (A \cup {x}) \ A = {x}
  OBVIOUS
<1>2. Cardinality({}) = 0 /\ Cardinality({x}) = 1
  BY FS_EmptySet, FS_Singleton
<1> QED
  BY <1>1, <1>2

LEMMA NoneMore == \A A : A \subseteq A /\ Cardinality(A \ A) <= 1
<1>1. \A A : A \ A = {}
  OBVIOUS
<1> QED
  BY <1>1, FS_EmptySet

\* One layer after a step: as it was, emptied, or extended by one answer.
Extends(old, new) == old \subseteq new /\ Cardinality(new \ old) <= 1

(***************************************************************************)
(* The answer of a call that read an older memory neither drops facts that *)
(* were stored since nor brings back facts the user has cleared, whatever  *)
(* resends, retries, deletions and clearings there are.                    *)
(***************************************************************************)
THEOREM MemoryIsKept == Spec => MemoryIsNotRolledBack
<1>1. ASSUME TypeOK, OwnerInv, [Next]_vars, NEW k \in DOMAIN memory
      PROVE  memory'[k] = {} \/ Extends(memory[k], memory'[k])
  <2>0. memory \in [Sessions \cup Projects -> SUBSET Ops] /\ k \in Sessions \cup Projects
    BY <1>1 DEF TypeOK, ChatsTypeOK
  <2>1. UNCHANGED memory => Extends(memory[k], memory'[k])
    BY NoneMore DEF Extends
  <2>2. ASSUME NEW o \in Ops, CommitAnswer(o) PROVE Extends(memory[k], memory'[k])
    <3>1. /\ read[o].global = memory[SessionOf[o]]
          /\ read[o].project = memory[ProjectOf[ChatOf[o]]]
      BY <1>1, <2>2, CommitIsOwned DEF CommitAnswer, OwnerInv, ReadIsCurrent
    <3>2. memory'[k] = memory[k] \/ memory'[k] = memory[k] \cup {o}
      BY <2>0, <2>2, <3>1 DEF CommitAnswer, Extracted
    <3> QED
      BY <3>2, OneMore, NoneMore DEF Extends
  <2>3. ASSUME NEW p \in Projects, DeleteProject(p) \/ ClearProject(p)
        PROVE  memory'[k] = {} \/ memory'[k] = memory[k]
    BY <2>0, <2>3 DEF DeleteProject, DeletedProject, ClearProject, ClearedProject
  <2>4. ASSUME NEW s \in Sessions, ClearGlobal(s)
        PROVE  memory'[k] = {} \/ memory'[k] = memory[k]
    BY <2>0, <2>4 DEF ClearGlobal, ClearedGlobal
  <2>5. ASSUME NEW o \in Ops, Check(o) \/ CheckFails(o) \/ Claim(o) \/ ClaimRefused(o)
        PROVE  UNCHANGED memory
    BY <2>5 DEF Check, CheckFails, Claim, ClaimRefused, chatVars
  <2>6. ASSUME NEW o \in Ops, Work(o), ~CommitAnswer(o) PROVE UNCHANGED memory
    BY <2>6 DEF Work, Attach, Answer, StartTitle, StartWorker, Detach, CommitFailure,
                CommitNothing, CommitRefused, chatVars
  <2>7. ASSUME NEW c \in Chats, DeleteChat(c) \/ TitleWork(c) PROVE UNCHANGED memory
    BY <2>7 DEF DeleteChat, DeletedChat, TitleWork, TitleAnswered, TitleSaved, TitleNotSaved
  <2>8. Mutate \/ Close \/ Restart \/ UNCHANGED vars => UNCHANGED memory
    BY DEF Mutate, Close, CloseStore, Restart, Reopen, vars, chatVars
  <2>9. memory'[k] = memory[k] => Extends(memory[k], memory'[k])
    BY NoneMore DEF Extends
  <2> QED
    BY <1>1, <2>1, <2>2, <2>3, <2>4, <2>5, <2>6, <2>7, <2>8, <2>9 DEF Next
<1>2. TypeOK /\ OwnerInv /\ [Next]_vars =>
        [\A k \in DOMAIN memory :
           memory'[k] = {} \/ (/\ memory[k] \subseteq memory'[k]
                               /\ Cardinality(memory'[k] \ memory[k]) <= 1)]_vars
  BY <1>1 DEF Extends
<1> QED
  BY <1>2, TypeCorrect, OwnersAreSafe, PTL DEF Spec, MemoryIsNotRolledBack

-----------------------------------------------------------------------------
(***************************************************************************)
(* The titles.                                                             *)
(***************************************************************************)
LEMMA StepKeepsTitles ==
  ASSUME TypeOK, UnwantedTitleIsCancelled, [Next]_vars
  PROVE  UnwantedTitleIsCancelled'
<1> DEFINE Wanted(c) ==
      /\ worker[c] = "running" => ~closed /\ c \in chats /\ title[c] = "pending"
      /\ c \notin chats => title[c] = "idle"
<1>0. \A c \in Chats : Wanted(c)
  BY DEF UnwantedTitleIsCancelled
<1> SUFFICES ASSUME NEW c \in Chats PROVE Wanted(c)'
  BY DEF UnwantedTitleIsCancelled
<1>t. title \in [Chats -> TitleStatuses] /\ worker \in [Chats -> WorkerPhases]
  BY DEF TypeOK, ChatsTypeOK
<1>u. UNCHANGED <<closed, chats, title, worker>> => Wanted(c)'
  BY <1>0
<1>1. ASSUME NEW o \in Ops, Check(o) \/ CheckFails(o) \/ Claim(o) \/ ClaimRefused(o)
      PROVE  Wanted(c)'
  BY <1>1, <1>u DEF Check, CheckFails, Claim, ClaimRefused, Publish, mgrVars, chatVars
<1>2. ASSUME NEW o \in Ops, Attach(o) \/ Answer(o) \/ CommitRefused(o) \/ Detach(o)
      PROVE  Wanted(c)'
  BY <1>2, <1>u
     DEF Attach, AttachLease, Answer, CommitRefused, Detach, DetachLease, mgrVars, chatVars
<1>3. ASSUME NEW o \in Ops, CommitFailure(o) \/ CommitNothing(o)
      PROVE  Wanted(c)'
  BY <1>3, <1>u DEF CommitFailure, CommitNothing, Release, Publish
<1>4. ASSUME NEW o \in Ops, CommitAnswer(o) PROVE Wanted(c)'
  <2>1. ChatOf[o] \in chats /\ UNCHANGED <<closed, chats, worker>>
    BY <1>4 DEF CommitAnswer, Release, Publish
  <2>2. title'[c] = title[c] \/ (c = ChatOf[o] /\ title[c] = "idle")
    BY <1>t, <1>4 DEF CommitAnswer, TitleClaimed
  <2> QED
    BY <1>0, <2>1, <2>2
<1>5. ASSUME NEW o \in Ops, StartTitle(o) PROVE Wanted(c)'
  BY <1>0, <1>t, <1>5 DEF StartTitle, StartWorker, Unnameable, mgrVars
<1>6. ASSUME NEW gone, RemoveChats(gone) PROVE Wanted(c)'
  BY <1>0, <1>t, <1>6 DEF RemoveChats, StopTitles, Publish
<1>7. ASSUME NEW d \in Chats, DeleteChat(d) PROVE Wanted(c)'
  BY <1>6, <1>7 DEF DeleteChat, DeletedChat
<1>8. ASSUME NEW p \in Projects, DeleteProject(p) PROVE Wanted(c)'
  BY <1>6, <1>8 DEF DeleteProject, DeletedProject
<1>9. ASSUME NEW k, ClearGlobal(k) \/ ClearProject(k) PROVE Wanted(c)'
  BY <1>9, <1>u DEF ClearGlobal, ClearedGlobal, ClearProject, ClearedProject, Publish
<1>10. ASSUME NEW d \in Chats, TitleWork(d) PROVE Wanted(c)'
  BY <1>0, <1>t, <1>10
     DEF TitleWork, TitleAnswered, TitleSaved, TitleNotSaved, Publish, mgrVars
<1>11. ASSUME Mutate PROVE Wanted(c)'
  BY <1>11, <1>u DEF Mutate, Publish, chatVars
<1>12. ASSUME Close PROVE Wanted(c)'
  BY <1>0, <1>t, <1>12 DEF Close, CloseStore
<1>13. ASSUME Restart PROVE Wanted(c)'
  BY <1>0, <1>t, <1>13 DEF Restart, Reopen
<1>14. ASSUME UNCHANGED vars PROVE Wanted(c)'
  BY <1>14, <1>u DEF vars, mgrVars, chatVars
<1> HIDE DEF Wanted
<1>15. ASSUME NEW o \in Ops, Work(o) PROVE Wanted(c)'
  BY <1>2, <1>3, <1>4, <1>5, <1>15 DEF Work
<1> QED
  BY <1>1, <1>7, <1>8, <1>9, <1>10, <1>11, <1>12, <1>13, <1>14, <1>15 DEF Next

(***************************************************************************)
(* A title worker that nobody has cancelled still has a chat to name, and  *)
(* a deleted chat gets no title from a worker that answers late.           *)
(***************************************************************************)
THEOREM TitlesAreWanted == Spec => []UnwantedTitleIsCancelled
<1>1. Init => UnwantedTitleIsCancelled
  BY DEF Init, ChatsInit, UnwantedTitleIsCancelled
<1> QED
  BY <1>1, TypeCorrect, StepKeepsTitles, PTL DEF Spec

-----------------------------------------------------------------------------
(***************************************************************************)
(* The transcripts.                                                        *)
(***************************************************************************)
Paired(log) ==
  /\ \A i, j \in DOMAIN log :
       log[i].role = "user" /\ log[i].client = log[j].client => i = j
  /\ \A i \in DOMAIN log :
       (log[i] \in {UserMessage(k, "success") : k \in Clients})
         <=> (i + 1 \in DOMAIN log /\ log[i + 1] = Reply)

Mentions(log, k) == \E i \in DOMAIN log : log[i].client = k

\* Taking out the failed message of one client parts no input from its reply.
LEMMA PairedWithout ==
  ASSUME NEW log \in Seq(Messages), NEW new \in Seq(Messages), NEW place,
         NEW k \in Clients, Embeds(place, log, new, k), Paired(log),
         \A i \in DOMAIN log : log[i].client = k => log[i].status = "error"
  PROVE  Paired(new) /\ ~Mentions(new, k)
<1> DEFINE Success == {UserMessage(l, "success") : l \in Clients}
<1>1. /\ Len(log) \in Nat /\ DOMAIN log = 1 .. Len(log)
      /\ Len(new) \in Nat /\ DOMAIN new = 1 .. Len(new)
      /\ \A i \in DOMAIN log : log[i] \in Messages
      /\ \A n \in DOMAIN new : new[n] \in Messages
  OBVIOUS
<1>2. /\ \A n \in DOMAIN new :
           place[n] \in DOMAIN log /\ new[n] = log[place[n]] /\ log[place[n]].client # k
      /\ \A i \in DOMAIN log : log[i].client # k => \E n \in DOMAIN new : place[n] = i
      /\ \A n, m \in DOMAIN new : n < m => place[n] < place[m]
  BY DEF Embeds
<1>3. \A n \in DOMAIN new : new[n].client # k
  BY <1>2
<1>4. \A n, m \in DOMAIN new : place[n] = place[m] => n = m
  BY <1>1, <1>2
<1>5. ASSUME NEW n \in DOMAIN new, NEW m \in DOMAIN new,
             new[n].role = "user", new[n].client = new[m].client
      PROVE  n = m
  BY <1>2, <1>4, <1>5 DEF Paired
<1>6. ASSUME NEW n \in DOMAIN new, NEW m \in DOMAIN new, place[m] = place[n] + 1
      PROVE  m = n + 1
  <2>1. n \in Nat /\ m \in Nat /\ place[n] \in Nat /\ place[m] \in Nat
    BY <1>1, <1>2
  <2>2. n < m
    <3>1. m < n => place[m] < place[n]
      BY <1>2
    <3> QED
      BY <1>6, <2>1, <3>1
  <2>3. ASSUME n + 1 < m PROVE FALSE
    <3>1. n + 1 \in DOMAIN new
      BY <1>1, <2>1, <2>3
    <3>2. PICK l \in DOMAIN new : l = n + 1
      BY <3>1
    <3>3. n < l /\ l < m
      BY <2>1, <2>3, <3>2
    <3>4. place[n] < place[l] /\ place[l] < place[m]
      BY <1>2, <3>3
    <3>5. place[l] \in Nat
      BY <1>1, <1>2
    <3> QED
      BY <1>6, <2>1, <3>4, <3>5
  <2> QED
    BY <2>1, <2>2, <2>3
<1>7. ASSUME NEW n \in DOMAIN new, new[n] \in Success
      PROVE  n + 1 \in DOMAIN new /\ new[n + 1] = Reply
  <2>1. place[n] + 1 \in DOMAIN log /\ log[place[n] + 1] = Reply
    BY <1>2, <1>7 DEF Paired
  <2>2. Reply.client # k
    BY ChatsAssumption DEF Reply
  <2>3. PICK m \in DOMAIN new : place[m] = place[n] + 1
    BY <1>2, <2>1, <2>2
  <2>4. new[m] = Reply
    BY <1>2, <2>1, <2>3
  <2> QED
    BY <1>6, <2>3, <2>4
<1>8. ASSUME NEW n \in DOMAIN new, n + 1 \in DOMAIN new, new[n + 1] = Reply
      PROVE  new[n] \in Success
  <2>1. /\ place[n] \in Nat /\ place[n + 1] \in Nat /\ n \in Nat
        /\ place[n] < place[n + 1] /\ 1 <= place[n] /\ place[n + 1] <= Len(log)
        /\ log[place[n + 1]] = Reply
    BY <1>1, <1>2, <1>8
  <2>2. PICK i \in DOMAIN log : place[n + 1] = i + 1
    <3>1. place[n + 1] - 1 \in DOMAIN log /\ place[n + 1] = (place[n + 1] - 1) + 1
      BY <1>1, <2>1
    <3> QED
      BY <3>1
  <2>3. log[i] \in Success
    BY <1>2, <1>8, <2>1, <2>2 DEF Paired
  <2>4. log[i].client # k
    BY <2>3 DEF UserMessage
  <2>5. PICK m \in DOMAIN new : place[m] = i
    BY <1>2, <2>4
  <2>6. n + 1 = m + 1
    BY <1>6, <1>8, <2>2, <2>5
  <2>7. n = m
    BY <1>1, <2>6
  <2> QED
    BY <1>2, <2>3, <2>5, <2>7
<1> QED
  BY <1>3, <1>5, <1>7, <1>8 DEF Paired, Mentions

LEMMA TwoMore ==
  ASSUME NEW s \in Seq(Messages), NEW u \in Messages, NEW r \in Messages
  PROVE  LET t == s \o <<u, r>> IN
         /\ DOMAIN t = 1 .. Len(s) + 2
         /\ \A i \in 1 .. Len(s) : t[i] = s[i]
         /\ t[Len(s) + 1] = u /\ t[Len(s) + 2] = r
  OBVIOUS

LEMMA AppendsOne ==
  ASSUME NEW s \in Seq(Messages), NEW u \in Messages
  PROVE  LET t == Append(s, u) IN
         /\ DOMAIN t = 1 .. Len(s) + 1
         /\ \A i \in 1 .. Len(s) : t[i] = s[i]
         /\ t[Len(s) + 1] = u
  OBVIOUS

\* A new input may follow when its client has none in the transcript.
LEMMA PairedExtend ==
  ASSUME NEW s \in Seq(Messages), NEW k \in Clients, Paired(s), ~Mentions(s, k)
  PROVE  /\ Paired(s \o <<UserMessage(k, "success"), Reply>>)
         /\ Paired(Append(s, UserMessage(k, "error")))
<1> DEFINE Success == {UserMessage(l, "success") : l \in Clients}
           t == s \o <<UserMessage(k, "success"), Reply>>
           e == Append(s, UserMessage(k, "error"))
<1>1. /\ Len(s) \in Nat /\ DOMAIN s = 1 .. Len(s)
      /\ \A i \in DOMAIN s : s[i] \in Messages
  OBVIOUS
<1>2. /\ DOMAIN t = 1 .. Len(s) + 2
      /\ \A i \in DOMAIN s : t[i] = s[i]
      /\ t[Len(s) + 1] = UserMessage(k, "success") /\ t[Len(s) + 2] = Reply
  BY <1>1, TwoMore, MessageTypes
<1>3. /\ DOMAIN e = 1 .. Len(s) + 1
      /\ \A i \in DOMAIN s : e[i] = s[i]
      /\ e[Len(s) + 1] = UserMessage(k, "error")
  BY <1>1, AppendsOne, MessageTypes
<1>4. /\ UserMessage(k, "success") \in Success /\ Reply \notin Success
      /\ UserMessage(k, "error") \notin Success
      /\ UserMessage(k, "success") # Reply /\ UserMessage(k, "error") # Reply
      /\ Reply.role = "assistant" /\ Reply.client = NoClient
      /\ UserMessage(k, "success").client = k /\ UserMessage(k, "error").client = k
  BY DEF UserMessage, Reply
<1>5. \A i \in DOMAIN s : s[i].client # k /\ (s[i].role = "user" => s[i].client # NoClient)
  BY <1>1, MessageFields, ChatsAssumption DEF Mentions
<1>6. k # NoClient
  BY ChatsAssumption
<1>7. \A i, j \in DOMAIN s : s[i].role = "user" /\ s[i].client = s[j].client => i = j
  BY DEF Paired
<1>8. \A i \in DOMAIN s : s[i] \in Success <=> (i + 1 \in DOMAIN s /\ s[i + 1] = Reply)
  BY DEF Paired
<1> HIDE DEF t, e, Success
<1>9. ASSUME NEW x, NEW u, DOMAIN x = 1 .. Len(s) + 2 \/ DOMAIN x = 1 .. Len(s) + 1,
             \A i \in DOMAIN s : x[i] = s[i], x[Len(s) + 1] = u, u.client = k,
             Len(s) + 2 \in DOMAIN x => x[Len(s) + 2] = Reply
      PROVE  \A i, j \in DOMAIN x : x[i].role = "user" /\ x[i].client = x[j].client => i = j
  <2>1. \A i \in DOMAIN x : i \in DOMAIN s \/ i = Len(s) + 1 \/ (i = Len(s) + 2 /\ x[i] = Reply)
    BY <1>1, <1>9
  <2> QED
    BY <1>4, <1>5, <1>6, <1>7, <1>9, <2>1
<1>10. ASSUME NEW x, NEW u, DOMAIN x = 1 .. Len(s) + 2 \/ DOMAIN x = 1 .. Len(s) + 1,
              \A i \in DOMAIN s : x[i] = s[i], x[Len(s) + 1] = u, u # Reply
       PROVE  \A i \in DOMAIN s : x[i] \in Success <=> (i + 1 \in DOMAIN x /\ x[i + 1] = Reply)
  <2>1. \A i \in DOMAIN s : i + 1 \in DOMAIN x /\ (i + 1 \in DOMAIN s \/ i + 1 = Len(s) + 1)
    BY <1>1, <1>10
  <2>2. Len(s) + 1 \notin DOMAIN s
    BY <1>1
  <2> QED
    BY <1>8, <1>10, <2>1, <2>2
<1>11. Paired(t)
  <2>1. \A i, j \in DOMAIN t : t[i].role = "user" /\ t[i].client = t[j].client => i = j
    BY <1>2, <1>4, <1>9
  <2>2. \A i \in DOMAIN s : t[i] \in Success <=> (i + 1 \in DOMAIN t /\ t[i + 1] = Reply)
    BY <1>2, <1>4, <1>10
  <2>3. \A i \in DOMAIN t : i \in DOMAIN s \/ i = Len(s) + 1 \/ i = Len(s) + 2
    BY <1>1, <1>2
  <2>4. /\ Len(s) + 1 + 1 = Len(s) + 2 /\ Len(s) + 2 \in DOMAIN t
        /\ Len(s) + 2 + 1 \notin DOMAIN t
    BY <1>1, <1>2
  <2>5. \A i \in DOMAIN t : t[i] \in Success <=> (i + 1 \in DOMAIN t /\ t[i + 1] = Reply)
    BY <1>2, <1>4, <2>2, <2>3, <2>4
  <2> QED
    BY <2>1, <2>5 DEF Paired, Success
<1>12. Paired(e)
  <2>1. \A i, j \in DOMAIN e : e[i].role = "user" /\ e[i].client = e[j].client => i = j
    <3>1. Len(s) + 2 \notin DOMAIN e
      BY <1>1, <1>3
    <3> QED
      BY <1>3, <1>4, <1>9, <3>1
  <2>2. \A i \in DOMAIN s : e[i] \in Success <=> (i + 1 \in DOMAIN e /\ e[i + 1] = Reply)
    BY <1>3, <1>4, <1>10
  <2>3. \A i \in DOMAIN e : i \in DOMAIN s \/ i = Len(s) + 1
    BY <1>1, <1>3
  <2>4. Len(s) + 1 + 1 \notin DOMAIN e
    BY <1>1, <1>3
  <2>5. \A i \in DOMAIN e : e[i] \in Success <=> (i + 1 \in DOMAIN e /\ e[i + 1] = Reply)
    BY <1>3, <1>4, <2>2, <2>3, <2>4
  <2> QED
    BY <2>1, <2>5 DEF Paired, Success
<1> QED
  BY <1>11, <1>12 DEF t, e

LEMMA PairedChats == TranscriptIsPaired <=> \A c \in Chats : Paired(messages[c])
  BY DEF TranscriptIsPaired, Paired

LEMMA SentIsMention == \A c, k : Mentions(messages[c], k) <=> Sent(c, k) # {}
<1> SUFFICES ASSUME NEW c, NEW k PROVE Mentions(messages[c], k) <=> Sent(c, k) # {}
  OBVIOUS
<1>1. ASSUME Mentions(messages[c], k) PROVE Sent(c, k) # {}
  <2>1. PICK i \in DOMAIN messages[c] : messages[c][i].client = k
    BY <1>1 DEF Mentions
  <2>2. messages[c][i] \in Sent(c, k)
    BY <2>1 DEF Sent
  <2> QED
    BY <2>2
<1>2. ASSUME Sent(c, k) # {} PROVE Mentions(messages[c], k)
  <2>1. PICK m : m \in Sent(c, k)
    BY <1>2
  <2> QED
    BY <2>1 DEF Sent, Mentions
<1> QED
  BY <1>1, <1>2

\* The final mutation of a call finds no message of its client, or the failed
\* one that it takes out.
LEMMA CommitsArePaired ==
  ASSUME TypeOK, OwnerInv, TranscriptIsPaired, NEW o \in Ops, pc[o] = "answered", Release(o)
  PROVE  /\ Paired(Pair(o))
         /\ o \notin refused =>
              Paired(Append(Without(ChatOf[o], ClientOf[o]), UserMessage(ClientOf[o], "error")))
<1> DEFINE c == ChatOf[o]
           k == ClientOf[o]
           log == messages[c]
<1>1. c \in Chats /\ k \in Clients
  BY ChatsAssumption, ConversationAssumption
<1>2. log \in Seq(Messages)
  BY <1>1 DEF TypeOK, ChatsTypeOK
<1>3. \A m \in Sent(c, k) : m.status = "error" /\ o \notin refused
  BY CommitIsOwned DEF OwnerInv, InputIsOpen
<1>4. Paired(log)
  BY <1>1, PairedChats
<1>5. CASE o \in refused
  <2>1. ~Mentions(log, k)
    BY <1>3, <1>5, SentIsMention
  <2>2. Paired(log \o <<UserMessage(k, "success"), Reply>>)
    BY <1>1, <1>2, <1>4, <2>1, PairedExtend
  <2> QED
    BY <1>5, <2>2 DEF Pair
<1>6. CASE o \notin refused
  <2>1. Without(c, k) \in Seq(Messages) /\ \E place : Embeds(place, log, Without(c, k), k)
    BY <1>2, WithoutEmbeds
  <2>2. PICK place : Embeds(place, log, Without(c, k), k)
    BY <2>1
  <2>3. \A i \in DOMAIN log : log[i].client = k => log[i].status = "error"
    BY <1>3 DEF Sent
  <2>4. Paired(Without(c, k)) /\ ~Mentions(Without(c, k), k)
    BY <1>1, <1>2, <1>4, <2>1, <2>2, <2>3, PairedWithout
  <2>5. /\ Paired(Without(c, k) \o <<UserMessage(k, "success"), Reply>>)
        /\ Paired(Append(Without(c, k), UserMessage(k, "error")))
    BY <1>1, <2>1, <2>4, PairedExtend
  <2> QED
    BY <1>6, <2>5 DEF Pair
<1> QED
  BY <1>5, <1>6

\* What a step may make of one transcript.
LEMMA TranscriptAfter ==
  ASSUME TypeOK, [Next]_vars, NEW c \in Chats
  PROVE  \/ messages'[c] = messages[c]
         \/ messages'[c] = <<>> /\ (c \in chats => c \notin chats')
         \/ \E o \in Ops :
              /\ ChatOf[o] = c /\ pc[o] = "answered" /\ Release(o)
              /\ \/ messages'[c] = Pair(o)
                 \/ /\ o \notin refused
                    /\ messages'[c] = Append(Without(c, ClientOf[o]), UserMessage(ClientOf[o], "error"))
<1>t. messages \in [Chats -> Seq(Messages)]
  BY DEF TypeOK, ChatsTypeOK
<1>1. ASSUME NEW o \in Ops, CommitAnswer(o)
      PROVE  \/ messages'[c] = messages[c]
             \/ ChatOf[o] = c /\ pc[o] = "answered" /\ Release(o) /\ messages'[c] = Pair(o)
  BY <1>t, <1>1 DEF CommitAnswer, Stored
<1>2. ASSUME NEW o \in Ops, CommitFailure(o)
      PROVE  \/ messages'[c] = messages[c]
             \/ /\ ChatOf[o] = c /\ pc[o] = "answered" /\ Release(o) /\ o \notin refused
                /\ messages'[c] = Append(Without(c, ClientOf[o]), UserMessage(ClientOf[o], "error"))
  BY <1>t, <1>2 DEF CommitFailure, Stored, Step
<1>3. ASSUME NEW gone, RemoveChats(gone)
      PROVE  messages'[c] = messages[c] \/ (messages'[c] = <<>> /\ (c \in chats => c \notin chats'))
  BY <1>t, <1>3 DEF RemoveChats
<1>4. ASSUME NEW d \in Chats, DeleteChat(d)
      PROVE  messages'[c] = messages[c] \/ (messages'[c] = <<>> /\ (c \in chats => c \notin chats'))
  BY <1>3, <1>4 DEF DeleteChat, DeletedChat
<1>5. ASSUME NEW p \in Projects, DeleteProject(p)
      PROVE  messages'[c] = messages[c] \/ (messages'[c] = <<>> /\ (c \in chats => c \notin chats'))
  BY <1>3, <1>5 DEF DeleteProject, DeletedProject
<1>6. ASSUME NEW o \in Ops, Check(o) \/ CheckFails(o) \/ Claim(o) \/ ClaimRefused(o)
      PROVE  UNCHANGED messages
  BY <1>6 DEF Check, CheckFails, Claim, ClaimRefused, chatVars
<1>7. ASSUME NEW o \in Ops, Work(o), ~CommitAnswer(o), ~CommitFailure(o) PROVE UNCHANGED messages
  BY <1>7 DEF Work, Attach, Answer, StartTitle, StartWorker, Detach, CommitNothing,
              CommitRefused, chatVars
<1>8. ASSUME NEW k, ClearGlobal(k) \/ ClearProject(k) PROVE UNCHANGED messages
  BY <1>8 DEF ClearGlobal, ClearedGlobal, ClearProject, ClearedProject
<1>9. ASSUME NEW d \in Chats, TitleWork(d) PROVE UNCHANGED messages
  BY <1>9 DEF TitleWork, TitleAnswered, TitleSaved, TitleNotSaved
<1>10. Mutate \/ Close \/ Restart \/ UNCHANGED vars => UNCHANGED messages
  BY DEF Mutate, Close, CloseStore, Restart, Reopen, vars, chatVars
<1> QED
  BY <1>1, <1>2, <1>4, <1>5, <1>6, <1>7, <1>8, <1>9, <1>10 DEF Next

(***************************************************************************)
(* A transcript holds each client's input at most once, and exactly the    *)
(* accepted inputs are followed by their reply, whatever resends, retries  *)
(* and refusals of one client_message_id raced each other.                 *)
(***************************************************************************)
THEOREM TranscriptsArePaired == Spec => []TranscriptIsPaired
<1>1. Init => TranscriptIsPaired
  <2>1. Paired(<<>>)
    BY DEF Paired
  <2> QED
    BY <2>1, PairedChats DEF Init, ChatsInit
<1>2. ASSUME TypeOK, OwnerInv, TranscriptIsPaired, [Next]_vars
      PROVE  TranscriptIsPaired'
  <2>1. \A c \in Chats : Paired(messages[c])
    BY <1>2, PairedChats
  <2>2. ASSUME NEW c \in Chats PROVE Paired(messages'[c])
    <3>1. Paired(<<>>)
      BY DEF Paired
    <3>2. ASSUME NEW o \in Ops, pc[o] = "answered", Release(o)
          PROVE  /\ Paired(Pair(o))
                 /\ o \notin refused =>
                      Paired(Append(Without(ChatOf[o], ClientOf[o]), UserMessage(ClientOf[o], "error")))
      BY <1>2, <3>2, CommitsArePaired
    <3>3. \/ messages'[c] = messages[c] \/ messages'[c] = <<>>
          \/ \E o \in Ops :
               /\ ChatOf[o] = c /\ pc[o] = "answered" /\ Release(o)
               /\ \/ messages'[c] = Pair(o)
                  \/ /\ o \notin refused
                     /\ messages'[c] = Append(Without(c, ClientOf[o]), UserMessage(ClientOf[o], "error"))
      BY <1>2, TranscriptAfter
    <3> QED
      BY <2>1, <3>1, <3>2, <3>3
  <2> QED
    BY <2>2 DEF TranscriptIsPaired, Paired
<1> QED
  BY <1>1, <1>2, TypeCorrect, OwnersAreSafe, PTL DEF Spec

\* A commit keeps the messages of other clients and stores one of its own.
LEMMA CommitsMention ==
  ASSUME TypeOK, NEW o \in Ops, NEW k, Mentions(messages[ChatOf[o]], k)
  PROVE  /\ Mentions(Pair(o), k)
         /\ Mentions(Append(Without(ChatOf[o], ClientOf[o]), UserMessage(ClientOf[o], "error")), k)
<1> DEFINE c == ChatOf[o]
           own == ClientOf[o]
           log == messages[c]
<1>1. c \in Chats /\ own \in Clients
  BY ChatsAssumption, ConversationAssumption
<1>2. log \in Seq(Messages)
  BY <1>1 DEF TypeOK, ChatsTypeOK
<1>3. UserMessage(own, "success").client = own /\ UserMessage(own, "error").client = own
  BY DEF UserMessage
<1>4. ASSUME NEW s \in Seq(Messages), Mentions(s, k) \/ k = own
      PROVE  /\ Mentions(s \o <<UserMessage(own, "success"), Reply>>, k)
             /\ Mentions(Append(s, UserMessage(own, "error")), k)
  <2> DEFINE t == s \o <<UserMessage(own, "success"), Reply>>
             e == Append(s, UserMessage(own, "error"))
  <2>1. Len(s) \in Nat /\ DOMAIN s = 1 .. Len(s)
    OBVIOUS
  <2>2. /\ DOMAIN t = 1 .. Len(s) + 2 /\ \A i \in 1 .. Len(s) : t[i] = s[i]
        /\ t[Len(s) + 1] = UserMessage(own, "success")
    BY <1>1, TwoMore, MessageTypes
  <2>3. /\ DOMAIN e = 1 .. Len(s) + 1 /\ \A i \in 1 .. Len(s) : e[i] = s[i]
        /\ e[Len(s) + 1] = UserMessage(own, "error")
    BY <1>1, AppendsOne, MessageTypes
  <2> HIDE DEF t, e
  <2>4. Len(s) + 1 \in DOMAIN t /\ Len(s) + 1 \in DOMAIN e
    BY <2>1, <2>2, <2>3
  <2>5. \A i \in DOMAIN s : i \in DOMAIN t /\ i \in DOMAIN e
    BY <2>1, <2>2, <2>3
  <2>6. CASE k = own
    BY <1>3, <2>2, <2>3, <2>4, <2>6 DEF Mentions, t, e
  <2>7. CASE Mentions(s, k)
    BY <2>1, <2>2, <2>3, <2>5, <2>7 DEF Mentions, t, e
  <2> QED
    BY <1>4, <2>6, <2>7
<1>5. Without(c, own) \in Seq(Messages) /\ (Mentions(Without(c, own), k) \/ k = own)
  <2>1. Without(c, own) \in Seq(Messages) /\ \E place : Embeds(place, log, Without(c, own), own)
    BY <1>2, WithoutEmbeds
  <2>2. PICK place : Embeds(place, log, Without(c, own), own)
    BY <2>1
  <2>3. PICK i \in DOMAIN log : log[i].client = k
    BY DEF Mentions
  <2> QED
    BY <2>1, <2>2, <2>3 DEF Embeds, Mentions
<1>6. /\ Mentions(Without(c, own) \o <<UserMessage(own, "success"), Reply>>, k)
      /\ Mentions(Append(Without(c, own), UserMessage(own, "error")), k)
  BY <1>4, <1>5
<1>7. Mentions(log \o <<UserMessage(own, "success"), Reply>>, k)
  BY <1>2, <1>4
<1> QED
  BY <1>6, <1>7 DEF Pair

(***************************************************************************)
(* An input that was stored stays in the transcript while the chat exists: *)
(* no retry that fails, loses its lease or dies half-way removes it.       *)
(***************************************************************************)
THEOREM InputsAreKept == Spec => StoredInputIsKept
<1>1. ASSUME TypeOK, [Next]_vars, NEW c \in Chats, NEW k \in Clients, c \in chats', Sent(c, k) # {}
      PROVE  Sent(c, k)' # {}
  <2>1. Mentions(messages[c], k)
    BY <1>1, SentIsMention
  <2>2. c \in chats
    <3>1. chats' \subseteq chats
      <4>1. ASSUME NEW o \in Ops, Check(o) \/ CheckFails(o) \/ Claim(o) \/ ClaimRefused(o)
            PROVE  UNCHANGED chats
        BY <4>1 DEF Check, CheckFails, Claim, ClaimRefused, chatVars
      <4>2. ASSUME NEW o \in Ops, Work(o) PROVE UNCHANGED chats
        BY <4>2 DEF Work, Attach, Answer, StartTitle, StartWorker, Detach, CommitAnswer,
                    CommitFailure, CommitNothing, CommitRefused, Release, chatVars
      <4>3. ASSUME NEW d, DeleteChat(d) \/ DeleteProject(d) PROVE chats' \subseteq chats
        BY <4>3 DEF DeleteChat, DeletedChat, DeleteProject, DeletedProject, RemoveChats
      <4>4. ASSUME NEW l, ClearGlobal(l) \/ ClearProject(l) \/ TitleWork(l) PROVE UNCHANGED chats
        BY <4>4 DEF ClearGlobal, ClearedGlobal, ClearProject, ClearedProject, TitleWork,
                    TitleAnswered, TitleSaved, TitleNotSaved
      <4>5. Mutate \/ Close \/ Restart \/ UNCHANGED vars => UNCHANGED chats
        BY DEF Mutate, Close, CloseStore, Restart, Reopen, vars, chatVars
      <4> QED
        BY <1>1, <4>1, <4>2, <4>3, <4>4, <4>5 DEF Next
    <3> QED
      BY <1>1, <3>1
  <2>3. ASSUME NEW o \in Ops, ChatOf[o] = c
        PROVE  /\ Mentions(Pair(o), k)
               /\ Mentions(Append(Without(c, ClientOf[o]), UserMessage(ClientOf[o], "error")), k)
    BY <1>1, <2>1, <2>3, CommitsMention
  <2>4. Mentions(messages'[c], k)
    BY <1>1, <2>1, <2>2, <2>3, TranscriptAfter
  <2>5. PICK i \in DOMAIN messages'[c] : messages'[c][i].client = k
    BY <2>4 DEF Mentions
  <2>6. messages'[c][i] \in Sent(c, k)'
    BY <2>5 DEF Sent
  <2> QED
    BY <2>6
<1>2. TypeOK /\ [Next]_vars =>
        [\A c \in Chats, k \in Clients : c \in chats' /\ Sent(c, k) # {} => Sent(c, k)' # {}]_vars
  BY <1>1
<1> QED
  BY <1>2, TypeCorrect, PTL DEF Spec, StoredInputIsKept
=============================================================================
