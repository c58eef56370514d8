----------------------------- MODULE ChatsProofs -----------------------------
(***************************************************************************)
(* Lemmas about the operators of StateManager and Chats, for the proofs of *)
(* the two use cases that are composed from them: what each mutation keeps *)
(* of the types, and what taking a client's messages out of a transcript   *)
(* leaves.                                                                 *)
(***************************************************************************)
EXTENDS Chats, FunctionTheorems, FiniteSetTheorems, TLAPS

LEMMA SessionOfType == SessionOf \in [Ops -> Sessions]
  BY ChatsAssumption DEF SessionOf

LEMMA SessionOfDef == \A o \in Ops : SessionOf[o] = OwnerOf[ProjectOf[ChatOf[o]]]
  BY DEF SessionOf

-----------------------------------------------------------------------------
(***************************************************************************)
(* Without takes the messages of one client out of a transcript and leaves *)
(* the others in their order.  Rank and Place count the messages that stay.*)
(***************************************************************************)
Rank(K, i) == Cardinality({j \in K : j <= i})
Place(K, n) == CHOOSE i \in K : Rank(K, i) = n

LEMMA RankIsOrder ==
  ASSUME NEW len \in Nat, NEW K \in SUBSET (1 .. len)
  PROVE  /\ IsFiniteSet(K)
         /\ \A i \in K : Rank(K, i) \in 1 .. Cardinality(K)
         /\ \A i, j \in K : i < j => Rank(K, i) < Rank(K, j)
<1>0. K \subseteq Nat
  OBVIOUS
<1>1. IsFiniteSet(K)
  <2>1. IsFiniteSet(1 .. len)
    BY FS_Interval
  <2> QED
    BY <2>1, FS_Subset
<1>2. ASSUME NEW i \in K
      PROVE  Rank(K, i) \in 1 .. Cardinality(K)
  <2> DEFINE low == {j \in K : j <= i}
  <2>1. IsFiniteSet(low) /\ Cardinality(low) <= Cardinality(K)
    BY <1>1, FS_Subset
  <2>2. Cardinality(low) \in Nat /\ Cardinality(K) \in Nat
    BY <1>1, <2>1, FS_CardinalityType
  <2>3. i \in low
    OBVIOUS
  <2>4. Cardinality(low) # 0
    BY <2>1, <2>3, FS_EmptySet
  <2> QED
    BY <2>1, <2>2, <2>4 DEF Rank
<1>3. ASSUME NEW i \in K, NEW j \in K, i < j
      PROVE  Rank(K, i) < Rank(K, j)
  <2> DEFINE low == {x \in K : x <= i}
             high == {x \in K : x <= j}
  <2>1. low \in SUBSET high /\ j \in high /\ j \notin low
    <3>1. \A x \in K : x \in Nat
      BY <1>0
    <3>2. \A x \in K : x <= i => x <= j
      BY <1>3, <3>1
    <3>3. ~(j <= i) /\ j <= j
      BY <1>3, <3>1
    <3> QED
      BY <3>2, <3>3
  <2>2. IsFiniteSet(high)
    BY <1>1, FS_Subset
  <2>3. /\ IsFiniteSet(low) /\ Cardinality(low) <= Cardinality(high)
        /\ Cardinality(high) = Cardinality(low) => high = low
    BY <2>1, <2>2, FS_Subset
  <2>4. Cardinality(low) \in Nat /\ Cardinality(high) \in Nat
    BY <2>2, <2>3, FS_CardinalityType
  <2> QED
    BY <2>1, <2>3, <2>4 DEF Rank
<1> QED
  BY <1>1, <1>2, <1>3

LEMMA EveryRankIsTaken ==
  ASSUME NEW len \in Nat, NEW K \in SUBSET (1 .. len)
  PROVE  \A n \in 1 .. Cardinality(K) : \E i \in K : Rank(K, i) = n
<1> DEFINE rank == [i \in K |-> Rank(K, i)]
           ranks == 1 .. Cardinality(K)
<1>0. /\ IsFiniteSet(K)
      /\ \A i \in K : Rank(K, i) \in ranks
      /\ \A i, j \in K : i < j => Rank(K, i) < Rank(K, j)
  BY RankIsOrder
<1>1. IsFiniteSet(K) /\ Cardinality(K) \in Nat
  BY <1>0, FS_CardinalityType
<1>2. rank \in Injection(K, ranks)
  <2>1. rank \in [K -> ranks]
    BY <1>0
  <2>2. ASSUME NEW i \in K, NEW j \in K, Rank(K, i) = Rank(K, j)
        PROVE  i = j
    <3>1. i \in Nat /\ j \in Nat /\ Rank(K, i) \in Nat
      BY <1>0, <1>1
    <3>2. ~(i < j) /\ ~(j < i)
      BY <1>0, <2>2, <3>1
    <3> QED
      BY <3>1, <3>2
  <2> QED
    BY <2>1, <2>2 DEF Injection, IsInjective
<1>3. IsFiniteSet(ranks) /\ Cardinality(ranks) = Cardinality(K)
  BY <1>1, FS_Interval
<1>4. rank \in Surjection(K, ranks)
  BY <1>2, <1>3, FS_Injection
<1> QED
  BY <1>4 DEF Surjection

LEMMA PlaceIsOrder ==
  ASSUME NEW len \in Nat, NEW K \in SUBSET (1 .. len)
  PROVE  /\ Cardinality(K) \in Nat
         /\ \A n \in 1 .. Cardinality(K) : Place(K, n) \in K /\ Rank(K, Place(K, n)) = n
         /\ \A i \in K : \E n \in 1 .. Cardinality(K) : Place(K, n) = i
         /\ \A n, m \in 1 .. Cardinality(K) : n < m => Place(K, n) < Place(K, m)
<1> DEFINE ranks == 1 .. Cardinality(K)
<1>0. /\ IsFiniteSet(K)
      /\ \A i \in K : Rank(K, i) \in ranks
      /\ \A i, j \in K : i < j => Rank(K, i) < Rank(K, j)
  BY RankIsOrder
<1>1. Cardinality(K) \in Nat
  BY <1>0, FS_CardinalityType
<1>2. \A n \in ranks : \E i \in K : Rank(K, i) = n
  BY EveryRankIsTaken
<1>3. \A n \in ranks : Place(K, n) \in K /\ Rank(K, Place(K, n)) = n
  BY <1>2 DEF Place
<1> HIDE DEF ranks
<1>4. \A i, j \in K : i \in Nat /\ j \in Nat /\ Rank(K, i) \in Nat /\ (i = j \/ i < j \/ j < i)
  BY <1>0, <1>1 DEF ranks
<1>5. ASSUME NEW i \in K
      PROVE  \E n \in ranks : Place(K, n) = i
  <2>1. Rank(K, i) \in ranks
    BY <1>0
  <2>2. PICK p \in K : p = Place(K, Rank(K, i)) /\ Rank(K, p) = Rank(K, i)
    BY <1>3, <2>1
  <2>3. p = i \/ p < i \/ i < p
    BY <1>4
  <2>4. (p < i => Rank(K, p) < Rank(K, i)) /\ (i < p => Rank(K, i) < Rank(K, p))
    BY <1>0
  <2>5. Rank(K, i) \in Nat
    BY <1>4
  <2>6. p = i
    BY <2>2, <2>3, <2>4, <2>5
  <2> QED
    BY <2>1, <2>2, <2>6
<1>6. ASSUME NEW n \in ranks, NEW m \in ranks, n < m
      PROVE  Place(K, n) < Place(K, m)
  <2>1. n \in Nat /\ m \in Nat
    BY <1>1 DEF ranks
  <2>2. PICK p \in K : p = Place(K, n) /\ Rank(K, p) = n
    BY <1>3
  <2>3. PICK q \in K : q = Place(K, m) /\ Rank(K, q) = m
    BY <1>3
  <2>4. p = q \/ p < q \/ q < p
    BY <1>4
  <2>5. q < p => m < n
    BY <1>0, <2>2, <2>3
  <2> QED
    BY <1>6, <2>1, <2>2, <2>3, <2>4, <2>5
<1> QED
  BY <1>1, <1>3, <1>5, <1>6 DEF ranks

(***************************************************************************)
(* What is left of a transcript: a sequence of its messages, each at a     *)
(* place of the old one, all of them and in order, so that neighbours that *)
(* both stay remain neighbours.                                            *)
(***************************************************************************)
Embeds(place, log, new, k) ==
  /\ \A n \in DOMAIN new :
       /\ place[n] \in DOMAIN log /\ new[n] = log[place[n]] /\ log[place[n]].client # k
  /\ \A i \in DOMAIN log : log[i].client # k => \E n \in DOMAIN new : place[n] = i
  /\ \A n, m \in DOMAIN new : n < m => place[n] < place[m]

LEMMA WithoutEmbeds ==
  ASSUME NEW c, NEW k, messages[c] \in Seq(Messages)
  PROVE  /\ Without(c, k) \in Seq(Messages)
         /\ \E place : Embeds(place, messages[c], Without(c, k), k)
<1> DEFINE log == messages[c]
           K == {i \in DOMAIN log : log[i].client # k}
           new == [n \in 1 .. Cardinality(K) |-> log[Place(K, n)]]
           place == [n \in 1 .. Cardinality(K) |-> Place(K, n)]
<1>1. /\ Len(log) \in Nat /\ DOMAIN log = 1 .. Len(log)
      /\ \A i \in DOMAIN log : log[i] \in Messages
  OBVIOUS
<1>2. K \in SUBSET (1 .. Len(log))
  BY <1>1
<1>3. Without(c, k) = new
  BY DEF Without, Place, Rank
<1> HIDE DEF log
<1>4. /\ Cardinality(K) \in Nat
      /\ \A n \in 1 .. Cardinality(K) : Place(K, n) \in K
      /\ \A i \in K : \E n \in 1 .. Cardinality(K) : Place(K, n) = i
      /\ \A n, m \in 1 .. Cardinality(K) : n < m => Place(K, n) < Place(K, m)
  BY <1>1, <1>2, PlaceIsOrder
<1>5. new \in Seq(Messages)
  <2>1. \A n \in 1 .. Cardinality(K) : log[Place(K, n)] \in Messages
    BY <1>1, <1>4
  <2> QED
    BY <1>4, <2>1
<1>6. Embeds(place, log, new, k)
  <2>1. DOMAIN new = 1 .. Cardinality(K)
    OBVIOUS
  <2> QED
    BY <1>4, <2>1 DEF Embeds
<1> QED
  BY <1>3, <1>5, <1>6 DEF log

-----------------------------------------------------------------------------
(***************************************************************************)
(* The manager's methods keep its types.                                   *)
(***************************************************************************)
LEMMA InitTypes ==
  /\ MgrInit => MgrTypeOK
  /\ ChatsInit => ChatsTypeOK
<1>1. MgrInit => MgrTypeOK
  BY DEF MgrInit, MgrTypeOK
<1>2. ASSUME ChatsInit PROVE ChatsTypeOK
  <2>1. \A c \in Chats : ProjectOf[c] \in projects
    BY <1>2, ChatsAssumption DEF ChatsInit
  <2>2. <<>> \in Seq(Messages)
    OBVIOUS
  <2>3. messages \in [Chats -> Seq(Messages)]
    BY <1>2, <2>2 DEF ChatsInit
  <2> QED
    BY <1>2, <2>1, <2>3 DEF ChatsInit, ChatsTypeOK, TitleStatuses, WorkerPhases
<1> QED
  BY <1>1, <1>2

LEMMA CandidateType ==
  ASSUME MgrTypeOK
  PROVE  Candidate \in [Sessions -> Ops \cup {NoLease}]
  BY DEF MgrTypeOK, Candidate

LEMMA PublishKeepsTypes ==
  ASSUME MgrTypeOK, NEW leases \in [Sessions -> Ops \cup {NoLease}], Publish(leases)
  PROVE  MgrTypeOK'
  BY DEF MgrTypeOK, Publish

LEMMA AttachKeepsTypes ==
  ASSUME MgrTypeOK, NEW s, NEW o \in Ops, AttachLease(s, o)
  PROVE  MgrTypeOK'
  BY DEF MgrTypeOK, AttachLease

LEMMA DetachKeepsTypes ==
  ASSUME MgrTypeOK, NEW o \in Ops, DetachLease(o)
  PROVE  MgrTypeOK'
  BY DEF MgrTypeOK, DetachLease

LEMMA CloseKeepsTypes ==
  ASSUME MgrTypeOK, CloseManager
  PROVE  MgrTypeOK'
  BY DEF MgrTypeOK, CloseManager

LEMMA ReopenKeepsTypes ==
  ASSUME MgrTypeOK, ReopenManager
  PROVE  MgrTypeOK'
  BY DEF MgrTypeOK, ReopenManager

-----------------------------------------------------------------------------
(***************************************************************************)
(* The steps of the workspace and of the title workers keep all types.     *)
(***************************************************************************)
LEMMA ReleasedType ==
  ASSUME MgrTypeOK, NEW gone
  PROVE  Released(gone) \in [Sessions -> Ops \cup {NoLease}]
  BY CandidateType DEF Released

LEMMA RemoveChatsKeepsTypes ==
  ASSUME MgrTypeOK, ChatsTypeOK, NEW gone, RemoveChats(gone)
  PROVE  /\ MgrTypeOK'
         /\ messages' \in [Chats -> Seq(Messages)]
         /\ title' \in [Chats -> TitleStatuses]
         /\ worker' \in [Chats -> WorkerPhases]
<1>1. MgrTypeOK'
  BY ReleasedType, PublishKeepsTypes DEF RemoveChats
<1>2. messages' \in [Chats -> Seq(Messages)]
  BY DEF RemoveChats, ChatsTypeOK
<1>3. title' \in [Chats -> TitleStatuses]
  BY DEF RemoveChats, ChatsTypeOK, TitleStatuses
<1>4. worker' \in [Chats -> WorkerPhases]
  BY DEF RemoveChats, ChatsTypeOK, StopTitles, WorkerPhases
<1> QED
  BY <1>1, <1>2, <1>3, <1>4

LEMMA DeletedChatKeepsTypes ==
  ASSUME MgrTypeOK, ChatsTypeOK, NEW c, DeletedChat(c)
  PROVE  MgrTypeOK' /\ ChatsTypeOK'
<1>1. RemoveChats({c}) /\ UNCHANGED <<projects, memory>>
  BY DEF DeletedChat
<1>2. chats' = chats \ {c}
  BY <1>1 DEF RemoveChats
<1> QED
  BY <1>1, <1>2, RemoveChatsKeepsTypes DEF ChatsTypeOK

LEMMA DeletedProjectKeepsTypes ==
  ASSUME MgrTypeOK, ChatsTypeOK, NEW p, DeletedProject(p)
  PROVE  MgrTypeOK' /\ ChatsTypeOK'
<1> DEFINE gone == {c \in chats : ProjectOf[c] = p}
<1>1. RemoveChats(gone)
  BY DEF DeletedProject
<1>2. chats' = chats \ gone /\ projects' = projects \ {p}
  BY <1>1 DEF RemoveChats, DeletedProject
<1>3. memory' \in [Sessions \cup Projects -> SUBSET Ops]
  BY DEF DeletedProject, ChatsTypeOK
<1>4. projects' \subseteq Projects /\ chats' \subseteq {c \in Chats : ProjectOf[c] \in projects'}
  BY <1>2 DEF ChatsTypeOK
<1> QED
  BY <1>1, <1>3, <1>4, RemoveChatsKeepsTypes DEF ChatsTypeOK

LEMMA ClearedKeepsTypes ==
  ASSUME MgrTypeOK, ChatsTypeOK, NEW k, ClearedGlobal(k) \/ ClearedProject(k)
  PROVE  MgrTypeOK' /\ ChatsTypeOK'
  BY CandidateType, PublishKeepsTypes DEF ChatsTypeOK, ClearedGlobal, ClearedProject

LEMMA StartWorkerKeepsTypes ==
  ASSUME MgrTypeOK, ChatsTypeOK, NEW c, StartWorker(c)
  PROVE  MgrTypeOK' /\ ChatsTypeOK'
  BY DEF MgrTypeOK, ChatsTypeOK, StartWorker, mgrVars, WorkerPhases

LEMMA TitleAnsweredKeepsTypes ==
  ASSUME MgrTypeOK, ChatsTypeOK, NEW c, TitleAnswered(c) \/ TitleNotSaved(c)
  PROVE  MgrTypeOK' /\ ChatsTypeOK'
  BY DEF MgrTypeOK, ChatsTypeOK, TitleAnswered, TitleNotSaved, mgrVars, WorkerPhases

LEMMA TitleSavedKeepsTypes ==
  ASSUME MgrTypeOK, ChatsTypeOK, NEW c, TitleSaved(c)
  PROVE  MgrTypeOK' /\ ChatsTypeOK'
<1>1. MgrTypeOK'
  BY CandidateType, PublishKeepsTypes DEF TitleSaved
<1> QED
  BY <1>1 DEF ChatsTypeOK, TitleSaved, TitleStatuses, WorkerPhases

LEMMA CloseStoreKeepsTypes ==
  ASSUME MgrTypeOK, ChatsTypeOK, CloseStore
  PROVE  MgrTypeOK' /\ ChatsTypeOK'
  BY CloseKeepsTypes DEF ChatsTypeOK, CloseStore, WorkerPhases

LEMMA ReopenKeepsAllTypes ==
  ASSUME MgrTypeOK, ChatsTypeOK, Reopen
  PROVE  MgrTypeOK' /\ ChatsTypeOK'
  BY ReopenKeepsTypes DEF ChatsTypeOK, Reopen, WorkerPhases, TitleStatuses

-----------------------------------------------------------------------------
(***************************************************************************)
(* Deletions.  The chats that one deletion takes away are those of one     *)
(* session, so it takes at most one lease with them.                       *)
(***************************************************************************)
LeasesAreOwn == \A s \in Sessions : pending[s] # NoLease => SessionOf[pending[s]] = s

Hits(gone, s) == Candidate[s] # NoLease /\ ChatOf[Candidate[s]] \in gone

LEMMA ReleasedIsOneLease ==
  ASSUME MgrTypeOK, LeasesAreOwn, NEW s0 \in Sessions, NEW gone,
         \A o \in Ops : ChatOf[o] \in gone => SessionOf[o] = s0
  PROVE  /\ Hits(gone, s0) => Released(gone) = [Candidate EXCEPT ![s0] = NoLease]
         /\ ~Hits(gone, s0) => Released(gone) = Candidate
         /\ \A s \in Sessions : Hits(gone, s) => s = s0
<1>1. \A s \in Sessions : Candidate[s] # NoLease => Candidate[s] \in Ops /\ SessionOf[Candidate[s]] = s
  BY DEF MgrTypeOK, LeasesAreOwn, Candidate
<1>2. \A s \in Sessions : Hits(gone, s) => s = s0
  BY <1>1 DEF Hits
<1>3. Candidate \in [Sessions -> Ops \cup {NoLease}]
  BY CandidateType
<1>4. Released(gone) = [s \in Sessions |-> IF Hits(gone, s) THEN NoLease ELSE Candidate[s]]
  BY DEF Released, Hits
<1> QED
  BY <1>2, <1>3, <1>4
=============================================================================
