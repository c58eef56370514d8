---------------------------- MODULE TaskflowProofs ----------------------------
(***************************************************************************)
(* Theorems about Taskflow for every set of sessions, chats, tasks, client *)
(* ids and calls: the use case follows the lease protocol, the ledger of   *)
(* operations stays readable and has no operation pending without a call,  *)
(* accepted work is kept, and a paused task rests.                         *)
(***************************************************************************)
EXTENDS Taskflow, ChatsProofs

\* The lease protocol as Taskflow instantiates it, with its theorems.
Leases == INSTANCE LeaseProofs WITH pc <- [o \in Ops |-> ProtocolPhase(o)]

LEMMA LeasesAssumption == Leases!LeaseAssumption
  BY SessionOfType, ChatsAssumption DEF Leases!LeaseAssumption

-----------------------------------------------------------------------------
(***************************************************************************)
(* What is stored of the tasks of one chat - the tasks T, the ledger L and *)
(* the pointers P to the tasks' last operations - and the call w, if any,  *)
(* that works on one of them under the chat's lease.                       *)
(***************************************************************************)
Typed(T, L, P) ==
  /\ T \in [TaskIds -> Tasks \cup {NoTask}]
  /\ L \in [Clients -> Operations \cup {NoOp}]
  /\ P \in [TaskIds -> Clients \cup {NoClient}]

\* The call has recorded its operation, and putting back what it remembers of
\* the time before its claim leaves nothing dangling.
Recorded(T, L, P, w) ==
  LET t == w.target
      k == w.client
  IN
  /\ t \in TaskIds
  /\ L[k] = [task |-> t, status |-> "pending"]
  /\ P[t] = k
  /\ T[t] # NoTask /\ T[t].work = IF w.before = NoTask THEN {} ELSE w.before.work
  /\ w.oldOp # NoOp => w.oldOp.task = t /\ w.oldOp.status # "pending" /\ w.before # NoTask
  /\ w.oldId # NoClient => w.before # NoTask
  /\ w.oldId = k => w.oldOp # NoOp
  /\ w.oldId \notin {k, NoClient} => L[w.oldId] # NoOp /\ L[w.oldId].task = t
  /\ w.before = NoTask => \A l \in Clients \ {k} : L[l] # NoOp => L[l].task # t

\* W holds the call that works on a task of the chat, or nothing.
Good(T, L, P, W) ==
  /\ \A k \in Clients : L[k] # NoOp =>
       /\ T[L[k].task] # NoTask
       /\ L[k].status = "pending" => \E w \in W : w.client = k
  /\ \A t \in TaskIds : P[t] # NoClient =>
       T[t] # NoTask /\ L[P[t]] # NoOp /\ L[P[t]].task = t
  /\ \A w \in W : Recorded(T, L, P, w)

LEMMA GoodStart ==
  ASSUME NEW T, NEW L, NEW P, \A k \in Clients : L[k] = NoOp, \A t \in TaskIds : P[t] = NoClient
  PROVE  Good(T, L, P, {})
  BY DEF Good

\* The claim of a task, new or open, for an operation that is not pending.
LEMMA GoodClaim ==
  ASSUME NEW T, NEW L, NEW P, Typed(T, L, P), Good(T, L, P, {}),
         NEW t \in TaskIds, NEW k \in Clients, L[k] # NoOp => L[k].task = t,
         NEW task \in Tasks,
         task.work = IF T[t] = NoTask THEN {} ELSE T[t].work,
         NEW w \in Calls, w.target = t, w.client = k, w.before = T[t], w.oldOp = L[k],
         w.oldId = P[t]
  PROVE  Good([T EXCEPT ![t] = task],
              [L EXCEPT ![k] = [task |-> t, status |-> "pending"]],
              [P EXCEPT ![t] = k], {w})
<1> DEFINE T1 == [T EXCEPT ![t] = task]
           op == [task |-> t, status |-> "pending"]
           L1 == [L EXCEPT ![k] = op]
           P1 == [P EXCEPT ![t] = k]
<1>0. task # NoTask /\ op \in Operations /\ op # NoOp /\ k # NoClient
      /\ op.task = t /\ op.status = "pending"
  BY TaskflowAssumption, ChatsAssumption DEF Operations
<1>1. /\ T1[t] = task /\ \A u \in TaskIds \ {t} : T1[u] = T[u]
      /\ L1[k] = op /\ \A l \in Clients \ {k} : L1[l] = L[l]
      /\ P1[t] = k /\ \A u \in TaskIds \ {t} : P1[u] = P[u]
  BY DEF Typed
<1>2. \A l \in Clients : L[l] # NoOp => L[l].task \in TaskIds
  BY DEF Typed, Operations
<1> HIDE DEF T1, L1, P1, op
<1>3. \A l \in Clients : L1[l] # NoOp =>
        T1[L1[l].task] # NoTask /\ (L1[l].status = "pending" => w.client = l)
  BY <1>0, <1>1, <1>2 DEF Good
<1>4. \A u \in TaskIds : P1[u] # NoClient =>
        T1[u] # NoTask /\ L1[P1[u]] # NoOp /\ L1[P1[u]].task = u
  <2>1. \A u \in TaskIds \ {t} : P[u] # NoClient => P[u] \in Clients \ {k}
    BY DEF Typed, Good
  <2> QED
    BY <1>0, <1>1, <2>1 DEF Good
<1>5. Recorded(T1, L1, P1, w)
  <2>1. w.oldOp # NoOp => w.oldOp.task = t /\ w.oldOp.status # "pending" /\ w.before # NoTask
    BY DEF Good
  <2>2. w.oldId # NoClient => w.before # NoTask /\ w.oldId \in Clients /\ L[w.oldId] # NoOp
                              /\ L[w.oldId].task = t
    BY DEF Good, Typed
  <2>3. w.before = NoTask => \A l \in Clients \ {k} : L1[l] # NoOp => L1[l].task # t
    <3>1. \A l \in Clients : L[l] # NoOp => T[L[l].task] # NoTask
      BY DEF Good
    <3>2. ASSUME w.before = NoTask, NEW l \in Clients \ {k}, L1[l] # NoOp PROVE L1[l].task # t
      <4>1. L1[l] = L[l]
        BY <1>1
      <4>2. T[L[l].task] # NoTask /\ T[t] = NoTask
        BY <3>1, <3>2, <4>1
      <4> QED
        BY <4>1, <4>2
    <3> QED
      BY <3>2
  <2> QED
    BY <1>0, <1>1, <2>1, <2>2, <2>3 DEF Recorded, op
<1> QED
  BY <1>3, <1>4, <1>5 DEF Good, T1, L1, P1, op

\* The operation of the call ends; its task may be given a new value.
LEMMA GoodEnd ==
  ASSUME NEW T, NEW L, NEW P, Typed(T, L, P), NEW w \in Calls, Good(T, L, P, {w}),
         NEW task \in Tasks, NEW status \in {"paused", "failed", "committed"}
  PROVE  /\ Typed([T EXCEPT ![w.target] = task], [L EXCEPT ![w.client].status = status], P)
         /\ Good([T EXCEPT ![w.target] = task], [L EXCEPT ![w.client].status = status], P, {})
         /\ Typed(T, [L EXCEPT ![w.client].status = status], P)
         /\ Good(T, [L EXCEPT ![w.client].status = status], P, {})
<1> DEFINE k == w.client
           T1 == [T EXCEPT ![w.target] = task]
           L1 == [L EXCEPT ![k].status = status]
<1>0. k \in Clients /\ L[k] \in Operations /\ L[k].task = w.target /\ w.target \in TaskIds
  BY TaskflowAssumption DEF Good, Recorded, Calls, Operations
<1>1. /\ L1[k] \in Operations /\ L1[k].task = w.target /\ L1[k].status = status
      /\ \A l \in Clients \ {k} : L1[l] = L[l]
  BY <1>0 DEF Typed, Operations
<1>2. T1[w.target] = task /\ \A u \in TaskIds \ {w.target} : T1[u] = T[u]
  BY <1>0 DEF Typed
<1>3. Typed(T1, L1, P) /\ Typed(T, L1, P)
  BY <1>0, <1>1 DEF Typed, Operations
<1>4. /\ NoTask \notin Tasks /\ NoOp \notin Operations
      /\ \A l \in Clients : L[l] # NoOp => L[l].task \in TaskIds
      /\ \A u \in TaskIds : P[u] # NoClient => P[u] \in Clients
  BY TaskflowAssumption DEF Typed, Operations
<1> HIDE DEF T1, L1, k
<1>5. \A l \in Clients : L1[l] # NoOp =>
        T1[L1[l].task] # NoTask /\ T[L1[l].task] # NoTask /\ L1[l].status # "pending"
  BY <1>0, <1>1, <1>2, <1>4 DEF Good, Recorded, k
<1>6. \A u \in TaskIds : P[u] # NoClient =>
        T1[u] # NoTask /\ T[u] # NoTask /\ L1[P[u]] # NoOp /\ L1[P[u]].task = u
  BY <1>0, <1>1, <1>2, <1>4 DEF Good
<1> QED
  BY <1>3, <1>5, <1>6 DEF Good, T1, L1, k

\* restoreProvisionalTask.
LEMMA GoodRestore ==
  ASSUME NEW T, NEW L, NEW P, Typed(T, L, P), NEW w \in Calls, Good(T, L, P, {w})
  PROVE  /\ Typed([T EXCEPT ![w.target] = w.before], [L EXCEPT ![w.client] = w.oldOp],
                  [P EXCEPT ![w.target] = w.oldId])
         /\ Good([T EXCEPT ![w.target] = w.before], [L EXCEPT ![w.client] = w.oldOp],
                 [P EXCEPT ![w.target] = w.oldId], {})
<1> DEFINE k == w.client
           t == w.target
           T1 == [T EXCEPT ![t] = w.before]
           L1 == [L EXCEPT ![k] = w.oldOp]
           P1 == [P EXCEPT ![t] = w.oldId]
<1>0. /\ k \in Clients /\ t \in TaskIds /\ Recorded(T, L, P, w)
      /\ w.before \in Tasks \cup {NoTask} /\ w.oldOp \in Operations \cup {NoOp}
      /\ w.oldId \in Clients \cup {NoClient}
  BY DEF Good, Recorded, Calls
<1>1. Typed(T1, L1, P1)
  BY <1>0 DEF Typed
<1>2. /\ T1[t] = w.before /\ \A u \in TaskIds \ {t} : T1[u] = T[u]
      /\ L1[k] = w.oldOp /\ \A l \in Clients \ {k} : L1[l] = L[l]
      /\ P1[t] = w.oldId /\ \A u \in TaskIds \ {t} : P1[u] = P[u]
  BY <1>0 DEF Typed
<1>3. /\ \A l \in Clients : L[l] # NoOp => L[l].task \in TaskIds
      /\ \A u \in TaskIds : P[u] # NoClient => P[u] \in Clients
      /\ L[k].task = t
  BY <1>0 DEF Typed, Operations, Recorded
<1> HIDE DEF T1, L1, P1, k, t
<1>4. \A l \in Clients : L1[l] # NoOp => T1[L1[l].task] # NoTask /\ L1[l].status # "pending"
  <2>1. w.oldOp # NoOp => T1[w.oldOp.task] # NoTask /\ w.oldOp.status # "pending"
    BY <1>0, <1>2 DEF Recorded, t, k
  <2>2. ASSUME NEW l \in Clients \ {k}, L[l] # NoOp
        PROVE  T1[L[l].task] # NoTask /\ L[l].status # "pending"
    BY <1>0, <1>2, <1>3, <2>2 DEF Good, Recorded, t, k
  <2> QED
    BY <1>2, <2>1, <2>2
<1>5. \A u \in TaskIds : P1[u] # NoClient =>
        T1[u] # NoTask /\ L1[P1[u]] # NoOp /\ L1[P1[u]].task = u
  <2>1. ASSUME NEW u \in TaskIds \ {t}, P[u] # NoClient
        PROVE  T[u] # NoTask /\ P[u] \in Clients \ {k} /\ L[P[u]] # NoOp /\ L[P[u]].task = u
    BY <1>3, <2>1 DEF Good
  <2>2. w.oldId # NoClient => w.before # NoTask /\ L1[w.oldId] # NoOp /\ L1[w.oldId].task = t
    BY <1>0, <1>2 DEF Recorded, t, k
  <2> QED
    BY <1>2, <2>1, <2>2
<1> QED
  BY <1>1, <1>4, <1>5 DEF Good, T1, L1, P1, k, t

\* A task that exists is paused, whoever works on it.
LEMMA GoodPaused ==
  ASSUME NEW T, NEW L, NEW P, Typed(T, L, P), NEW W, Good(T, L, P, W),
         NEW T1, T1 \in [TaskIds -> Tasks \cup {NoTask}],
         \A t \in TaskIds : (T[t] = NoTask <=> T1[t] = NoTask)
                            /\ (T[t] # NoTask => T1[t].work = T[t].work)
  PROVE  Typed(T1, L, P) /\ Good(T1, L, P, W)
<1>1. \A l \in Clients : L[l] # NoOp => L[l].task \in TaskIds
  BY DEF Typed, Operations
<1> QED
  BY <1>1 DEF Good, Typed, Recorded

\* Changing only the status of an operation that nobody works on.
LEMMA GoodUnworked ==
  ASSUME NEW T, NEW L, NEW P, Typed(T, L, P), NEW W, Good(T, L, P, W),
         NEW L1, L1 \in [Clients -> Operations \cup {NoOp}],
         \A k \in Clients : /\ L[k] = NoOp <=> L1[k] = NoOp
                            /\ L[k] # NoOp => L1[k].task = L[k].task
                                              /\ (L1[k] = L[k] \/ L1[k].status # "pending")
                            /\ (\E w \in W : w.client = k) => L1[k] # L[k]
  PROVE  Typed(T, L1, P) /\ Good(T, L1, P, {})
<1>1. \A u \in TaskIds : P[u] # NoClient => P[u] \in Clients
  BY DEF Typed
<1> QED
  BY <1>1 DEF Good, Typed

-----------------------------------------------------------------------------
(***************************************************************************)
(* Types.  Those of tasks and ledger depend on what a call has recorded    *)
(* and come with TaskInv below; the others stand alone.                    *)
(***************************************************************************)
TaskTypes ==
  /\ tasks \in [Chats -> [TaskIds -> Tasks \cup {NoTask}]]
  /\ ledger \in [Chats -> [Clients -> Operations \cup {NoOp}]]
  /\ lastOp \in [Chats -> [TaskIds -> Clients \cup {NoClient}]]

CallTypes ==
  /\ pc \in [Ops -> Phases]
  /\ call \in [Ops -> Calls]
  /\ revoked \subseteq Ops /\ results \subseteq Ops

LEMMA TypeParts == TypeOK <=> MgrTypeOK /\ ChatsTypeOK /\ TaskTypes /\ CallTypes
  BY DEF TypeOK, TaskTypes, CallTypes

LEMMA NewCallType == \A o \in Ops : NewCall(o) \in Calls
  BY TaskflowAssumption DEF NewCall, Calls

LEMMA ForgetType ==
  ASSUME CallTypes, NEW o \in Ops, Forget(o)
  PROVE  call' \in [Ops -> Calls]
  BY NewCallType DEF CallTypes, Forget

LEMMA ReclaimedType ==
  ASSUME TaskTypes
  PROVE  /\ Reclaimed \in [Chats -> [Clients -> Operations \cup {NoOp}]]
         /\ \A c \in Chats, k \in Clients :
              /\ Reclaimed[c][k] = NoOp <=> ledger[c][k] = NoOp
              /\ ledger[c][k] # NoOp => Reclaimed[c][k].task = ledger[c][k].task
<1> DEFINE dead == {o \in Live(pending) : o \in abandoned}
           Dead(c, k) == ledger[c][k] # NoOp /\ \E o \in dead : ChatOf[o] = c /\ call[o].client = k
           New(c, k) == IF Dead(c, k) THEN [ledger[c][k] EXCEPT !.status = "failed"] ELSE ledger[c][k]
<1>1. Reclaimed = [c \in Chats |-> [k \in Clients |-> New(c, k)]]
  BY DEF Reclaimed
<1>2. ASSUME NEW c \in Chats, NEW k \in Clients
      PROVE  /\ New(c, k) \in Operations \cup {NoOp}
             /\ New(c, k) = NoOp <=> ledger[c][k] = NoOp
             /\ ledger[c][k] # NoOp => New(c, k).task = ledger[c][k].task
  <2>1. ledger[c][k] \in Operations \cup {NoOp}
    BY DEF TaskTypes
  <2>2. ledger[c][k] \in Operations =>
          /\ [ledger[c][k] EXCEPT !.status = "failed"] \in Operations
          /\ [ledger[c][k] EXCEPT !.status = "failed"].task = ledger[c][k].task
    BY DEF Operations
  <2> QED
    BY <2>1, <2>2, TaskflowAssumption
<1> HIDE DEF New
<1> QED
  BY <1>1, <1>2

\* The tasks a claim may work on.
LEMMA TargetsType ==
  ASSUME NEW o \in Ops
  PROVE  /\ Targets(o) \subseteq TaskIds
         /\ \A t \in Targets(o) : Old(o) # NoOp => Old(o).task = t /\ tasks[ChatOf[o]][t] # NoTask
  BY DEF Targets, Open

LEMMA ClaimTypes ==
  ASSUME TypeOK, NEW o \in Ops, Claim(o) \/ ClaimRefusal(o)
  PROVE  MgrTypeOK' /\ ChatsTypeOK' /\ CallTypes'
<1>1. MgrTypeOK /\ ChatsTypeOK /\ TaskTypes /\ CallTypes
  BY TypeParts
<1>2. Candidate \in [Sessions -> Ops \cup {NoLease}] /\ SessionOf[o] \in Sessions
  BY <1>1, CandidateType, SessionOfType
<1>3. ChatOf[o] \in Chats /\ call[o].client \in Clients
  BY <1>1, ChatsAssumption DEF CallTypes, Calls
<1>4. Publish([Candidate EXCEPT ![SessionOf[o]] = o]) /\ UNCHANGED <<chatVars, revoked, results>>
      /\ pc' = [pc EXCEPT ![o] = "claimed"]
  BY DEF Claim, ClaimRefusal, Goto
<1>5. [Candidate EXCEPT ![SessionOf[o]] = o] \in [Sessions -> Ops \cup {NoLease}]
  BY <1>2
<1>6. MgrTypeOK'
  BY <1>1, <1>4, <1>5, PublishKeepsTypes
<1>7. ChatsTypeOK'
  BY <1>1, <1>4 DEF ChatsTypeOK, chatVars
<1>8. memory[SessionOf[o]] \subseteq Ops /\ memory[ProjectOf[ChatOf[o]]] \subseteq Ops
  BY <1>1, <1>2, <1>3, ChatsAssumption DEF ChatsTypeOK
<1>9. Reads(o) \in Calls
  <2>1. call[o] \in Calls
    BY <1>1 DEF CallTypes
  <2> QED
    BY <1>8, <2>1 DEF Reads, Calls
<1>10. call' \in [Ops -> Calls]
  <2>1. CASE ClaimRefusal(o)
    BY <1>1, <1>9, <2>1 DEF ClaimRefusal, CallTypes
  <2>2. CASE Claim(o)
    <3>1. PICK t \in TaskIds :
            call' = [call EXCEPT ![o] =
              [Reads(o) EXCEPT !.target = t, !.before = tasks[ChatOf[o]][t],
                               !.oldOp = Reclaimed[ChatOf[o]][call[o].client],
                               !.oldId = lastOp[ChatOf[o]][t]]]
      BY <2>2, TargetsType DEF Claim
    <3>2. /\ tasks[ChatOf[o]][t] \in Tasks \cup {NoTask}
          /\ Reclaimed[ChatOf[o]][call[o].client] \in Operations \cup {NoOp}
          /\ lastOp[ChatOf[o]][t] \in Clients \cup {NoClient}
      BY <1>1, <1>3, ReclaimedType DEF TaskTypes
    <3>3. [Reads(o) EXCEPT !.target = t, !.before = tasks[ChatOf[o]][t],
                           !.oldOp = Reclaimed[ChatOf[o]][call[o].client],
                           !.oldId = lastOp[ChatOf[o]][t]] \in Calls
      BY <1>9, <3>2 DEF Calls
    <3> QED
      BY <1>1, <3>1, <3>3 DEF CallTypes
  <2> QED
    BY <2>1, <2>2
<1> QED
  BY <1>1, <1>4, <1>6, <1>7, <1>10 DEF CallTypes, Phases

LEMMA CommitTypes ==
  ASSUME TypeOK, NEW o \in Ops,
         CommitTask(o) \/ CommitRefusal(o) \/ CommitNothing(o) \/ CommitFailure(o) \/ CommitPair(o)
  PROVE  MgrTypeOK' /\ ChatsTypeOK' /\ CallTypes'
<1>1. MgrTypeOK /\ ChatsTypeOK /\ TaskTypes /\ CallTypes
  BY TypeParts
<1>2. Candidate \in [Sessions -> Ops \cup {NoLease}] /\ SessionOf[o] \in Sessions
  BY <1>1, CandidateType, SessionOfType
<1>3. ChatOf[o] \in Chats /\ call[o].client \in Clients
  BY <1>1, ChatsAssumption DEF CallTypes, Calls
<1>4. Release(o)
  BY DEF CommitTask, CommitRefusal, CommitNothing, CommitFailure, CommitPair
<1>5. [Candidate EXCEPT ![SessionOf[o]] = NoLease] \in [Sessions -> Ops \cup {NoLease}]
  BY <1>2
<1>6. MgrTypeOK'
  BY <1>1, <1>4, <1>5, PublishKeepsTypes DEF Release
<1>7. Extracted(o) \in [Sessions \cup Projects -> SUBSET Ops]
  <2>1. call[o].global \cup {o} \subseteq Ops /\ call[o].project \cup {o} \subseteq Ops
    BY <1>1 DEF CallTypes, Calls
  <2> QED
    BY <1>1, <2>1 DEF Extracted, ChatsTypeOK
<1>8. memory' \in [Sessions \cup Projects -> SUBSET Ops]
  BY <1>1, <1>7
     DEF CommitTask, CommitRefusal, CommitNothing, CommitFailure, CommitPair, ChatsTypeOK
<1>9. /\ messages' \in [Chats -> Seq(Messages)] /\ title' \in [Chats -> TitleStatuses]
      /\ pc' \in [Ops -> Phases]
  <2>1. CASE StorePair(o)
    <3>1. <<UserMessage(call[o].client, "success"), Reply>> \in Seq(Messages)
      BY <1>3 DEF Messages
    <3>2. messages[ChatOf[o]] \o <<UserMessage(call[o].client, "success"), Reply>> \in Seq(Messages)
      BY <1>1, <1>3, <3>1 DEF ChatsTypeOK
    <3>3. messages' \in [Chats -> Seq(Messages)]
      BY <1>1, <2>1, <3>2 DEF StorePair, ChatsTypeOK
    <3>4. title' \in [Chats -> TitleStatuses]
      BY <1>1, <2>1 DEF StorePair, TitleClaimed, ChatsTypeOK, TitleStatuses
    <3>5. pc' \in [Ops -> Phases]
      BY <1>1, <2>1 DEF StorePair, Goto, CallTypes, Phases
    <3> QED
      BY <3>3, <3>4, <3>5
  <2>2. CASE UNCHANGED <<messages, title>> /\ Goto(o, "failing")
    BY <1>1, <2>2 DEF ChatsTypeOK, Goto, CallTypes, Phases
  <2> QED
    BY <2>1, <2>2 DEF CommitTask, CommitRefusal, CommitNothing, CommitFailure, CommitPair
<1> QED
  BY <1>1, <1>4, <1>6, <1>8, <1>9 DEF Release, ChatsTypeOK, CallTypes

LEMMA ResumeType ==
  ASSUME TaskTypes, CallTypes, NEW o \in Ops, CheckResume(o)
  PROVE  /\ call' \in [Ops -> Calls] /\ call'[o].target = call[o].target
         /\ \A q \in Ops \ {o} : call'[q] = call[q]
<1> DEFINE c == ChatOf[o]
           resolved(t, b, k, p) == [call EXCEPT ![o].client = k, ![o].resumed = t,
                                                ![o].refused = b, ![o].paused = p]
<1>1. PICK t \in {u \in TaskIds : tasks[c][u] # NoTask}, b \in BOOLEAN :
        LET last == lastOp[c][t]
            open == IF last # NoClient /\ ledger[c][last].status \in {"paused", "failed"}
                      THEN {last} ELSE {}
        IN \E k \in open \cup {ClientOf[o]} : call' = resolved(t, b, k, tasks[c][t].status = "paused")
  BY Zenon DEF CheckResume
<1> DEFINE last == lastOp[c][t]
           open == IF last # NoClient /\ ledger[c][last].status \in {"paused", "failed"}
                     THEN {last} ELSE {}
           was == tasks[c][t].status = "paused"
<1>2. PICK k \in open \cup {ClientOf[o]} : call' = resolved(t, b, k, was)
  BY <1>1, Zenon
<1>3. k \in Clients
  <2>1. c \in Chats /\ ClientOf[o] \in Clients
    BY ChatsAssumption, TaskflowAssumption
  <2>2. last \in Clients \cup {NoClient}
    BY <2>1 DEF TaskTypes
  <2> QED
    BY <2>1, <2>2
<1>4. was \in BOOLEAN
  OBVIOUS
<1> HIDE DEF was
<1>5. call \in [Ops -> Calls]
  BY DEF CallTypes
<1> DEFINE f1 == [call EXCEPT ![o].client = k]
           f2 == [f1 EXCEPT ![o].resumed = t]
           f3 == [f2 EXCEPT ![o].refused = b]
           f4 == [f3 EXCEPT ![o].paused = was]
           Same(f) == f[o].target = call[o].target /\ \A q \in Ops \ {o} : f[q] = call[q]
<1>6. f1 \in [Ops -> Calls] /\ Same(f1)
  BY <1>3, <1>5 DEF Calls
<1> HIDE DEF f1
<1>7. f2 \in [Ops -> Calls] /\ Same(f2)
  BY <1>6 DEF Calls
<1> HIDE DEF f2
<1>8. f3 \in [Ops -> Calls] /\ Same(f3)
  BY <1>7 DEF Calls
<1> HIDE DEF f3
<1>9. f4 \in [Ops -> Calls] /\ Same(f4)
  BY <1>4, <1>8 DEF Calls
<1>10. call' = f4
  BY <1>2, Zenon DEF f1, f2, f3
<1> HIDE DEF f4
<1> QED
  BY <1>9, <1>10

LEMMA StepKeepsOtherTypes ==
  ASSUME TypeOK, [Next]_vars
  PROVE  MgrTypeOK' /\ ChatsTypeOK' /\ CallTypes'
<1> DEFINE Goal == MgrTypeOK' /\ ChatsTypeOK' /\ CallTypes'
<1>0. MgrTypeOK /\ ChatsTypeOK /\ TaskTypes /\ CallTypes
  BY TypeParts
<1>s. Candidate \in [Sessions -> Ops \cup {NoLease}]
  BY <1>0, CandidateType
<1>u. UNCHANGED mgrVars => MgrTypeOK'
  BY <1>0 DEF MgrTypeOK, mgrVars
<1>v. UNCHANGED chatVars => ChatsTypeOK'
  BY <1>0 DEF ChatsTypeOK, chatVars
<1>c. UNCHANGED callVars => CallTypes'
  BY <1>0 DEF CallTypes, callVars
<1>1. ASSUME NEW o \in Ops, CheckInput(o) PROVE Goal
  <2>1. PICK b \in BOOLEAN : call' = [call EXCEPT ![o].refused = b]
    BY <1>1 DEF CheckInput
  <2>2. [call[o] EXCEPT !.refused = b] \in Calls
    BY <1>0 DEF CallTypes, Calls
  <2>3. call' \in [Ops -> Calls]
    BY <1>0, <2>1, <2>2 DEF CallTypes
  <2> QED
    BY <1>0, <1>1, <1>u, <1>v, <2>3 DEF CheckInput, Step, CallTypes, Phases
<1>2. ASSUME NEW o \in Ops, CheckResume(o) PROVE Goal
  <2>1. call' \in [Ops -> Calls]
    BY <1>0, <1>2, ResumeType
  <2> QED
    BY <1>0, <1>2, <1>u, <1>v, <2>1 DEF CheckResume, Step, CallTypes, Phases
<1>3. ASSUME NEW o \in Ops, CheckFails(o) \/ Answer(o) \/ CommitRefused(o) PROVE Goal
  BY <1>0, <1>3, <1>u, <1>v DEF CheckFails, Answer, CommitRefused, Step, CallTypes, Phases
<1>4. ASSUME NEW o \in Ops, ClaimAnswered(o) \/ RepauseFails(o) PROVE Goal
  BY <1>0, <1>4, <1>u, <1>v, ForgetType DEF ClaimAnswered, RepauseFails, Step, CallTypes, Phases
<1>5. ASSUME NEW o \in Ops, ClaimFails(o) PROVE Goal
  <2>1. call' \in [Ops -> Calls]
    BY <1>0, <1>5, ForgetType DEF ClaimFails, CallTypes
  <2> QED
    BY <1>0, <1>5, <1>u, <1>v, <2>1 DEF ClaimFails, Failed, Step, CallTypes, Phases
<1>6. ASSUME NEW o \in Ops, Attach(o) PROVE Goal
  BY <1>0, <1>6, <1>v, AttachKeepsTypes DEF Attach, Step, CallTypes, Phases
<1>7. ASSUME NEW o \in Ops, StartTitle(o) PROVE Goal
  BY <1>0, <1>7, StartWorkerKeepsTypes DEF StartTitle, Step, CallTypes, Phases
<1>8. ASSUME NEW o \in Ops, Detach(o) PROVE Goal
  <2>1. call' \in [Ops -> Calls]
    BY <1>0, <1>8, ForgetType DEF Detach, CallTypes
  <2> QED
    BY <1>0, <1>8, <1>v, <2>1, DetachKeepsTypes DEF Detach, Failed, Step, CallTypes, Phases
<1>9. ASSUME NEW o \in Ops, Repause(o) PROVE Goal
  BY <1>0, <1>9, <1>s, <1>v, PublishKeepsTypes, ForgetType DEF Repause, Step, CallTypes, Phases
<1>10. ASSUME NEW c \in Chats, NEW t \in TaskIds, PauseTask(c, t) PROVE Goal
  <2> DEFINE hit == {o \in Live(Candidate) : ChatOf[o] = c /\ call[o].target = t}
             leases == [Candidate EXCEPT ![OwnerOf[ProjectOf[c]]] = IF @ \in hit THEN NoLease ELSE @]
  <2>1. leases \in [Sessions -> Ops \cup {NoLease}] /\ hit \subseteq Ops
    BY <1>s DEF Live
  <2>2. Publish(leases) /\ revoked' = revoked \cup hit /\ UNCHANGED <<chatVars, pc, call, results>>
    BY <1>10 DEF PauseTask
  <2> QED
    BY <1>0, <1>v, <2>1, <2>2, PublishKeepsTypes DEF CallTypes
<1>11. ASSUME NEW c \in Chats, DeleteChat(c) PROVE Goal
  <2>1. {o \in Live(Candidate) : ChatOf[o] \in {c}} \subseteq Ops
    BY <1>s DEF Live
  <2> QED
    BY <1>0, <1>11, <2>1, DeletedChatKeepsTypes DEF DeleteChat, Dropped, CallTypes
<1>12. ASSUME NEW c \in Chats, TitleWork(c) PROVE Goal
  BY <1>0, <1>12, <1>c, TitleAnsweredKeepsTypes, TitleSavedKeepsTypes DEF TitleWork
<1>13. ASSUME Mutate PROVE Goal
  BY <1>0, <1>13, <1>s, <1>v, <1>c, PublishKeepsTypes DEF Mutate
<1>14. ASSUME Close PROVE Goal
  BY <1>0, <1>14, <1>c, CloseStoreKeepsTypes DEF Close
<1>15. ASSUME Restart PROVE Goal
  BY <1>0, <1>15, ReopenKeepsAllTypes, NewCallType DEF Restart, CallTypes, Phases
<1>16. ASSUME UNCHANGED vars PROVE Goal
  BY <1>16, <1>u, <1>v, <1>c DEF vars
<1> HIDE DEF Goal
<1>17. ASSUME NEW o \in Ops, Work(o) PROVE Goal
  BY <1>3, <1>6, <1>7, <1>8, <1>17, CommitTypes DEF Work, Goal
<1> QED
  BY <1>1, <1>2, <1>3, <1>4, <1>5, <1>9, <1>10, <1>11, <1>12, <1>13, <1>14, <1>15, <1>16,
     <1>17, ClaimTypes DEF Next, Goal

-----------------------------------------------------------------------------
(***************************************************************************)
(* The lease protocol, as in ConversationProofs.                           *)
(***************************************************************************)
LEMMA SameManager ==
  /\ Leases!MgrInit = MgrInit
  /\ Leases!Candidate = Candidate
  /\ \A leases : Leases!Publish(leases) = Publish(leases)
  /\ \A s, o : Leases!AttachLease(s, o) = AttachLease(s, o)
  /\ \A o : Leases!DetachLease(o) = DetachLease(o)
  /\ Leases!CloseManager = CloseManager
  /\ Leases!ReopenManager = ReopenManager
  /\ Leases!mgrVars = mgrVars
  BY DEF MgrInit, Leases!MgrInit, Candidate, Leases!Candidate, Publish, Leases!Publish,
         AttachLease, Leases!AttachLease, DetachLease, Leases!DetachLease, CloseManager,
         Leases!CloseManager, ReopenManager, Leases!ReopenManager, mgrVars, Leases!mgrVars,
         Live, Leases!Live, Owns, Leases!Owns

LEMMA ChatHasOneSession ==
  /\ \A c \in Chats, o \in Ops : ChatOf[o] = c => SessionOf[o] = OwnerOf[ProjectOf[c]]
  /\ \A c \in Chats : OwnerOf[ProjectOf[c]] \in Sessions
  BY SessionOfDef, ChatsAssumption

\* The live calls of one session: a pause or a deletion hits one at most.
LEMMA HitIsOneCall ==
  ASSUME MgrTypeOK, LeasesAreOwn, NEW s0 \in Sessions, NEW hit \in SUBSET Live(Candidate),
         \A o \in hit : SessionOf[o] = s0
  PROVE  /\ hit \subseteq Ops
         /\ hit # {} => hit = {Candidate[s0]} /\ Candidate[s0] # NoLease
         /\ Candidate[s0] \in hit <=> hit # {}
<1>1. \A s \in Sessions : Candidate[s] # NoLease => Candidate[s] \in Ops /\ SessionOf[Candidate[s]] = s
  BY DEF MgrTypeOK, LeasesAreOwn, Candidate
<1>2. \A o \in hit : o \in Ops /\ o = Candidate[s0] /\ o # NoLease
  BY <1>1 DEF Live
<1> QED
  BY <1>2

LEMMA PauseFollowsLeases ==
  ASSUME TypeOK, Leases!IInv, NEW c \in Chats, NEW t \in TaskIds, PauseTask(c, t)
  PROVE  \E s \in Sessions : Leases!Revoke(s) \/ Leases!Mutate
<1> DEFINE s0 == OwnerOf[ProjectOf[c]]
           hit == {o \in Live(Candidate) : ChatOf[o] = c /\ call[o].target = t}
<1>1. MgrTypeOK /\ LeasesAreOwn
  BY DEF TypeOK, Leases!IInv, Leases!LeaseIsWorkedOrReclaimable, LeasesAreOwn
<1>2. Candidate \in [Sessions -> Ops \cup {NoLease}]
  BY <1>1, CandidateType
<1>3. hit \in SUBSET Live(Candidate) /\ s0 \in Sessions /\ \A o \in hit : SessionOf[o] = s0
  BY <1>2, ChatHasOneSession DEF Live
<1>4. /\ hit # {} => hit = {Candidate[s0]} /\ Candidate[s0] # NoLease
      /\ Candidate[s0] \in hit <=> hit # {}
  BY <1>1, <1>3, HitIsOneCall
<1>5. /\ Publish([Candidate EXCEPT ![s0] = IF @ \in hit THEN NoLease ELSE @])
      /\ revoked' = revoked \cup hit /\ UNCHANGED <<pc, results>>
  BY DEF PauseTask
<1>6. UNCHANGED [o \in Ops |-> ProtocolPhase(o)]
  BY <1>5 DEF ProtocolPhase
<1> HIDE DEF hit, s0
<1>7. CASE hit = {}
  <2>1. [Candidate EXCEPT ![s0] = IF @ \in hit THEN NoLease ELSE @] = Candidate
    BY <1>2, <1>3, <1>7
  <2> QED
    BY <1>3, <1>5, <1>6, <1>7, <2>1, SameManager DEF Leases!Mutate
<1>8. CASE hit # {}
  <2>1. [Candidate EXCEPT ![s0] = IF @ \in hit THEN NoLease ELSE @] = [Candidate EXCEPT ![s0] = NoLease]
    BY <1>2, <1>3, <1>4, <1>8
  <2> QED
    BY <1>3, <1>4, <1>5, <1>6, <1>8, <2>1, SameManager DEF Leases!Revoke
<1> QED
  BY <1>7, <1>8

LEMMA DeletionFollowsLeases ==
  ASSUME TypeOK, Leases!IInv, NEW c \in Chats, DeleteChat(c)
  PROVE  \E s \in Sessions : Leases!Revoke(s) \/ Leases!Mutate
<1> DEFINE s0 == OwnerOf[ProjectOf[c]]
           hit == {o \in Live(Candidate) : ChatOf[o] \in {c}}
<1>1. MgrTypeOK /\ LeasesAreOwn
  BY DEF TypeOK, Leases!IInv, Leases!LeaseIsWorkedOrReclaimable, LeasesAreOwn
<1>2. Candidate \in [Sessions -> Ops \cup {NoLease}]
  BY <1>1, CandidateType
<1>3. /\ hit \in SUBSET Live(Candidate) /\ s0 \in Sessions /\ \A o \in hit : SessionOf[o] = s0
      /\ \A o \in Ops : ChatOf[o] \in {c} => SessionOf[o] = s0
  BY <1>2, ChatHasOneSession DEF Live
<1>4. /\ hit # {} => hit = {Candidate[s0]} /\ Candidate[s0] # NoLease
      /\ Candidate[s0] \in hit <=> hit # {}
  BY <1>1, <1>3, HitIsOneCall
<1>5. Publish(Released({c})) /\ revoked' = revoked \cup hit /\ UNCHANGED <<pc, results>>
  BY DEF DeleteChat, DeletedChat, RemoveChats, Dropped
<1>6. UNCHANGED [o \in Ops |-> ProtocolPhase(o)]
  BY <1>5 DEF ProtocolPhase
<1>7. Hits({c}, s0) <=> Candidate[s0] \in hit
  BY <1>2, <1>3 DEF Hits, Live
<1>8. /\ Hits({c}, s0) => Released({c}) = [Candidate EXCEPT ![s0] = NoLease]
      /\ ~Hits({c}, s0) => Released({c}) = Candidate
  BY <1>1, <1>3, ReleasedIsOneLease
<1> HIDE DEF hit, s0
<1>9. CASE hit = {}
  <2>1. revoked' = revoked
    BY <1>5, <1>9
  <2> QED
    BY <1>3, <1>4, <1>5, <1>6, <1>7, <1>8, <1>9, <2>1, SameManager DEF Leases!Mutate
<1>10. CASE hit # {}
  BY <1>3, <1>4, <1>5, <1>6, <1>7, <1>8, <1>10, SameManager DEF Leases!Revoke
<1> QED
  BY <1>9, <1>10

LEMMA StepFollowsLeases ==
  ASSUME TypeOK, CallTypes', Leases!IInv, [Next]_vars
  PROVE  [Leases!Next]_(Leases!vars)
<1> DEFINE phase == [o \in Ops |-> ProtocolPhase(o)]
           As(p) == IF p = "checked" THEN "idle"
                    ELSE IF p \in {"titling", "failing"} THEN "returning"
                    ELSE IF p = "repausing" THEN "exited" ELSE p
<1>0. pc \in [Ops -> Phases] /\ pc' \in [Ops -> Phases]
  BY DEF TypeOK, CallTypes
<1>p. ASSUME NEW o \in Ops, NEW to, pc' = [pc EXCEPT ![o] = to]
      PROVE  /\ ProtocolPhase(o) = As(pc[o]) /\ ProtocolPhase(o)' = As(to)
             /\ phase' = [phase EXCEPT ![o] = As(to)]
  BY <1>0, <1>p DEF ProtocolPhase
<1>u. UNCHANGED callVars => UNCHANGED <<phase, revoked, results>>
  BY DEF callVars, ProtocolPhase
<1>m. UNCHANGED mgrVars => UNCHANGED Leases!mgrVars
  BY DEF mgrVars, Leases!mgrVars
<1>v. UNCHANGED <<mgrVars, phase, revoked, results>> => UNCHANGED Leases!vars
  BY DEF Leases!vars, mgrVars, Leases!mgrVars
<1>k. ASSUME NEW o \in Ops, NEW to, pc' = [pc EXCEPT ![o] = to], As(pc[o]) = As(to)
      PROVE  UNCHANGED phase
  <2>1. phase[o] = As(to) /\ phase' = [phase EXCEPT ![o] = As(to)]
    BY <1>p, <1>k
  <2>2. phase = [q \in Ops |-> phase[q]]
    OBVIOUS
  <2> HIDE DEF phase, As
  <2> QED
    BY <2>1, <2>2
<1> USE DEF Leases!Step, Step
<1>1. ASSUME NEW o \in Ops, CheckInput(o) \/ CheckResume(o) PROVE UNCHANGED Leases!vars
  <2>1. UNCHANGED phase
    BY <1>1, <1>k DEF CheckInput, CheckResume
  <2> QED
    BY <1>1, <1>v, <2>1 DEF CheckInput, CheckResume
<1>2. ASSUME NEW o \in Ops, CheckFails(o) PROVE Leases!ClaimRefused(o)
  BY <1>2, <1>p, <1>m DEF CheckFails, Leases!ClaimRefused
<1>3. ASSUME NEW o \in Ops, Claim(o) \/ ClaimRefusal(o) PROVE Leases!Claim(o)
  <2>1. /\ pc[o] = "checked" /\ pc' = [pc EXCEPT ![o] = "claimed"]
        /\ Candidate[SessionOf[o]] = NoLease
        /\ Publish([Candidate EXCEPT ![SessionOf[o]] = o]) /\ UNCHANGED <<revoked, results>>
    BY <1>3 DEF Claim, ClaimRefusal, Claimable, Goto
  <2> QED
    BY <2>1, <1>p, SameManager DEF Leases!Claim
<1>4. ASSUME NEW o \in Ops, ClaimAnswered(o) \/ ClaimFails(o) PROVE Leases!ClaimRefused(o)
  <2>1. /\ pc[o] = "checked" /\ UNCHANGED <<mgrVars, revoked, results>>
        /\ \E to \in {"exited", "repausing"} : pc' = [pc EXCEPT ![o] = to]
    BY <1>4 DEF ClaimAnswered, ClaimFails, Failed
  <2> QED
    BY <2>1, <1>p, <1>m DEF Leases!ClaimRefused
<1>5. ASSUME NEW o \in Ops, Attach(o) PROVE Leases!Attach(o)
  BY <1>5, <1>p, SameManager DEF Attach, Leases!Attach
<1>6. ASSUME NEW o \in Ops, Answer(o) PROVE Leases!Answer(o)
  BY <1>6, <1>p, <1>m DEF Answer, Leases!Answer
<1>7. ASSUME NEW o \in Ops, Release(o), \E to \in {"titling", "returning", "failing"} : Goto(o, to)
      PROVE  Leases!Commit(o)
  BY <1>7, <1>p, SameManager DEF Release, Goto, Leases!Commit
<1>8. ASSUME NEW o \in Ops, CommitTask(o) \/ CommitRefusal(o) \/ CommitPair(o)
      PROVE  Leases!Commit(o)
  <2>1. Release(o) /\ StorePair(o)
    BY <1>8 DEF CommitTask, CommitRefusal, CommitPair
  <2>2. \E to \in {"titling", "returning", "failing"} : Goto(o, to)
    BY <2>1 DEF StorePair
  <2> QED
    BY <1>7, <2>1, <2>2
<1>9. ASSUME NEW o \in Ops, CommitNothing(o) \/ CommitFailure(o) PROVE Leases!Commit(o)
  BY <1>7, <1>9 DEF CommitNothing, CommitFailure
<1>10. ASSUME NEW o \in Ops, CommitRefused(o) PROVE Leases!CommitRefused(o)
  <2>1. /\ pc[o] = "answered" /\ UNCHANGED <<mgrVars, revoked, results>>
        /\ \E to \in {"failing", "returning"} : pc' = [pc EXCEPT ![o] = to]
    BY <1>10 DEF CommitRefused
  <2> QED
    BY <2>1, <1>p, <1>m DEF Leases!CommitRefused
<1>11. ASSUME NEW o \in Ops, StartTitle(o) \/ RepauseFails(o) PROVE UNCHANGED Leases!vars
  <2>1. UNCHANGED phase
    BY <1>11, <1>k DEF StartTitle, RepauseFails
  <2> QED
    BY <1>11, <1>v, <2>1 DEF StartTitle, StartWorker, RepauseFails
<1>12. ASSUME NEW o \in Ops, Detach(o) PROVE Leases!Detach(o)
  <2>1. /\ pc[o] \in {"returning", "failing"} /\ DetachLease(o) /\ UNCHANGED <<revoked, results>>
        /\ \E to \in {"exited", "repausing"} : pc' = [pc EXCEPT ![o] = to]
    BY <1>12 DEF Detach, Failed
  <2> QED
    BY <2>1, <1>p, SameManager DEF Leases!Detach
<1>13. ASSUME NEW o \in Ops, Repause(o) PROVE Leases!Mutate
  <2>1. UNCHANGED phase
    BY <1>13, <1>k DEF Repause
  <2> QED
    BY <1>13, <2>1, SameManager DEF Repause, Leases!Mutate
<1>14. ASSUME NEW c \in Chats, TitleWork(c) PROVE Leases!Mutate \/ UNCHANGED Leases!vars
  BY <1>14, <1>u, <1>v, SameManager
     DEF TitleWork, TitleSaved, TitleAnswered, TitleNotSaved, Leases!Mutate
<1>15. ASSUME Mutate PROVE Leases!Mutate
  BY <1>15, <1>u, SameManager DEF Mutate, Leases!Mutate
<1>16. ASSUME Close PROVE Leases!Close
  BY <1>16, <1>u, SameManager DEF Close, CloseStore, Leases!Close
<1>17. ASSUME Restart PROVE Leases!Restart
  BY <1>0, <1>17, SameManager DEF Restart, Reopen, Leases!Restart, ProtocolPhase, Phases
<1>18. ASSUME UNCHANGED vars PROVE UNCHANGED Leases!vars
  BY <1>18, <1>u, <1>v DEF vars
<1>19. ASSUME NEW o \in Ops, Work(o) PROVE Leases!Work(o) \/ UNCHANGED Leases!vars
  BY <1>5, <1>6, <1>8, <1>9, <1>10, <1>11, <1>12, <1>19 DEF Work, Leases!Work
<1> QED
  BY <1>1, <1>2, <1>3, <1>4, <1>11, <1>13, <1>14, <1>15, <1>16, <1>17, <1>18, <1>19,
     PauseFollowsLeases, DeletionFollowsLeases DEF Next, Leases!Next

LEMMA InitFollowsLeases == Init => Leases!Init
  BY DEF Init, Leases!Init, MgrInit, Leases!MgrInit, ProtocolPhase

LEMMA SameProtocol ==
  /\ Leases!Init => Protocol!Init
  /\ Leases!Next => Protocol!Next
  /\ UNCHANGED Leases!vars => UNCHANGED Protocol!vars
<1>1. Leases!Init => Protocol!Init
  BY DEF Leases!Init, Protocol!Init, Leases!MgrInit, Protocol!MgrInit
<1>2. ASSUME NEW o \in Ops, Leases!Claim(o) PROVE Protocol!Claim(o)
  BY <1>2
     DEF Leases!Claim, Protocol!Claim, Leases!Step, Protocol!Step, Leases!Publish,
         Protocol!Publish, Leases!Candidate, Protocol!Candidate, Leases!Live,
         Protocol!Live
<1>3. ASSUME NEW o \in Ops, Leases!ClaimRefused(o) PROVE Protocol!ClaimRefused(o)
  BY <1>3
     DEF Leases!ClaimRefused, Protocol!ClaimRefused, Leases!Step, Protocol!Step,
         Leases!mgrVars, Protocol!mgrVars
<1>4. ASSUME NEW o \in Ops, Leases!Attach(o) PROVE Protocol!Attach(o)
  BY <1>4
     DEF Leases!Attach, Protocol!Attach, Leases!Step, Protocol!Step, Leases!AttachLease,
         Protocol!AttachLease, Leases!Owns, Protocol!Owns
<1>5. ASSUME NEW o \in Ops, Leases!Answer(o) PROVE Protocol!Answer(o)
  BY <1>5
     DEF Leases!Answer, Protocol!Answer, Leases!Step, Protocol!Step, Leases!mgrVars,
         Protocol!mgrVars
<1>6. ASSUME NEW o \in Ops, Leases!Commit(o) PROVE Protocol!Commit(o)
  BY <1>6
     DEF Leases!Commit, Protocol!Commit, Leases!Step, Protocol!Step, Leases!Publish,
         Protocol!Publish, Leases!Candidate, Protocol!Candidate, Leases!Live,
         Protocol!Live
<1>7. ASSUME NEW o \in Ops, Leases!CommitRefused(o) PROVE Protocol!CommitRefused(o)
  BY <1>7
     DEF Leases!CommitRefused, Protocol!CommitRefused, Leases!Step, Protocol!Step,
         Leases!mgrVars, Protocol!mgrVars
<1>8. ASSUME NEW o \in Ops, Leases!Detach(o) PROVE Protocol!Detach(o)
  BY <1>8
     DEF Leases!Detach, Protocol!Detach, Leases!Step, Protocol!Step, Leases!DetachLease,
         Protocol!DetachLease, Leases!Live, Protocol!Live
<1>9. ASSUME NEW s \in Sessions, Leases!Revoke(s) PROVE Protocol!Revoke(s)
  BY <1>9
     DEF Leases!Revoke, Protocol!Revoke, Leases!Publish, Protocol!Publish,
         Leases!Candidate, Protocol!Candidate, Leases!Live, Protocol!Live
<1>10. Leases!Mutate => Protocol!Mutate
  BY DEF Leases!Mutate, Protocol!Mutate, Leases!Publish, Protocol!Publish,
         Leases!Candidate, Protocol!Candidate, Leases!Live, Protocol!Live
<1>11. Leases!Close => Protocol!Close
  BY DEF Leases!Close, Protocol!Close, Leases!CloseManager, Protocol!CloseManager
<1>12. Leases!Restart => Protocol!Restart
  BY DEF Leases!Restart, Protocol!Restart, Leases!ReopenManager, Protocol!ReopenManager
<1>13. Leases!Next => Protocol!Next
  BY <1>2, <1>3, <1>4, <1>5, <1>6, <1>7, <1>8, <1>9, <1>10, <1>11, <1>12
     DEF Leases!Next, Protocol!Next, Leases!Work, Protocol!Work
<1>14. UNCHANGED Leases!vars => UNCHANGED Protocol!vars
  BY DEF Leases!vars, Protocol!vars, Leases!mgrVars, Protocol!mgrVars
<1> QED
  BY <1>1, <1>13, <1>14

-----------------------------------------------------------------------------
(***************************************************************************)
(* The invariant of the tasks.  The chat's lease decides which call, if    *)
(* any, works on a task of the chat; what that call has recorded and what  *)
(* it remembers fit what is stored.                                        *)
(***************************************************************************)
Own(c) == OwnerOf[ProjectOf[c]]

Working(x, c) == IF x \in Ops /\ ChatOf[x] = c /\ call[x].target # NoTask THEN {call[x]} ELSE {}

GoodChat(c) ==
  /\ Typed(tasks[c], ledger[c], lastOp[c])
  /\ Good(tasks[c], ledger[c], lastOp[c], Working(pending[Own(c)], c))

\* Before its claim a call has no task to work on.
FreshCalls == \A o \in Ops : pc[o] \in {"idle", "checked"} => call[o].target = NoTask

\* Under its lease a call works on a task unless it stores a refusal.
RefusalHasNoTask ==
  \A o \in Ops : pending[SessionOf[o]] = o => (call[o].refused <=> call[o].target = NoTask)

TaskInv == FreshCalls /\ RefusalHasNoTask /\ \A c \in Chats : GoodChat(c)

LEMMA LeasesOwn == Leases!IInv => LeasesAreOwn
  BY DEF Leases!IInv, Leases!LeaseIsWorkedOrReclaimable, LeasesAreOwn

LEMMA OwnOf ==
  /\ \A c \in Chats : Own(c) \in Sessions
  /\ \A o \in Ops : SessionOf[o] \in Sessions /\ ChatOf[o] \in Chats
                    /\ SessionOf[o] = Own(ChatOf[o]) /\ o # NoLease
  BY SessionOfDef, SessionOfType, ChatsAssumption DEF Own

LEMMA InitTasks == Init => TypeOK /\ TaskInv
<1> SUFFICES ASSUME Init PROVE TypeOK /\ TaskInv
  OBVIOUS
<1>1. MgrTypeOK /\ ChatsTypeOK
  BY InitTypes DEF Init
<1>2. TaskTypes /\ CallTypes
  BY NewCallType DEF Init, TaskTypes, CallTypes, Phases
<1>3. FreshCalls /\ RefusalHasNoTask
  BY OwnOf DEF Init, MgrInit, FreshCalls, RefusalHasNoTask, NewCall
<1>4. ASSUME NEW c \in Chats PROVE GoodChat(c)
  <2>1. Working(pending[Own(c)], c) = {}
    BY OwnOf, ChatsAssumption DEF Init, MgrInit, Working
  <2>2. /\ \A k \in Clients : ledger[c][k] = NoOp
        /\ \A t \in TaskIds : lastOp[c][t] = NoClient
    BY DEF Init
  <2>3. Good(tasks[c], ledger[c], lastOp[c], {})
    BY <2>2, GoodStart
  <2> QED
    BY <1>2, <2>1, <2>3 DEF GoodChat, Typed, TaskTypes
<1> QED
  BY <1>1, <1>2, <1>3, <1>4, TypeParts DEF TaskInv

\* The candidate of a mutation: as published, or with a dead call's lease
\* cleared and its operation failed.
LEMMA CandidateIsGood ==
  ASSUME TypeOK, LeasesAreOwn, TaskInv, NEW c \in Chats
  PROVE  /\ Typed(tasks[c], Reclaimed[c], lastOp[c])
         /\ Good(tasks[c], Reclaimed[c], lastOp[c], Working(Candidate[Own(c)], c))
<1> DEFINE x == pending[Own(c)]
           L == ledger[c]
           W == Working(x, c)
           L1 == Reclaimed[c]
           dead == {o \in Live(pending) : o \in abandoned}
           Dead(k) == \E o \in dead : ChatOf[o] = c /\ call[o].client = k
<1>0. MgrTypeOK /\ TaskTypes /\ CallTypes
  BY TypeParts
<1>1. Typed(tasks[c], L, lastOp[c]) /\ Good(tasks[c], L, lastOp[c], W)
  BY DEF TaskInv, GoodChat
<1>2. L1 \in [Clients -> Operations \cup {NoOp}] /\ \A k \in Clients : L1[k] = NoOp <=> L[k] = NoOp
  BY <1>0, ReclaimedType
<1>3. \A k \in Clients : L1[k] = IF L[k] # NoOp /\ Dead(k) THEN [L[k] EXCEPT !.status = "failed"] ELSE L[k]
  BY DEF Reclaimed
<1>4. \A o \in dead : ChatOf[o] = c => o = x /\ x \in Ops
  BY <1>0, OwnOf DEF Live, LeasesAreOwn, MgrTypeOK
<1>5. \A k \in Clients : L[k] # NoOp => L[k] \in Operations
  BY <1>1 DEF Typed
<1>6. CASE x \in Ops /\ x \in abandoned
  <2>1. Candidate[Own(c)] = NoLease
    BY <1>6, OwnOf DEF Candidate
  <2>2. Working(Candidate[Own(c)], c) = {}
    BY <2>1, ChatsAssumption DEF Working
  <2>3. ASSUME NEW k \in Clients, L[k] # NoOp
        PROVE  L1[k].task = L[k].task /\ (L1[k] = L[k] \/ L1[k].status # "pending")
    <3>1. [L[k] EXCEPT !.status = "failed"].task = L[k].task
          /\ [L[k] EXCEPT !.status = "failed"].status = "failed"
      BY <1>5, <2>3 DEF Operations
    <3> QED
      BY <1>3, <3>1
  <2>4. ASSUME NEW k \in Clients, \E w \in W : w.client = k
        PROVE  L1[k] # L[k]
    <3>1. ChatOf[x] = c /\ call[x].client = k /\ W = {call[x]} /\ x \in dead
      BY <1>6, <2>4, OwnOf, ChatsAssumption DEF Working, Live
    <3>2. L[k] # NoOp /\ L[k].status = "pending"
      <4>1. Recorded(tasks[c], L, lastOp[c], call[x])
        BY <1>1, <3>1 DEF Good
      <4>2. L[k] = [task |-> call[x].target, status |-> "pending"] /\ call[x].target \in TaskIds
        BY <3>1, <4>1 DEF Recorded
      <4>3. L[k] \in Operations
        BY <4>2 DEF Operations
      <4> QED
        BY <4>2, <4>3, TaskflowAssumption
    <3>3. L1[k] = [L[k] EXCEPT !.status = "failed"]
      BY <1>3, <3>1, <3>2
    <3>4. L1[k].status = "failed"
      BY <1>5, <3>2, <3>3 DEF Operations
    <3> QED
      BY <3>2, <3>4
  <2> HIDE DEF L, L1, W
  <2>5. Typed(tasks[c], L1, lastOp[c]) /\ Good(tasks[c], L1, lastOp[c], {})
    BY <1>1, <1>2, <2>3, <2>4, GoodUnworked
  <2> QED
    BY <2>2, <2>5 DEF L1
<1>7. CASE ~(x \in Ops /\ x \in abandoned)
  <2>1. Candidate[Own(c)] = x
    BY <1>0, <1>7, OwnOf DEF Candidate, MgrTypeOK
  <2>2. \A k \in Clients : ~Dead(k)
    BY <1>4, <1>7
  <2>3. L1 = L
    <3>1. \A k \in Clients : L1[k] = L[k]
      BY <1>3, <2>2
    <3>2. L \in [Clients -> Operations \cup {NoOp}]
      BY <1>1 DEF Typed
    <3> HIDE DEF L, L1
    <3> QED
      BY <1>2, <3>1, <3>2
  <2> QED
    BY <1>1, <2>1, <2>3
<1> QED
  BY <1>6, <1>7

-----------------------------------------------------------------------------
(***************************************************************************)
(* A step.  First the two parts that follow the calls, then the chats: the *)
(* chat a step works on, and every other one, which only sees the leases   *)
(* that the mutation reclaims.                                             *)
(***************************************************************************)
Claims(o) == Claim(o) \/ ClaimRefusal(o)

Commits(o) ==
  CommitTask(o) \/ CommitRefusal(o) \/ CommitNothing(o) \/ CommitFailure(o) \/ CommitPair(o)

\* Steps on which tasks, ledger and leases stay as they are.
Quiet(o) ==
  \/ CheckInput(o) \/ CheckResume(o) \/ CheckFails(o) \/ ClaimAnswered(o) \/ ClaimFails(o)
  \/ Attach(o) \/ Answer(o) \/ CommitRefused(o) \/ StartTitle(o) \/ Detach(o) \/ RepauseFails(o)

LEMMA NextCases ==
  ASSUME [Next]_vars
  PROVE  \/ \E o \in Ops : Claims(o) \/ Commits(o) \/ Quiet(o) \/ Repause(o)
         \/ \E c \in Chats : DeleteChat(c) \/ TitleWork(c) \/ \E t \in TaskIds : PauseTask(c, t)
         \/ Mutate \/ Close \/ Restart \/ UNCHANGED vars
  BY DEF Next, Work, Claims, Commits, Quiet

LEMMA QuietStep ==
  ASSUME NEW o \in Ops, Quiet(o)
  PROVE  UNCHANGED <<pending, taskVars>>
  BY DEF Quiet, CheckInput, CheckResume, CheckFails, ClaimAnswered, ClaimFails, Attach, AttachLease,
         Answer, CommitRefused, StartTitle, StartWorker, Detach, DetachLease, RepauseFails, mgrVars

\* A call that holds its lease after a step has claimed it in that step, or has
\* held it before with the same local variables.
LEMMA LeasedCallIsKept ==
  ASSUME TypeOK, Leases!IInv, [Next]_vars, NEW o \in Ops, pending'[SessionOf[o]] = o
  PROVE  Claims(o) \/ (pending[SessionOf[o]] = o /\ call'[o] = call[o])
<1>0. MgrTypeOK /\ CallTypes
  BY TypeParts
<1>o. SessionOf[o] \in Sessions /\ o # NoLease
  BY OwnOf
<1>i. pc[o] \in {"idle", "checked"} => pending[SessionOf[o]] # o
  BY <1>0 DEF Leases!IInv, Leases!IdleIsFresh, Leases!Owns, ProtocolPhase
<1>c. Candidate[SessionOf[o]] = o => pending[SessionOf[o]] = o
  BY <1>o DEF Candidate
<1>t. Candidate \in [Sessions -> Ops \cup {NoLease}]
  BY <1>0, CandidateType
<1>l. pending[SessionOf[o]] = o => o \in Live(pending)
  BY <1>o DEF Live
<1>f. ASSUME NEW q \in Ops, Forget(q) \/ UNCHANGED call, pending[SessionOf[o]] = o
      PROVE  call'[o] = call[o]
  BY <1>0, <1>l, <1>f DEF Forget, CallTypes
<1> DEFINE Kept == pending[SessionOf[o]] = o /\ call'[o] = call[o]
<1>1. ASSUME NEW q \in Ops, CheckInput(q) \/ CheckResume(q) PROVE Kept
  <2>1. pending[SessionOf[o]] = o /\ pc[q] = "idle"
    BY <1>1 DEF CheckInput, CheckResume, Step, mgrVars
  <2>2. o # q
    BY <1>i, <2>1
  <2>3. CASE CheckInput(q)
    BY <1>0, <2>1, <2>2, <2>3 DEF CheckInput, CallTypes
  <2>4. CASE CheckResume(q)
    BY <1>0, <2>1, <2>2, <2>4, ResumeType, TypeParts
  <2> QED
    BY <1>1, <2>3, <2>4
<1>2. ASSUME NEW q \in Ops, Quiet(q), ~CheckInput(q), ~CheckResume(q) PROVE Kept
  <2>1. Forget(q) \/ UNCHANGED call
    BY <1>2 DEF Quiet, CheckFails, ClaimAnswered, ClaimFails, Attach, Answer, CommitRefused,
                StartTitle, Detach, RepauseFails
  <2> QED
    BY <1>2, <1>f, <2>1, QuietStep
<1>3. ASSUME NEW q \in Ops \ {o}, Claims(q) PROVE Kept
  <2>1. call'[o] = call[o]
    BY <1>0, <1>3 DEF Claims, Claim, ClaimRefusal, CallTypes
  <2>2. Publish([Candidate EXCEPT ![SessionOf[q]] = q])
    BY <1>3 DEF Claims, Claim, ClaimRefusal
  <2>3. Candidate[SessionOf[o]] = o
    BY <1>o, <1>t, <1>3, <2>2 DEF Publish
  <2> QED
    BY <1>c, <2>1, <2>3
<1>4. ASSUME NEW q \in Ops, Commits(q) PROVE Kept
  <2>1. Release(q)
    BY <1>4 DEF Commits, CommitTask, CommitRefusal, CommitNothing, CommitFailure, CommitPair
  <2>2. Candidate[SessionOf[o]] = o
    BY <1>o, <1>t, <2>1 DEF Release, Publish
  <2> QED
    BY <1>c, <2>1, <2>2 DEF Release
<1>5. ASSUME NEW q \in Ops, Repause(q) PROVE Kept
  BY <1>c, <1>f, <1>5 DEF Repause, Publish
<1>6. ASSUME NEW c \in Chats, DeleteChat(c) PROVE Kept
  <2>1. pending' = Released({c}) /\ UNCHANGED call
    BY <1>6 DEF DeleteChat, DeletedChat, RemoveChats, Publish
  <2> QED
    BY <1>c, <1>o, <2>1 DEF Released
<1>7. ASSUME NEW c \in Chats, NEW t \in TaskIds, PauseTask(c, t) PROVE Kept
  <2> DEFINE hit == {d \in Live(Candidate) : ChatOf[d] = c /\ call[d].target = t}
  <2>1. pending' = [Candidate EXCEPT ![Own(c)] = IF @ \in hit THEN NoLease ELSE @] /\ UNCHANGED call
    BY <1>7 DEF PauseTask, Publish, Own
  <2> HIDE DEF hit
  <2>2. Candidate[SessionOf[o]] = o
    BY <1>o, <1>t, <2>1
  <2> QED
    BY <1>c, <2>1, <2>2
<1>8. ASSUME NEW c \in Chats, TitleWork(c) PROVE Kept
  BY <1>c, <1>8 DEF TitleWork, TitleSaved, TitleAnswered, TitleNotSaved, Publish, mgrVars, callVars
<1>9. Mutate \/ Close \/ UNCHANGED vars => Kept
  BY <1>c DEF Mutate, Close, CloseStore, CloseManager, Publish, vars, mgrVars, callVars
<1>10. ~Restart
  BY <1>o DEF Restart, Reopen, ReopenManager
<1> HIDE DEF Kept
<1>11. \A q \in Ops : Quiet(q) => Kept
  BY <1>1, <1>2
<1>12. \A q \in Ops : Claims(q) => Claims(o) \/ Kept
  BY <1>3
<1> QED
  BY <1>4, <1>5, <1>6, <1>7, <1>8, <1>9, <1>10, <1>11, <1>12, NextCases DEF Kept

\* What a claim makes of the call.
LEMMA ClaimedCall ==
  ASSUME TypeOK, FreshCalls, NEW o \in Ops, Claims(o)
  PROVE  call'[o].refused <=> call'[o].target = NoTask
<1>0. call \in [Ops -> Calls] /\ call[o] \in Calls
  BY TypeParts DEF CallTypes
<1>1. CASE ClaimRefusal(o)
  <2>1. call'[o] = Reads(o) /\ call[o].refused /\ pc[o] = "checked"
    BY <1>0, <1>1 DEF ClaimRefusal, Claimable
  <2>2. Reads(o).refused = call[o].refused /\ Reads(o).target = call[o].target
    BY <1>0 DEF Reads, Calls
  <2>3. call[o].target = NoTask
    BY <2>1 DEF FreshCalls
  <2> QED
    BY <2>1, <2>2, <2>3
<1>2. CASE Claim(o)
  <2>1. PICK t \in TaskIds :
          call'[o] = [Reads(o) EXCEPT !.target = t, !.before = tasks[ChatOf[o]][t],
                                      !.oldOp = Reclaimed[ChatOf[o]][call[o].client],
                                      !.oldId = lastOp[ChatOf[o]][t]]
    BY <1>0, <1>2, TargetsType DEF Claim
  <2>2. call'[o].target = t /\ call'[o].refused = call[o].refused
    BY <1>0, <2>1 DEF Reads, Calls
  <2>3. ~call[o].refused
    BY <1>2 DEF Claim
  <2> QED
    BY <2>2, <2>3, TaskflowAssumption
<1> QED
  BY <1>1, <1>2 DEF Claims

LEMMA StepKeepsFresh ==
  ASSUME TypeOK, FreshCalls, [Next]_vars
  PROVE  FreshCalls'
<1>0. pc \in [Ops -> Phases] /\ call \in [Ops -> Calls]
  BY TypeParts DEF CallTypes
<1> SUFFICES ASSUME NEW o \in Ops, pc'[o] \in {"idle", "checked"} PROVE call'[o].target = NoTask
  BY DEF FreshCalls
<1> DEFINE Kept == call'[o].target = NoTask
<1>f. call[o].target = NoTask /\ call'[o] = call[o] => Kept
  OBVIOUS
<1>1. ASSUME NEW q \in Ops, CheckInput(q) PROVE Kept
  BY <1>0, <1>1 DEF CheckInput, Step, FreshCalls, Calls
<1>2. ASSUME NEW q \in Ops, CheckResume(q) PROVE Kept
  <2>1. call'[q].target = call[q].target /\ \A d \in Ops \ {q} : call'[d] = call[d]
    BY <1>2, TypeParts, ResumeType
  <2> QED
    BY <1>0, <1>2, <2>1 DEF CheckResume, Step, FreshCalls
<1>3. ASSUME NEW q \in Ops, NEW to \in Phases \ {"idle", "checked"}, pc' = [pc EXCEPT ![q] = to],
             NEW new, call' = [call EXCEPT ![q] = new] \/ UNCHANGED call
      PROVE  Kept
  BY <1>0, <1>3 DEF FreshCalls
<1>4. ASSUME NEW q \in Ops, Quiet(q), ~CheckInput(q), ~CheckResume(q)
      PROVE  Kept
  <2>1. \E to \in Phases \ {"idle", "checked"} : pc' = [pc EXCEPT ![q] = to]
    BY <1>4 DEF Quiet, CheckFails, ClaimAnswered, ClaimFails, Attach, Answer, CommitRefused,
                StartTitle, Detach, RepauseFails, Failed, Step, Phases
  <2>2. Forget(q) \/ UNCHANGED call
    BY <1>4 DEF Quiet, CheckFails, ClaimAnswered, ClaimFails, Attach, Answer, CommitRefused,
                StartTitle, Detach, RepauseFails
  <2>3. \E new : call' = [call EXCEPT ![q] = new] \/ UNCHANGED call
    BY <2>2 DEF Forget
  <2> QED
    BY <1>3, <2>1, <2>3
<1>5. ASSUME NEW q \in Ops, Claims(q) PROVE Kept
  <2>1. pc' = [pc EXCEPT ![q] = "claimed"] /\ "claimed" \in Phases \ {"idle", "checked"}
    BY <1>5 DEF Claims, Claim, ClaimRefusal, Goto, Phases
  <2>2. \E new : call' = [call EXCEPT ![q] = new]
    BY <1>5 DEF Claims, Claim, ClaimRefusal
  <2> QED
    BY <1>3, <2>1, <2>2
<1>6. ASSUME NEW q \in Ops, Commits(q) PROVE Kept
  <2>1. UNCHANGED call
    BY <1>6 DEF Commits, CommitTask, CommitRefusal, CommitNothing, CommitFailure, CommitPair, Release
  <2>2. \E to \in Phases \ {"idle", "checked"} : pc' = [pc EXCEPT ![q] = to]
    BY <1>6 DEF Commits, CommitTask, CommitRefusal, CommitNothing, CommitFailure, CommitPair,
                StorePair, Goto, Phases
  <2> QED
    BY <1>3, <2>1, <2>2
<1>7. ASSUME NEW q \in Ops, Repause(q) PROVE Kept
  <2>1. pc' = [pc EXCEPT ![q] = "exited"] /\ "exited" \in Phases \ {"idle", "checked"}
    BY <1>7 DEF Repause, Step, Phases
  <2>2. \E new : call' = [call EXCEPT ![q] = new]
    BY <1>7 DEF Repause, Forget
  <2> QED
    BY <1>3, <2>1, <2>2
<1>8. UNCHANGED <<pc, call>> => Kept
  BY DEF FreshCalls
<1>9. \A c \in Chats : DeleteChat(c) \/ TitleWork(c) => Kept
  BY <1>8 DEF DeleteChat, TitleWork, callVars
<1>10. \A c \in Chats, t \in TaskIds : PauseTask(c, t) => Kept
  BY <1>8 DEF PauseTask
<1>11. Mutate \/ Close \/ UNCHANGED vars => Kept
  BY <1>8 DEF Mutate, Close, vars, callVars
<1>12. Restart => Kept
  BY DEF Restart, NewCall
<1> HIDE DEF Kept
<1>13. \A q \in Ops : Quiet(q) => Kept
  BY <1>1, <1>2, <1>4
<1> QED
  BY <1>5, <1>6, <1>7, <1>9, <1>10, <1>11, <1>12, <1>13, NextCases DEF Kept

LEMMA StepKeepsRefusals ==
  ASSUME TypeOK, Leases!IInv, TaskInv, [Next]_vars
  PROVE  RefusalHasNoTask'
<1> SUFFICES ASSUME NEW o \in Ops, pending'[SessionOf[o]] = o
             PROVE  call'[o].refused <=> call'[o].target = NoTask
  BY DEF RefusalHasNoTask
<1>1. Claims(o) \/ (pending[SessionOf[o]] = o /\ call'[o] = call[o])
  BY LeasedCallIsKept
<1> QED
  BY <1>1, ClaimedCall DEF TaskInv, RefusalHasNoTask

\* A step claims with one call only, and most steps with none.
LEMMA NotClaiming ==
  ASSUME TypeOK, NEW o \in Ops, Claims(o)
  PROVE  /\ \A q \in Ops : ~Quiet(q) /\ ~Commits(q) /\ ~Repause(q) /\ (Claims(q) => q = o)
         /\ \A c \in Chats : ~DeleteChat(c) /\ ~TitleWork(c) /\ \A t \in TaskIds : ~PauseTask(c, t)
         /\ ~Mutate /\ ~Close /\ ~Restart /\ ~UNCHANGED vars
<1>0. pc \in [Ops -> Phases]
  BY TypeParts DEF CallTypes
<1>1. pc[o] = "checked" /\ pc'[o] = "claimed"
  BY <1>0 DEF Claims, Claim, ClaimRefusal, Claimable, Goto
<1>2. ASSUME NEW q \in Ops, NEW to, pc' = [pc EXCEPT ![q] = to], to # "claimed" \/ q # o
      PROVE  FALSE
  BY <1>0, <1>1, <1>2
<1>3. ~UNCHANGED pc
  BY <1>1
<1>4. ASSUME NEW q \in Ops, Quiet(q) PROVE FALSE
  <2>1. (\E to : to # "claimed" /\ pc' = [pc EXCEPT ![q] = to])
    BY <1>4 DEF Quiet, CheckInput, CheckResume, CheckFails, ClaimAnswered, ClaimFails, Attach, Answer,
                CommitRefused, StartTitle, Detach, RepauseFails, Failed, Step
  <2> QED
    BY <1>2, <2>1
<1>5. ASSUME NEW q \in Ops, Commits(q) PROVE FALSE
  <2>1. \E to : to # "claimed" /\ pc' = [pc EXCEPT ![q] = to]
    BY <1>5 DEF Commits, CommitTask, CommitRefusal, CommitNothing, CommitFailure, CommitPair,
                StorePair, Goto
  <2> QED
    BY <1>2, <2>1
<1>6. ASSUME NEW q \in Ops, Repause(q) PROVE FALSE
  BY <1>2, <1>6 DEF Repause, Step
<1>7. ASSUME NEW q \in Ops, Claims(q), q # o PROVE FALSE
  BY <1>2, <1>7 DEF Claims, Claim, ClaimRefusal, Goto
<1>8. ~Restart
  BY <1>1 DEF Restart
<1> QED
  BY <1>3, <1>4, <1>5, <1>6, <1>7, <1>8
     DEF DeleteChat, TitleWork, PauseTask, Mutate, Close, vars, callVars

\* Who works in a chat after a step that is not a claim in it.
LEMMA WorkingAfter ==
  ASSUME TypeOK, Leases!IInv, [Next]_vars, NEW c \in Chats, \A o \in Ops : Claims(o) => ChatOf[o] # c
  PROVE  Working(pending[Own(c)], c)' = Working(pending'[Own(c)], c)
<1> DEFINE y == pending'[Own(c)]
<1>1. CASE y \in Ops /\ ChatOf[y] = c
  <2>1. pending'[SessionOf[y]] = y
    BY <1>1, OwnOf
  <2>2. call'[y] = call[y]
    BY <1>1, <2>1, LeasedCallIsKept
  <2> QED
    BY <1>1, <2>2 DEF Working
<1>2. CASE ~(y \in Ops /\ ChatOf[y] = c)
  BY <1>2 DEF Working
<1> QED
  BY <1>1, <1>2

\* Tasks that have only changed their status.
SameWork(T, T1) ==
  /\ T1 \in [TaskIds -> Tasks \cup {NoTask}]
  /\ \A t \in TaskIds : /\ T[t] = NoTask <=> T1[t] = NoTask
                        /\ T[t] # NoTask => T1[t].work = T[t].work

LEMMA PausedIsSameWork ==
  ASSUME NEW T \in [TaskIds -> Tasks \cup {NoTask}], NEW t \in TaskIds, T[t] # NoTask
  PROVE  SameWork(T, [T EXCEPT ![t].status = "paused"])
<1>1. T[t] \in Tasks
  OBVIOUS
<1>2. /\ [T[t] EXCEPT !.status = "paused"] \in Tasks
      /\ [T[t] EXCEPT !.status = "paused"].work = T[t].work
  BY <1>1 DEF Tasks
<1> QED
  BY <1>2, TaskflowAssumption DEF SameWork

LEMMA UntouchedChat ==
  ASSUME TypeOK, Leases!IInv, TaskInv, [Next]_vars, NEW c \in Chats,
         \A o \in Ops : Claims(o) => ChatOf[o] # c, UNCHANGED <<pending, taskVars>>
  PROVE  GoodChat(c)'
<1>1. Working(pending[Own(c)], c)' = Working(pending[Own(c)], c)
  BY WorkingAfter
<1> QED
  BY <1>1 DEF TaskInv, GoodChat, taskVars

\* A mutation that leaves the chat alone, but for the lease it may reclaim and
\* the status of tasks.
LEMMA MutatedChat ==
  ASSUME TypeOK, Leases!IInv, TaskInv, [Next]_vars, NEW c \in Chats,
         \A o \in Ops : Claims(o) => ChatOf[o] # c,
         SameWork(tasks[c], tasks'[c]), ledger'[c] = Reclaimed[c], lastOp'[c] = lastOp[c],
         Working(pending'[Own(c)], c) = Working(Candidate[Own(c)], c)
  PROVE  GoodChat(c)'
<1>1. Working(pending[Own(c)], c)' = Working(Candidate[Own(c)], c)
  BY WorkingAfter
<1>2. /\ Typed(tasks[c], Reclaimed[c], lastOp[c])
      /\ Good(tasks[c], Reclaimed[c], lastOp[c], Working(Candidate[Own(c)], c))
  BY LeasesOwn, CandidateIsGood
<1>3. /\ Typed(tasks'[c], Reclaimed[c], lastOp[c])
      /\ Good(tasks'[c], Reclaimed[c], lastOp[c], Working(Candidate[Own(c)], c))
  BY <1>2, GoodPaused DEF SameWork
<1> QED
  BY <1>1, <1>3 DEF GoodChat

LEMMA SameIsSameWork == TypeOK => \A c \in Chats : SameWork(tasks[c], tasks[c])
  BY TypeParts DEF TaskTypes, SameWork

-----------------------------------------------------------------------------
(***************************************************************************)
(* The invariant over each kind of step.                                   *)
(***************************************************************************)

\* The chats beside the one in which a call claims or commits.
LEMMA OtherChat ==
  ASSUME TypeOK, Leases!IInv, TaskInv, [Next]_vars, NEW o \in Ops, Claims(o) \/ Commits(o),
         NEW c \in Chats \ {ChatOf[o]}
  PROVE  GoodChat(c)'
<1>0. MgrTypeOK /\ TaskTypes /\ CallTypes
  BY TypeParts
<1>1. Candidate \in [Sessions -> Ops \cup {NoLease}] /\ SessionOf[o] \in Sessions
  BY <1>0, CandidateType, OwnOf
<1>2. \A q \in Ops : Claims(q) => ChatOf[q] # c
  BY NotClaiming
<1>3. /\ Candidate[SessionOf[o]] \in {NoLease, o}
      /\ \E x \in {NoLease, o} : pending' = [Candidate EXCEPT ![SessionOf[o]] = x]
  BY DEF Claims, Claim, ClaimRefusal, Claimable, Commits, CommitTask, CommitRefusal, CommitNothing,
         CommitFailure, CommitPair, Release, Publish
<1>4. Working(pending'[Own(c)], c) = Working(Candidate[Own(c)], c)
  <2>1. CASE Own(c) = SessionOf[o]
    <3>1. Candidate[Own(c)] \in {NoLease, o} /\ pending'[Own(c)] \in {NoLease, o}
      BY <1>1, <1>3, <2>1
    <3>2. \A x \in {NoLease, o} : Working(x, c) = {}
      BY ChatsAssumption DEF Working
    <3> QED
      BY <3>1, <3>2
  <2>2. CASE Own(c) # SessionOf[o]
    BY <1>1, <1>3, <2>2
  <2> QED
    BY <2>1, <2>2
<1>5. Reclaimed \in [Chats -> [Clients -> Operations \cup {NoOp}]]
  BY <1>0, ReclaimedType
<1>6. tasks'[c] = tasks[c] /\ ledger'[c] = Reclaimed[c] /\ lastOp'[c] = lastOp[c]
  <2>1. CASE Claims(o)
    <3>1. tasks'[c] = tasks[c]
      BY <1>0, <2>1 DEF Claims, Claim, ClaimRefusal, TaskTypes
    <3>2. ledger'[c] = Reclaimed[c]
      BY <1>5, <2>1 DEF Claims, Claim, ClaimRefusal
    <3>3. lastOp'[c] = lastOp[c]
      BY <1>0, <2>1 DEF Claims, Claim, ClaimRefusal, TaskTypes
    <3> QED
      BY <3>1, <3>2, <3>3
  <2>2. CASE Restore(o)
    BY <1>0, <1>5, <2>2 DEF Restore, TaskTypes
  <2>3. CASE CommitTask(o) \/ CommitFailure(o) \/ CommitPair(o)
    BY <1>0, <1>5, <2>3 DEF CommitTask, CommitFailure, CommitPair, TaskTypes
  <2> QED
    BY <2>1, <2>2, <2>3 DEF Commits, CommitRefusal, CommitNothing
<1> QED
  BY <1>2, <1>4, <1>6, MutatedChat, SameIsSameWork

LEMMA ClaimKeepsGood ==
  ASSUME TypeOK, Leases!IInv, TaskInv, [Next]_vars, NEW o \in Ops, Claims(o)
  PROVE  GoodChat(ChatOf[o])'
<1> DEFINE c == ChatOf[o]
           k == call[o].client
           T == tasks[c]
           L == Reclaimed[c]
           P == lastOp[c]
<1>0. /\ MgrTypeOK /\ TaskTypes /\ CallTypes
      /\ c \in Chats /\ Own(c) = SessionOf[o] /\ Own(c) \in Sessions
  BY TypeParts, OwnOf
<1>1. Candidate \in [Sessions -> Ops \cup {NoLease}] /\ Candidate[Own(c)] = NoLease
      /\ pending' = [Candidate EXCEPT ![Own(c)] = o]
  BY <1>0, CandidateType DEF Claims, Claim, ClaimRefusal, Claimable, Publish
<1>2. Working(Candidate[Own(c)], c) = {}
  BY <1>1, ChatsAssumption DEF Working
<1>3. Typed(T, L, P) /\ Good(T, L, P, {})
  BY <1>0, <1>2, LeasesOwn, CandidateIsGood
<1>4. pending'[Own(c)] = o
  BY <1>0, <1>1
<1>5. call[o] \in Calls /\ k \in Clients /\ MgrTypeOK' /\ CallTypes' /\ call'[o] \in Calls
  BY <1>0, StepKeepsOtherTypes DEF CallTypes, Calls
<1>6. CASE ClaimRefusal(o)
  <2>1. tasks'[c] = T /\ ledger'[c] = L /\ lastOp'[c] = P
    BY <1>6 DEF ClaimRefusal
  <2>2. call'[o].target = NoTask
    <3>1. call'[o] = Reads(o) /\ pc[o] = "checked"
      BY <1>0, <1>6 DEF ClaimRefusal, Claimable, CallTypes
    <3>2. Reads(o).target = call[o].target
      BY <1>5 DEF Reads, Calls
    <3> QED
      BY <3>1, <3>2 DEF TaskInv, FreshCalls
  <2>3. Working(pending[Own(c)], c)' = {}
    BY <1>4, <2>2 DEF Working
  <2> QED
    BY <1>3, <2>1, <2>3 DEF GoodChat
<1>7. CASE Claim(o)
  <2> DEFINE task(t) == IF T[t] = NoTask THEN [status |-> "active", work |-> {}]
                        ELSE [T[t] EXCEPT !.status = "active"]
             new(t) == [Reads(o) EXCEPT !.target = t, !.before = T[t], !.oldOp = L[k], !.oldId = P[t]]
  <2>1. PICK t \in Targets(o) :
          /\ tasks' = [tasks EXCEPT ![c][t] = task(t)]
          /\ ledger' = [Reclaimed EXCEPT ![c][k] = [task |-> t, status |-> "pending"]]
          /\ lastOp' = [lastOp EXCEPT ![c][t] = k]
          /\ call' = [call EXCEPT ![o] = new(t)]
    BY <1>7 DEF Claim
  <2>2. t \in TaskIds /\ (ledger[c][k] # NoOp => ledger[c][k].task = t)
    BY <2>1, TargetsType DEF Old
  <2>3. L[k] # NoOp => L[k].task = t
    BY <1>0, <1>5, <2>2, ReclaimedType
  <2>4. task(t) \in Tasks /\ task(t).work = IF T[t] = NoTask THEN {} ELSE T[t].work
    <3>1. T[t] \in Tasks \cup {NoTask}
      BY <1>3, <2>2 DEF Typed
    <3> QED
      BY <3>1 DEF Tasks
  <2>5. call'[o] = new(t)
    BY <1>0, <2>1 DEF CallTypes
  <2>6. /\ new(t).target = t /\ new(t).client = k /\ new(t).before = T[t]
        /\ new(t).oldOp = L[k] /\ new(t).oldId = P[t]
    BY <1>5 DEF Reads, Calls
  <2>7. Reclaimed \in [Chats -> [Clients -> Operations \cup {NoOp}]]
    BY <1>0, ReclaimedType
  <2>8. /\ tasks'[c] = [T EXCEPT ![t] = task(t)]
        /\ ledger'[c] = [L EXCEPT ![k] = [task |-> t, status |-> "pending"]]
        /\ lastOp'[c] = [P EXCEPT ![t] = k]
    BY <1>0, <2>1, <2>7 DEF TaskTypes
  <2>9. Working(pending[Own(c)], c)' = {call'[o]}
    BY <1>4, <2>2, <2>5, <2>6, TaskflowAssumption DEF Working
  <2>10. call'[o].target = t /\ call'[o].client = k /\ call'[o].before = T[t]
         /\ call'[o].oldOp = L[k] /\ call'[o].oldId = P[t]
    BY <2>5, <2>6
  <2> HIDE DEF task, new, T, L, P, k
  <2>11. Good(tasks'[c], ledger'[c], lastOp'[c], {call'[o]})
    BY <1>3, <1>5, <2>2, <2>3, <2>4, <2>8, <2>10, GoodClaim
  <2>12. Typed(tasks'[c], ledger'[c], lastOp'[c])
    <3>1. [task |-> t, status |-> "pending"] \in Operations
      BY <2>2 DEF Operations
    <3> QED
      BY <1>3, <1>5, <2>2, <2>4, <2>8, <3>1 DEF Typed
  <2> QED
    BY <2>9, <2>11, <2>12 DEF GoodChat
<1> QED
  BY <1>6, <1>7 DEF Claims

\* The call that commits is the one that works in its chat.
LEMMA CommitIsOwned ==
  ASSUME TypeOK, Leases!IInv, TaskInv, [Next]_vars, NEW o \in Ops, Commits(o)
  PROVE  LET c == ChatOf[o]
             w == call[o]
         IN
         /\ c \in Chats /\ w \in Calls
         /\ pending[SessionOf[o]] = o
         /\ w.refused <=> w.target = NoTask
         /\ Typed(tasks[c], Reclaimed[c], lastOp[c])
         /\ w.refused => Good(tasks[c], Reclaimed[c], lastOp[c], {})
         /\ ~w.refused => Good(tasks[c], Reclaimed[c], lastOp[c], {w})
         /\ Working(pending[Own(c)], c)' = {}
<1> DEFINE c == ChatOf[o]
<1>0. /\ MgrTypeOK /\ TaskTypes /\ CallTypes
      /\ c \in Chats /\ Own(c) = SessionOf[o] /\ Own(c) \in Sessions /\ o # NoLease
  BY TypeParts, OwnOf
<1>1. Release(o)
  BY DEF Commits, CommitTask, CommitRefusal, CommitNothing, CommitFailure, CommitPair
<1>2. Candidate \in [Sessions -> Ops \cup {NoLease}] /\ Candidate[Own(c)] = o
      /\ pending' = [Candidate EXCEPT ![Own(c)] = NoLease]
  BY <1>0, <1>1, CandidateType DEF Release, Publish
<1>3. pending[SessionOf[o]] = o
  BY <1>0, <1>2 DEF Candidate
<1>4. call[o].refused <=> call[o].target = NoTask
  BY <1>3 DEF TaskInv, RefusalHasNoTask
<1>5. /\ Typed(tasks[c], Reclaimed[c], lastOp[c])
      /\ Good(tasks[c], Reclaimed[c], lastOp[c], Working(Candidate[Own(c)], c))
  BY <1>0, LeasesOwn, CandidateIsGood
<1>6. Working(Candidate[Own(c)], c) = IF call[o].target # NoTask THEN {call[o]} ELSE {}
  BY <1>2 DEF Working
<1>7. Working(pending[Own(c)], c)' = {}
  <2>1. pending'[Own(c)] = NoLease
    BY <1>0, <1>2
  <2> QED
    BY <2>1, ChatsAssumption DEF Working
<1>8. call[o] \in Calls
  BY <1>0 DEF CallTypes
<1> QED
  BY <1>0, <1>3, <1>4, <1>5, <1>6, <1>7, <1>8

LEMMA CommitKeepsGood ==
  ASSUME TypeOK, Leases!IInv, TaskInv, [Next]_vars, NEW o \in Ops, Commits(o)
  PROVE  GoodChat(ChatOf[o])'
<1> DEFINE c == ChatOf[o]
           w == call[o]
           T == tasks[c]
           L == Reclaimed[c]
           P == lastOp[c]
<1>0. /\ c \in Chats /\ w \in Calls /\ Typed(T, L, P)
      /\ w.refused => Good(T, L, P, {})
      /\ ~w.refused => Good(T, L, P, {w})
      /\ Working(pending[Own(c)], c)' = {}
  BY CommitIsOwned
<1>1. TaskTypes /\ Reclaimed \in [Chats -> [Clients -> Operations \cup {NoOp}]]
  BY TypeParts, ReclaimedType
<1> SUFFICES Typed(tasks'[c], ledger'[c], lastOp'[c]) /\ Good(tasks'[c], ledger'[c], lastOp'[c], {})
  BY <1>0 DEF GoodChat
<1>2. CASE CommitTask(o)
  <2>1. PICK status \in {"active", "done"} : tasks' = [tasks EXCEPT ![c][w.target] = Accepted(o, status)]
    BY <1>2 DEF CommitTask
  <2>2. Accepted(o, status) \in Tasks
    BY <1>0, <2>1 DEF Accepted, Calls, Tasks
  <2>3. ledger' = [Reclaimed EXCEPT ![c][w.client].status = "committed"] /\ lastOp' = lastOp /\ ~w.refused
    BY <1>2 DEF CommitTask
  <2>4. /\ tasks'[c] = [T EXCEPT ![w.target] = Accepted(o, status)]
        /\ ledger'[c] = [L EXCEPT ![w.client].status = "committed"]
        /\ lastOp'[c] = P
    BY <1>0, <1>1, <2>1, <2>3 DEF TaskTypes
  <2> HIDE DEF c, w, T, L, P
  <2>5. /\ Typed([T EXCEPT ![w.target] = Accepted(o, status)],
                 [L EXCEPT ![w.client].status = "committed"], P)
        /\ Good([T EXCEPT ![w.target] = Accepted(o, status)],
                [L EXCEPT ![w.client].status = "committed"], P, {})
    BY <1>0, <2>2, <2>3, GoodEnd DEF w
  <2> QED
    BY <2>4, <2>5
<1>3. CASE CommitRefusal(o) \/ CommitNothing(o)
  <2>1. Restore(o) /\ ~w.refused
    BY <1>3 DEF CommitRefusal, CommitNothing
  <2>2. /\ tasks'[c] = [T EXCEPT ![w.target] = w.before]
        /\ ledger'[c] = [L EXCEPT ![w.client] = w.oldOp]
        /\ lastOp'[c] = [P EXCEPT ![w.target] = w.oldId]
    BY <1>0, <1>1, <2>1 DEF Restore, TaskTypes
  <2> HIDE DEF c, w, T, L, P
  <2>3. /\ Typed([T EXCEPT ![w.target] = w.before], [L EXCEPT ![w.client] = w.oldOp],
                 [P EXCEPT ![w.target] = w.oldId])
        /\ Good([T EXCEPT ![w.target] = w.before], [L EXCEPT ![w.client] = w.oldOp],
                [P EXCEPT ![w.target] = w.oldId], {})
    BY <1>0, <2>1, GoodRestore DEF w
  <2> QED
    BY <2>2, <2>3
<1>4. CASE CommitFailure(o)
  <2>1. /\ ledger' = [Reclaimed EXCEPT ![c][w.client].status = "failed"]
        /\ tasks' = tasks /\ lastOp' = lastOp /\ ~w.refused
    BY <1>4 DEF CommitFailure
  <2>2. ledger'[c] = [L EXCEPT ![w.client].status = "failed"] /\ tasks'[c] = T /\ lastOp'[c] = P
    BY <1>0, <1>1, <2>1
  <2>3. \E task : task \in Tasks
    <3>1. [status |-> "active", work |-> {}] \in Tasks
      BY DEF Tasks
    <3> QED
      BY <3>1
  <2> HIDE DEF c, w, T, L, P
  <2>4. /\ Typed(T, [L EXCEPT ![w.client].status = "failed"], P)
        /\ Good(T, [L EXCEPT ![w.client].status = "failed"], P, {})
    BY <1>0, <2>1, <2>3, GoodEnd DEF w
  <2> QED
    BY <2>2, <2>4
<1>5. CASE CommitPair(o)
  <2>1. w.refused /\ ledger' = Reclaimed /\ tasks' = tasks /\ lastOp' = lastOp
    BY <1>5 DEF CommitPair
  <2> QED
    BY <1>0, <2>1
<1> QED
  BY <1>2, <1>3, <1>4, <1>5 DEF Commits

\* A pause of a task, seen from its chat.
LEMMA PauseKeepsGood ==
  ASSUME TypeOK, Leases!IInv, TaskInv, [Next]_vars, NEW c \in Chats, NEW t \in TaskIds,
         PauseTask(c, t), \A o \in Ops : ~Claims(o)
  PROVE  GoodChat(c)'
<1> DEFINE hit == {o \in Live(Candidate) : ChatOf[o] = c /\ call[o].target = t}
           x == Candidate[Own(c)]
           T == tasks[c]
           L == Reclaimed[c]
           P == lastOp[c]
           task == [T[t] EXCEPT !.status = "paused"]
<1>0. MgrTypeOK /\ TaskTypes /\ CallTypes /\ LeasesAreOwn /\ Own(c) \in Sessions
  BY TypeParts, LeasesOwn, OwnOf
<1>1. Candidate \in [Sessions -> Ops \cup {NoLease}]
  BY <1>0, CandidateType
<1>2. /\ hit \subseteq Ops
      /\ hit # {} => hit = {x} /\ x # NoLease
      /\ x \in hit <=> hit # {}
  <2>1. hit \in SUBSET Live(Candidate) /\ \A o \in hit : SessionOf[o] = Own(c)
    BY <1>1, OwnOf DEF Live
  <2> QED
    BY <1>0, <2>1, HitIsOneCall
<1>3. Typed(T, L, P) /\ Good(T, L, P, Working(x, c))
  BY <1>0, CandidateIsGood
<1>4. /\ tasks' = [tasks EXCEPT ![c][t].status = "paused"]
      /\ ledger' = [Reclaimed EXCEPT ![c] = [k \in Clients |->
           IF \E o \in hit : call[o].client = k THEN [@[k] EXCEPT !.status = "paused"] ELSE @[k]]]
      /\ pending' = [Candidate EXCEPT ![Own(c)] = IF @ \in hit THEN NoLease ELSE @]
      /\ lastOp' = lastOp /\ T[t] # NoTask
  BY DEF PauseTask, Publish, Own
<1>5. Reclaimed \in [Chats -> [Clients -> Operations \cup {NoOp}]]
  BY <1>0, ReclaimedType
<1>6. /\ tasks'[c] = [T EXCEPT ![t] = task]
      /\ ledger'[c] = [k \in Clients |->
           IF \E o \in hit : call[o].client = k THEN [L[k] EXCEPT !.status = "paused"] ELSE L[k]]
      /\ lastOp'[c] = P
      /\ pending'[Own(c)] = IF x \in hit THEN NoLease ELSE x
  BY <1>0, <1>1, <1>4, <1>5 DEF TaskTypes
<1>7. CASE x \in hit
  <2> DEFINE w == call[x]
  <2>1. hit = {x} /\ x \in Ops /\ w \in Calls /\ w.target = t /\ ChatOf[x] = c
    BY <1>0, <1>2, <1>7 DEF CallTypes
  <2>2. Working(x, c) = {w}
    BY <2>1, TaskflowAssumption DEF Working
  <2>3. Working(pending[Own(c)], c)' = {}
    BY <1>6, <1>7, ChatsAssumption DEF Working
  <2>4. task \in Tasks
    <3>1. T[t] \in Tasks
      BY <1>3, <1>4 DEF Typed
    <3> QED
      BY <3>1 DEF Tasks
  <2>5. ledger'[c] = [L EXCEPT ![w.client].status = "paused"]
    <3>1. L \in [Clients -> Operations \cup {NoOp}]
      BY <1>3 DEF Typed
    <3>2. ledger'[c] = [k \in Clients |->
            IF w.client = k THEN [L[k] EXCEPT !.status = "paused"] ELSE L[k]]
      BY <1>6, <2>1
    <3> HIDE DEF L, w
    <3> QED
      BY <3>1, <3>2
  <2> HIDE DEF T, L, P, w, task, x, hit
  <2>6. /\ Typed([T EXCEPT ![w.target] = task], [L EXCEPT ![w.client].status = "paused"], P)
        /\ Good([T EXCEPT ![w.target] = task], [L EXCEPT ![w.client].status = "paused"], P, {})
    BY <1>3, <2>1, <2>2, <2>4, GoodEnd
  <2> QED
    BY <1>6, <2>1, <2>3, <2>5, <2>6 DEF GoodChat
<1>8. CASE x \notin hit
  <2>1. Working(pending'[Own(c)], c) = Working(x, c)
    BY <1>6, <1>8
  <2>2. ledger'[c] = L
    <3>1. L \in [Clients -> Operations \cup {NoOp}]
      BY <1>3 DEF Typed
    <3>2. ledger'[c] = [k \in Clients |-> L[k]]
      BY <1>2, <1>6, <1>8
    <3> HIDE DEF L
    <3> QED
      BY <3>1, <3>2
  <2>3. SameWork(T, tasks'[c])
    <3>1. T \in [TaskIds -> Tasks \cup {NoTask}] /\ T[t] # NoTask
      BY <1>3, <1>4 DEF Typed
    <3>2. tasks'[c] = [T EXCEPT ![t].status = "paused"]
      BY <1>6
    <3> HIDE DEF T
    <3>3. SameWork(T, [T EXCEPT ![t].status = "paused"])
      BY <3>1, PausedIsSameWork, Zenon
    <3> QED
      BY <3>2, <3>3
  <2> QED
    BY <1>6, <2>1, <2>2, <2>3, MutatedChat
<1> QED
  BY <1>7, <1>8

\* A deletion of a chat, seen from that chat.
LEMMA DeletionKeepsGood ==
  ASSUME TypeOK, Leases!IInv, TaskInv, [Next]_vars, NEW c \in Chats,
         DeleteChat(c), \A o \in Ops : ~Claims(o)
  PROVE  GoodChat(c)'
<1>0. MgrTypeOK /\ Own(c) \in Sessions
  BY TypeParts, OwnOf
<1>1. pending' = Released({c}) /\ Dropped({c})
  BY DEF DeleteChat, DeletedChat, RemoveChats, Publish
<1>2. Working(pending'[Own(c)], c) = {}
  <2>1. pending'[Own(c)] = NoLease \/ ChatOf[pending'[Own(c)]] # c
    BY <1>0, <1>1 DEF Released
  <2> QED
    BY <2>1, ChatsAssumption DEF Working
<1>3. Working(pending[Own(c)], c)' = {}
  BY <1>2, WorkingAfter
<1>4. /\ tasks'[c] = [t \in TaskIds |-> NoTask]
      /\ ledger'[c] = [k \in Clients |-> NoOp]
      /\ lastOp'[c] = [t \in TaskIds |-> NoClient]
  BY <1>1 DEF Dropped
<1>5. Good(tasks'[c], ledger'[c], lastOp'[c], {})
  BY <1>4, GoodStart
<1> QED
  BY <1>3, <1>4, <1>5 DEF GoodChat, Typed

\* A pause or a deletion in another chat.
LEMMA OtherChatIsKept ==
  ASSUME TypeOK, Leases!IInv, TaskInv, [Next]_vars, NEW c \in Chats, NEW d \in Chats \ {c},
         DeleteChat(d) \/ \E t \in TaskIds : PauseTask(d, t), \A o \in Ops : ~Claims(o)
  PROVE  GoodChat(c)'
<1>0. MgrTypeOK /\ TaskTypes /\ Own(c) \in Sessions /\ Own(d) \in Sessions
  BY TypeParts, OwnOf
<1>1. Candidate \in [Sessions -> Ops \cup {NoLease}]
  BY <1>0, CandidateType
<1>2. Reclaimed \in [Chats -> [Clients -> Operations \cup {NoOp}]]
  BY <1>0, ReclaimedType
<1>3. CASE DeleteChat(d)
  <2>1. pending' = Released({d}) /\ Dropped({d})
    BY <1>3 DEF DeleteChat, DeletedChat, RemoveChats, Publish
  <2>2. pending'[Own(c)] = Candidate[Own(c)]
        \/ (pending'[Own(c)] = NoLease /\ ChatOf[Candidate[Own(c)]] = d)
    BY <1>0, <2>1 DEF Released
  <2>3. Working(pending'[Own(c)], c) = Working(Candidate[Own(c)], c)
    BY <2>2, ChatsAssumption DEF Working
  <2>4. tasks'[c] = tasks[c] /\ ledger'[c] = Reclaimed[c] /\ lastOp'[c] = lastOp[c]
    BY <2>1 DEF Dropped
  <2> QED
    BY <2>3, <2>4, MutatedChat, SameIsSameWork
<1>4. ASSUME NEW t \in TaskIds, PauseTask(d, t) PROVE GoodChat(c)'
  <2> DEFINE hit == {o \in Live(Candidate) : ChatOf[o] = d /\ call[o].target = t}
  <2>1. pending' = [Candidate EXCEPT ![Own(d)] = IF @ \in hit THEN NoLease ELSE @]
    BY <1>4 DEF PauseTask, Publish, Own
  <2>2. pending'[Own(c)] = Candidate[Own(c)]
        \/ (pending'[Own(c)] = NoLease /\ ChatOf[Candidate[Own(c)]] = d)
    BY <1>0, <1>1, <2>1
  <2>3. Working(pending'[Own(c)], c) = Working(Candidate[Own(c)], c)
    BY <2>2, ChatsAssumption DEF Working
  <2>4. tasks'[c] = tasks[c] /\ ledger'[c] = Reclaimed[c] /\ lastOp'[c] = lastOp[c]
    BY <1>0, <1>2, <1>4 DEF PauseTask, TaskTypes
  <2> QED
    BY <2>3, <2>4, MutatedChat, SameIsSameWork
<1> QED
  BY <1>3, <1>4

\* A Resume that pauses its task again; t is the task, if there is one.
LEMMA RepausedChat ==
  ASSUME NEW T \in [TaskIds -> Tasks \cup {NoTask}], NEW t, t \in TaskIds => T[t] # NoTask
  PROVE  SameWork(T, [T EXCEPT ![t].status = IF @ = "done" THEN @ ELSE "paused"])
<1> DEFINE task == [T[t] EXCEPT !.status = IF @ = "done" THEN @ ELSE "paused"]
           T1 == [T EXCEPT ![t].status = IF @ = "done" THEN @ ELSE "paused"]
<1>1. CASE t \notin TaskIds
  <2>1. T1 = T
    BY <1>1
  <2> QED
    BY <2>1 DEF SameWork
<1>2. CASE t \in TaskIds
  <2>1. T[t] \in Tasks
    BY <1>2
  <2>2. task \in Tasks /\ task.work = T[t].work
    BY <2>1 DEF Tasks
  <2>3. T1 = [T EXCEPT ![t] = task]
    OBVIOUS
  <2> HIDE DEF task, T1
  <2> QED
    BY <1>2, <2>1, <2>2, <2>3, TaskflowAssumption DEF SameWork, T1
<1> QED
  BY <1>1, <1>2

LEMMA RepauseKeepsGood ==
  ASSUME TypeOK, Leases!IInv, TaskInv, [Next]_vars, NEW o \in Ops, Repause(o), NEW c \in Chats,
         \A q \in Ops : ~Claims(q)
  PROVE  GoodChat(c)'
<1>0. TaskTypes /\ ChatOf[o] \in Chats
  BY TypeParts, OwnOf
<1> DEFINE t == call[o].resumed
           d == ChatOf[o]
<1>1. /\ pending' = Candidate /\ ledger' = Reclaimed /\ lastOp' = lastOp
      /\ tasks' = [tasks EXCEPT ![d][t].status = IF @ = "done" THEN @ ELSE "paused"]
      /\ tasks[d][t] # NoTask
  BY DEF Repause, Publish
<1>2. SameWork(tasks[c], tasks'[c])
  <2>1. CASE c = d
    <3>1. tasks'[c] = [tasks[c] EXCEPT ![t].status = IF @ = "done" THEN @ ELSE "paused"]
      BY <1>0, <1>1, <2>1 DEF TaskTypes
    <3>2. tasks[c] \in [TaskIds -> Tasks \cup {NoTask}] /\ tasks[c][t] # NoTask
      BY <1>0, <1>1, <2>1 DEF TaskTypes
    <3> HIDE DEF t
    <3> QED
      BY <3>1, <3>2, RepausedChat
  <2>2. CASE c # d
    <3>1. tasks'[c] = tasks[c]
      BY <1>0, <1>1, <2>2 DEF TaskTypes
    <3> QED
      BY <3>1, SameIsSameWork
  <2> QED
    BY <2>1, <2>2
<1>3. ledger'[c] = Reclaimed[c] /\ lastOp'[c] = lastOp[c]
      /\ Working(pending'[Own(c)], c) = Working(Candidate[Own(c)], c)
  BY <1>1
<1> QED
  BY <1>2, <1>3, MutatedChat

\* normalize: the call that was at work is gone, its task and its operation
\* are paused.
LEMMA RestartKeepsGood ==
  ASSUME TypeOK, Leases!IInv, TaskInv, [Next]_vars, Restart, NEW c \in Chats
  PROVE  GoodChat(c)'
<1> DEFINE x == pending[Own(c)]
           T == tasks[c]
           L == ledger[c]
           P == lastOp[c]
           W == Working(x, c)
           T1 == tasks'[c]
           L1 == ledger'[c]
           Busy(t) == T[t] # NoTask /\ \E o \in Live(pending) : ChatOf[o] = c /\ call[o].target = t
           Hit(k) == L[k] # NoOp /\ \E o \in Live(pending) : ChatOf[o] = c /\ call[o].client = k
<1>0. MgrTypeOK /\ TaskTypes /\ CallTypes /\ Own(c) \in Sessions
  BY TypeParts, OwnOf
<1>1. Typed(T, L, P) /\ Good(T, L, P, W)
  BY DEF TaskInv, GoodChat
<1>2. /\ T1 = [t \in TaskIds |-> IF Busy(t) THEN [T[t] EXCEPT !.status = "paused"] ELSE T[t]]
      /\ L1 = [k \in Clients |-> IF Hit(k) THEN [L[k] EXCEPT !.status = "paused"] ELSE L[k]]
      /\ lastOp'[c] = P
  BY DEF Restart
<1>3. Working(pending[Own(c)], c)' = {}
  <2>1. pending'[Own(c)] = NoLease
    BY <1>0 DEF Restart, Reopen, ReopenManager
  <2> QED
    BY <2>1, ChatsAssumption DEF Working
<1>4. SameWork(T, T1)
  <2>1. ASSUME NEW t \in TaskIds
        PROVE  /\ T1[t] \in Tasks \cup {NoTask}
               /\ T[t] = NoTask <=> T1[t] = NoTask
               /\ T[t] # NoTask => T1[t].work = T[t].work
    <3>1. T[t] \in Tasks \cup {NoTask}
      BY <1>1 DEF Typed
    <3>2. T[t] \in Tasks => /\ [T[t] EXCEPT !.status = "paused"] \in Tasks
                            /\ [T[t] EXCEPT !.status = "paused"].work = T[t].work
      BY DEF Tasks
    <3>3. T1[t] = IF Busy(t) THEN [T[t] EXCEPT !.status = "paused"] ELSE T[t]
      BY <1>2
    <3> QED
      BY <3>1, <3>2, <3>3, TaskflowAssumption
  <2>2. T1 \in [TaskIds -> Tasks \cup {NoTask}]
    <3>1. T1 = [t \in TaskIds |-> T1[t]]
      BY <1>2
    <3> HIDE DEF T1
    <3> QED
      BY <2>1, <3>1
  <2> QED
    BY <2>1, <2>2 DEF SameWork
<1>5. ASSUME NEW k \in Clients
      PROVE  /\ L1[k] \in Operations \cup {NoOp}
             /\ L[k] = NoOp <=> L1[k] = NoOp
             /\ L[k] # NoOp => L1[k].task = L[k].task /\ (L1[k] = L[k] \/ L1[k].status # "pending")
             /\ (\E w \in W : w.client = k) => L1[k] # L[k]
  <2>1. L[k] \in Operations \cup {NoOp}
    BY <1>1 DEF Typed
  <2>2. L[k] \in Operations =>
          /\ [L[k] EXCEPT !.status = "paused"] \in Operations
          /\ [L[k] EXCEPT !.status = "paused"].task = L[k].task
          /\ [L[k] EXCEPT !.status = "paused"].status = "paused"
    BY DEF Operations
  <2>3. L1[k] = IF Hit(k) THEN [L[k] EXCEPT !.status = "paused"] ELSE L[k]
    BY <1>2
  <2>4. (\E w \in W : w.client = k) => Hit(k) /\ L[k].status = "pending"
    <3>1. SUFFICES ASSUME \E w \in W : w.client = k PROVE Hit(k) /\ L[k].status = "pending"
      OBVIOUS
    <3>2. x \in Ops /\ x # NoLease /\ ChatOf[x] = c /\ W = {call[x]} /\ call[x].client = k
      BY <3>1, ChatsAssumption DEF Working
    <3>3. Recorded(T, L, P, call[x])
      BY <1>1, <3>2 DEF Good
    <3>4. L[k] = [task |-> call[x].target, status |-> "pending"] /\ call[x].target \in TaskIds
      BY <3>2, <3>3 DEF Recorded
    <3>5. L[k] \in Operations /\ L[k].status = "pending"
      BY <3>4 DEF Operations
    <3>6. x \in Live(pending)
      BY <1>0, <3>2 DEF Live
    <3> QED
      BY <3>2, <3>5, <3>6, TaskflowAssumption
  <2> HIDE DEF L, L1, Hit, W
  <2>5. (\E w \in W : w.client = k) => L1[k] # L[k]
    <3>1. ASSUME Hit(k), L[k].status = "pending" PROVE L1[k] # L[k]
      <4>1. L[k] \in Operations
        BY <2>1, <3>1 DEF Hit
      <4> QED
        BY <2>2, <2>3, <3>1, <4>1
    <3> QED
      BY <2>4, <3>1
  <2>6. /\ L1[k] \in Operations \cup {NoOp}
        /\ L[k] = NoOp <=> L1[k] = NoOp
        /\ L[k] # NoOp => L1[k].task = L[k].task /\ (L1[k] = L[k] \/ L1[k].status # "pending")
    <3>1. CASE L[k] = NoOp
      BY <2>3, <3>1 DEF Hit
    <3>2. CASE L[k] \in Operations
      BY <2>2, <2>3, <3>2, TaskflowAssumption
    <3> QED
      BY <2>1, <3>1, <3>2
  <2> QED
    BY <2>5, <2>6
<1>6. L1 \in [Clients -> Operations \cup {NoOp}]
  <2>1. L1 = [k \in Clients |-> L1[k]]
    BY <1>2
  <2> HIDE DEF L1
  <2> QED
    BY <1>5, <2>1
<1> HIDE DEF T, L, P, W, T1, L1
<1>7. Typed(T, L1, P) /\ Good(T, L1, P, {})
  BY <1>1, <1>5, <1>6, GoodUnworked
<1>8. Typed(T1, L1, P) /\ Good(T1, L1, P, {})
  BY <1>4, <1>7, GoodPaused DEF SameWork
<1> QED
  BY <1>2, <1>3, <1>8 DEF GoodChat, T1, L1, P

LEMMA StepKeepsGood ==
  ASSUME TypeOK, Leases!IInv, TaskInv, [Next]_vars, NEW c \in Chats
  PROVE  GoodChat(c)'
<1>1. ASSUME NEW o \in Ops, Claims(o) PROVE GoodChat(c)'
  BY <1>1, ClaimKeepsGood, OtherChat
<1>2. CASE \A o \in Ops : ~Claims(o)
  <2>1. ASSUME NEW o \in Ops, Commits(o) PROVE GoodChat(c)'
    BY <2>1, CommitKeepsGood, OtherChat
  <2>2. ASSUME NEW o \in Ops, Quiet(o) PROVE GoodChat(c)'
    BY <1>2, <2>2, QuietStep, UntouchedChat
  <2>3. ASSUME NEW o \in Ops, Repause(o) PROVE GoodChat(c)'
    BY <1>2, <2>3, RepauseKeepsGood
  <2>4. ASSUME NEW d \in Chats, DeleteChat(d) PROVE GoodChat(c)'
    BY <1>2, <2>4, DeletionKeepsGood, OtherChatIsKept
  <2>5. ASSUME NEW d \in Chats, NEW t \in TaskIds, PauseTask(d, t) PROVE GoodChat(c)'
    BY <1>2, <2>5, PauseKeepsGood, OtherChatIsKept
  <2>6. ASSUME UNCHANGED <<pending, taskVars>> PROVE GoodChat(c)'
    BY <1>2, <2>6, UntouchedChat
  <2>7. ASSUME pending' = Candidate, ledger' = Reclaimed, UNCHANGED <<tasks, lastOp>>
        PROVE  GoodChat(c)'
    <3>1. /\ tasks'[c] = tasks[c] /\ ledger'[c] = Reclaimed[c] /\ lastOp'[c] = lastOp[c]
          /\ Working(pending'[Own(c)], c) = Working(Candidate[Own(c)], c)
      BY <2>7
    <3> QED
      BY <1>2, <3>1, MutatedChat, SameIsSameWork
  <2>8. ASSUME NEW d \in Chats, TitleWork(d) PROVE GoodChat(c)'
    BY <2>6, <2>7, <2>8
       DEF TitleWork, TitleSaved, TitleAnswered, TitleNotSaved, Publish, mgrVars, taskVars
  <2>9. Mutate => GoodChat(c)'
    BY <2>7 DEF Mutate, Publish
  <2>10. Close \/ UNCHANGED vars => GoodChat(c)'
    BY <2>6 DEF Close, CloseStore, CloseManager, vars, mgrVars
  <2>11. Restart => GoodChat(c)'
    BY RestartKeepsGood
  <2> QED
    BY <1>2, <2>1, <2>2, <2>3, <2>4, <2>5, <2>8, <2>9, <2>10, <2>11, NextCases
<1> QED
  BY <1>1, <1>2

\* Tasks, ledger and pointers stay functions over all chats.
LEMMA StepKeepsDomains ==
  ASSUME TypeOK, [Next]_vars
  PROVE  /\ tasks' = [c \in Chats |-> tasks'[c]]
         /\ ledger' = [c \in Chats |-> ledger'[c]]
         /\ lastOp' = [c \in Chats |-> lastOp'[c]]
<1> DEFINE Fun(f) == f = [c \in Chats |-> f[c]]
           Goal == Fun(tasks') /\ Fun(ledger') /\ Fun(lastOp')
<1>1. Fun(tasks) /\ Fun(ledger) /\ Fun(lastOp) /\ Fun(Reclaimed)
  BY TypeParts, ReclaimedType DEF TaskTypes
<1>2. \A f, c, v : Fun(f) => Fun([f EXCEPT ![c] = v])
  OBVIOUS
<1>3. \A t : t = tasks \/ (\E c, v : t = [tasks EXCEPT ![c] = v]) => Fun(t)
  BY <1>1, <1>2
<1>4. \A l : l = ledger \/ l = Reclaimed \/ (\E c, v : l = [Reclaimed EXCEPT ![c] = v]) => Fun(l)
  BY <1>1, <1>2
<1>5. \A p : p = lastOp \/ (\E c, v : p = [lastOp EXCEPT ![c] = v]) => Fun(p)
  BY <1>1, <1>2
<1> HIDE DEF Fun
<1>6. ASSUME NEW o \in Ops, Claims(o) PROVE Goal
  <2>1. CASE ClaimRefusal(o)
    BY <1>1, <2>1 DEF ClaimRefusal
  <2>2. CASE Claim(o)
    <3>1. \E c, v : tasks' = [tasks EXCEPT ![c] = v]
      BY <2>2 DEF Claim
    <3>2. \E c, v : ledger' = [Reclaimed EXCEPT ![c] = v]
      BY <2>2 DEF Claim
    <3>3. \E c, v : lastOp' = [lastOp EXCEPT ![c] = v]
      BY <2>2 DEF Claim
    <3> QED
      BY <1>3, <1>4, <1>5, <3>1, <3>2, <3>3
  <2> QED
    BY <1>6, <2>1, <2>2 DEF Claims
<1>7. ASSUME NEW o \in Ops, Commits(o) PROVE Goal
  <2>1. tasks' = tasks \/ \E c, v : tasks' = [tasks EXCEPT ![c] = v]
    BY <1>7 DEF Commits, CommitTask, CommitRefusal, CommitNothing, CommitFailure, CommitPair, Restore
  <2>2. ledger' = Reclaimed \/ \E c, v : ledger' = [Reclaimed EXCEPT ![c] = v]
    BY <1>7 DEF Commits, CommitTask, CommitRefusal, CommitNothing, CommitFailure, CommitPair, Restore
  <2>3. lastOp' = lastOp \/ \E c, v : lastOp' = [lastOp EXCEPT ![c] = v]
    BY <1>7 DEF Commits, CommitTask, CommitRefusal, CommitNothing, CommitFailure, CommitPair, Restore
  <2> QED
    BY <1>3, <1>4, <1>5, <2>1, <2>2, <2>3
<1>8. ASSUME UNCHANGED taskVars PROVE Goal
  BY <1>1, <1>8 DEF taskVars
<1>9. ASSUME ledger' = ledger \/ ledger' = Reclaimed, UNCHANGED <<tasks, lastOp>> PROVE Goal
  BY <1>1, <1>9
<1>10. ASSUME NEW o \in Ops, Repause(o) PROVE Goal
  <2>1. ledger' = Reclaimed /\ lastOp' = lastOp /\ \E c, v : tasks' = [tasks EXCEPT ![c] = v]
    BY <1>10 DEF Repause
  <2> QED
    BY <1>1, <1>3, <2>1
<1>11. ASSUME NEW c \in Chats, NEW t \in TaskIds, PauseTask(c, t) PROVE Goal
  <2>1. /\ lastOp' = lastOp /\ \E v : tasks' = [tasks EXCEPT ![c] = v]
        /\ \E v : ledger' = [Reclaimed EXCEPT ![c] = v]
    BY <1>11 DEF PauseTask
  <2> QED
    BY <1>1, <1>3, <1>4, <2>1
<1>12. ASSUME NEW c \in Chats, DeleteChat(c) PROVE Goal
  BY <1>12 DEF DeleteChat, Dropped, Fun
<1>13. Restart => Goal
  BY <1>1 DEF Restart, Fun
<1>14. ASSUME NEW c \in Chats, TitleWork(c) PROVE Goal
  BY <1>9, <1>14 DEF TitleWork
<1>15. Mutate \/ Close \/ UNCHANGED vars => Goal
  BY <1>8, <1>9 DEF Mutate, Close, vars
<1>16. ASSUME NEW o \in Ops, Quiet(o) PROVE Goal
  BY <1>8, <1>16, QuietStep
<1> HIDE DEF Goal
<1>17. Goal
  BY <1>6, <1>7, <1>10, <1>11, <1>12, <1>13, <1>14, <1>15, <1>16, NextCases
<1> QED
  BY <1>17 DEF Goal, Fun

\* The inductive step.
LEMMA StepKeepsTasks ==
  ASSUME TypeOK, Leases!IInv, TaskInv, [Next]_vars
  PROVE  TypeOK' /\ Leases!IInv' /\ TaskInv'
<1>1. \A c \in Chats : GoodChat(c)'
  BY StepKeepsGood
<1>2. MgrTypeOK' /\ ChatsTypeOK' /\ CallTypes'
  BY StepKeepsOtherTypes
<1>3. TaskTypes'
  <2>1. \A c \in Chats : Typed(tasks'[c], ledger'[c], lastOp'[c])
    BY <1>1 DEF GoodChat
  <2>2. /\ tasks' = [c \in Chats |-> tasks'[c]]
        /\ ledger' = [c \in Chats |-> ledger'[c]]
        /\ lastOp' = [c \in Chats |-> lastOp'[c]]
    BY StepKeepsDomains
  <2> QED
    BY <2>1, <2>2 DEF Typed, TaskTypes
<1>4. TypeOK'
  BY <1>2, <1>3 DEF TypeOK, TaskTypes, CallTypes
<1>5. TaskInv'
  <2>1. FreshCalls' /\ RefusalHasNoTask'
    BY StepKeepsFresh, StepKeepsRefusals DEF TaskInv
  <2> QED
    BY <1>1, <2>1 DEF TaskInv
<1>6. Leases!IInv'
  <2>1. Leases!Next \/ UNCHANGED Leases!vars
    BY <1>2, StepFollowsLeases
  <2> QED
    BY <2>1, LeasesAssumption, Leases!StepKeepsSafety
<1> QED
  BY <1>4, <1>5, <1>6

-----------------------------------------------------------------------------
(***************************************************************************)
(* The inductive invariant and what follows from it at once.               *)
(***************************************************************************)

\* Whatever the calls, pauses, deletions, reclaims and crashes of the chats:
\* what is stored of a chat's tasks is sound, and fits what the call that holds
\* the chat's lease has recorded and remembers of the time before its claim.
THEOREM TasksAreSafe == Spec => [](TypeOK /\ Leases!IInv /\ TaskInv)
<1>1. Init => TypeOK /\ Leases!IInv /\ TaskInv
  BY InitTasks, InitFollowsLeases, LeasesAssumption, Leases!InitIsSafe
<1> QED
  BY <1>1, StepKeepsTasks, PTL DEF Spec

\* TaskInput, Resume and PauseTask store tasks and operations only, no id of a
\* task or a client that is none.
THEOREM TypeCorrect == Spec => []TypeOK
  BY TasksAreSafe, PTL

\* The invariant of the lease protocol holds of the calls of TaskInput, Resume
\* and their refusals, with pauses that take leases away: no session stays busy
\* for good, a call that has lost its lease is cancelled and publishes nothing.
THEOREM LeasesAreSafe == Spec => []Leases!IInv
  BY TasksAreSafe, PTL

\* Every step of a TaskInput, a Resume, a pause or a deletion is a step of the
\* lease protocol (Lease), or leaves the leases alone.
THEOREM FollowsLease == Spec => ImplementsLease
<1>1. Init => Protocol!Init
  BY InitFollowsLeases, SameProtocol
<1>2. TypeOK /\ TypeOK' /\ Leases!IInv /\ [Next]_vars => [Protocol!Next]_(Protocol!vars)
  <2>1. TypeOK' => CallTypes'
    BY DEF TypeOK, CallTypes
  <2> QED
    BY <2>1, StepFollowsLeases, SameProtocol
<1> QED
  BY <1>1, <1>2, TypeCorrect, LeasesAreSafe, PTL DEF Spec, ImplementsLease

\* The calls as Turns sees them take a step of Turns, or none.
TakesTurns == [Leases!Abstract!TurnNext]_[o \in Ops |-> Leases!TurnOf(o)]

\* TaskInput, Resume and their refusals keep the promise of Turns: at most one of
\* the calls of a session is open at a time, and an open call is published once,
\* as a whole, or dropped for good.
THEOREM ImplementsTurns == Spec => Leases!Abstract!SafeTurns
<1>1. TypeOK /\ TypeOK' /\ Leases!IInv /\ [Next]_vars => TakesTurns
  <2>1. TypeOK' => CallTypes'
    BY DEF TypeOK, CallTypes
  <2>2. TypeOK /\ TypeOK' /\ Leases!IInv /\ [Next]_vars => [Leases!Next]_(Leases!vars)
    BY <2>1, StepFollowsLeases
  <2> QED
    BY <2>2, LeasesAssumption, Leases!StepTakesTurns DEF TakesTurns
<1>2. Init => Leases!Abstract!TurnInit
  BY InitFollowsLeases, LeasesAssumption, Leases!InitTurns
<1> QED
  BY <1>1, <1>2, TypeCorrect, LeasesAreSafe, PTL DEF Spec, TakesTurns, Leases!Abstract!SafeTurns

\* Every operation in the ledger is one of a task of its chat, and the last
\* operation of a task is its own: what restoreProvisionalTask puts back never
\* dangles, so the file can be read again (statejson, validate).
THEOREM LedgerStaysReadable == Spec => []LedgerIsReadable
<1>1. TypeOK /\ TaskInv => LedgerIsReadable
  BY DEF TaskInv, GoodChat, Good, LedgerIsReadable
<1> QED
  BY <1>1, TasksAreSafe, PTL

\* An operation is pending exactly while the lease of its call is published:
\* every way to lose a lease (commit, failure, pause, deletion, reclaim, crash)
\* ends the operation in the same mutation.
THEOREM PendingOperationsAreLeased == Spec => []PendingMeansLeased
<1>1. ASSUME TypeOK, Leases!IInv, TaskInv, NEW c \in Chats, NEW k \in Clients
      PROVE  (ledger[c][k] # NoOp /\ ledger[c][k].status = "pending")
               <=> \E o \in Live(pending) :
                     ChatOf[o] = c /\ call[o].client = k /\ call[o].target # NoTask
  <2> DEFINE x == pending[Own(c)]
  <2>0. Good(tasks[c], ledger[c], lastOp[c], Working(x, c)) /\ Own(c) \in Sessions
    BY <1>1, OwnOf DEF TaskInv, GoodChat
  <2>1. ASSUME ledger[c][k] # NoOp, ledger[c][k].status = "pending"
        PROVE  \E o \in Live(pending) :
                 ChatOf[o] = c /\ call[o].client = k /\ call[o].target # NoTask
    <3>1. \E w \in Working(x, c) : w.client = k
      BY <2>0, <2>1 DEF Good
    <3>2. x \in Ops /\ ChatOf[x] = c /\ call[x].target # NoTask /\ call[x].client = k
      BY <3>1 DEF Working
    <3>3. x \in Live(pending)
      BY <2>0, <3>2, OwnOf DEF Live
    <3> QED
      BY <3>2, <3>3
  <2>2. ASSUME NEW o \in Live(pending), ChatOf[o] = c, call[o].client = k, call[o].target # NoTask
        PROVE  ledger[c][k] # NoOp /\ ledger[c][k].status = "pending"
    <3>1. o = x /\ o \in Ops
      BY <1>1, <2>2, LeasesOwn, OwnOf, TypeParts DEF Live, LeasesAreOwn, MgrTypeOK
    <3>2. Recorded(tasks[c], ledger[c], lastOp[c], call[o])
      BY <2>0, <2>2, <3>1 DEF Good, Working
    <3>3. ledger[c][k] = [task |-> call[o].target, status |-> "pending"] /\ call[o].target \in TaskIds
      BY <2>2, <3>2 DEF Recorded
    <3>4. ledger[c][k] \in Operations /\ ledger[c][k].status = "pending"
      BY <3>3 DEF Operations
    <3> QED
      BY <3>4, TaskflowAssumption
  <2> QED
    BY <2>1, <2>2
<1>2. TypeOK /\ Leases!IInv /\ TaskInv => PendingMeansLeased
  BY <1>1 DEF PendingMeansLeased
<1> QED
  BY <1>2, TasksAreSafe, PTL

-----------------------------------------------------------------------------
(***************************************************************************)
(* What a step makes of a task.                                            *)
(***************************************************************************)
Keeps(T1, T) == T1 # NoTask /\ T.work \subseteq T1.work

\* The task on which the committing call works: its new value is built on the
\* old one, or is the old one.
LEMMA CommittedTask ==
  ASSUME TypeOK, Leases!IInv, TaskInv, [Next]_vars, NEW o \in Ops, Commits(o),
         NEW t \in TaskIds, tasks'[ChatOf[o]][t] # tasks[ChatOf[o]][t]
  PROVE  /\ Worked(ChatOf[o], t)
         /\ tasks[ChatOf[o]][t].work # {} => Keeps(tasks'[ChatOf[o]][t], tasks[ChatOf[o]][t])
<1> DEFINE c == ChatOf[o]
           w == call[o]
           T == tasks[c]
<1>0. /\ c \in Chats /\ w \in Calls
      /\ pending[SessionOf[o]] = o
      /\ w.refused <=> w.target = NoTask
      /\ ~w.refused => Good(T, Reclaimed[c], lastOp[c], {w})
  BY CommitIsOwned
<1>1. o \in Live(pending) /\ TaskTypes
  BY <1>0, OwnOf, TypeParts DEF Live
<1>c. CommitTask(o) \/ CommitRefusal(o) \/ CommitNothing(o)
  BY DEF Commits, CommitFailure, CommitPair
<1>2. PICK v : /\ tasks' = [tasks EXCEPT ![c][w.target] = v] /\ ~w.refused
               /\ v = w.before \/ \E status \in {"active", "done"} : v = Accepted(o, status)
  <2>1. CASE CommitTask(o)
    <3>1. PICK status \in {"active", "done"} :
            tasks' = [tasks EXCEPT ![c][w.target] = Accepted(o, status)]
      BY <2>1 DEF CommitTask
    <3> QED
      BY <2>1, <3>1 DEF CommitTask
  <2>2. CASE Restore(o) /\ ~w.refused
    BY <2>2 DEF Restore
  <2> QED
    BY <1>c, <2>1, <2>2 DEF CommitRefusal, CommitNothing
<1>3. t = w.target /\ tasks'[c][t] = v
  BY <1>0, <1>1, <1>2 DEF TaskTypes
<1>4. Recorded(T, Reclaimed[c], lastOp[c], w)
  BY <1>0, <1>2 DEF Good
<1>5. T[t] # NoTask /\ T[t].work = IF w.before = NoTask THEN {} ELSE w.before.work
  BY <1>3, <1>4 DEF Recorded
<1>6. Worked(c, t)
  BY <1>1, <1>3 DEF Worked
<1>7. ASSUME T[t].work # {} PROVE Keeps(v, T[t])
  <2>1. w.before # NoTask /\ T[t].work = w.before.work
    BY <1>5, <1>7
  <2>2. CASE v = w.before
    BY <2>1, <2>2 DEF Keeps
  <2>3. ASSUME NEW status \in {"active", "done"}, v = Accepted(o, status) PROVE Keeps(v, T[t])
    <3>1. v.work = {o} \cup T[t].work
      BY <2>1, <2>3 DEF Accepted
    <3>2. v \in Tasks
      BY <1>0, <2>3 DEF Accepted, Calls, Tasks
    <3> QED
      BY <3>1, <3>2, TaskflowAssumption DEF Keeps
  <2> QED
    BY <1>2, <2>2, <2>3
<1> QED
  BY <1>3, <1>6, <1>7

\* The claim takes the task up, for a call that from then on works on it.
LEMMA ClaimedTask ==
  ASSUME TypeOK, FreshCalls, NEW o \in Ops, Claims(o), NEW t \in TaskIds,
         tasks'[ChatOf[o]][t] # tasks[ChatOf[o]][t]
  PROVE  /\ Worked(ChatOf[o], t)'
         /\ LET T == tasks[ChatOf[o]][t]
            IN  T # NoTask => tasks'[ChatOf[o]][t] = [T EXCEPT !.status = "active"]
<1> DEFINE c == ChatOf[o]
           task(u) == IF tasks[c][u] = NoTask THEN [status |-> "active", work |-> {}]
                      ELSE [tasks[c][u] EXCEPT !.status = "active"]
           new(u) == [Reads(o) EXCEPT !.target = u, !.before = tasks[c][u],
                                      !.oldOp = Reclaimed[c][call[o].client], !.oldId = lastOp[c][u]]
<1>0. /\ MgrTypeOK /\ TaskTypes /\ CallTypes /\ c \in Chats
      /\ SessionOf[o] \in Sessions /\ o # NoLease /\ call[o] \in Calls
  BY TypeParts, OwnOf DEF CallTypes
<1>1. Claim(o)
  BY DEF Claims, ClaimRefusal
<1>2. PICK u \in Targets(o) : /\ tasks' = [tasks EXCEPT ![c][u] = task(u)]
                              /\ call' = [call EXCEPT ![o] = new(u)]
  BY <1>1 DEF Claim
<1>3. u = t /\ tasks'[c][t] = task(t)
  BY <1>0, <1>2 DEF TaskTypes
<1>4. call'[o] = new(t)
  BY <1>0, <1>2, <1>3 DEF CallTypes
<1>5. new(t).target = t
  BY <1>0 DEF Reads, Calls
<1>6. pending'[SessionOf[o]] = o
  BY <1>0, <1>1, CandidateType DEF Claim, Publish
<1>7. o \in Live(pending)'
  BY <1>0, <1>6 DEF Live
<1>8. call'[o].target = t
  BY <1>4, <1>5
<1>9. Worked(c, t)'
  BY <1>7, <1>8 DEF Worked
<1> QED
  BY <1>3, <1>9

LEMMA StepOnTask ==
  ASSUME TypeOK, Leases!IInv, TaskInv, [Next]_vars, NEW c \in Chats, NEW t \in TaskIds
  PROVE  LET T == tasks[c][t]
             T1 == tasks'[c][t]
         IN
         \/ c \notin chats'
         \/ T1 = T
         \/ T # NoTask /\ T1 = [T EXCEPT !.status = "paused"]
         \/ Worked(c, t)' /\ (T # NoTask => T1 = [T EXCEPT !.status = "active"])
         \/ Worked(c, t) /\ (T.work # {} => Keeps(T1, T))
<1> DEFINE T == tasks[c][t]
           T1 == tasks'[c][t]
           Goal == \/ c \notin chats'
                   \/ T1 = T
                   \/ T # NoTask /\ T1 = [T EXCEPT !.status = "paused"]
                   \/ Worked(c, t)' /\ (T # NoTask => T1 = [T EXCEPT !.status = "active"])
                   \/ Worked(c, t) /\ (T.work # {} => Keeps(T1, T))
<1>0. TaskTypes
  BY TypeParts
<1>s. T1 = T => Goal
  OBVIOUS
<1>p. T # NoTask /\ T1 = [T EXCEPT !.status = "paused"] => Goal
  OBVIOUS
<1>1. ASSUME NEW o \in Ops, Claims(o) \/ Commits(o), ChatOf[o] # c PROVE Goal
  <2>1. T1 = T
    BY <1>0, <1>1 DEF Claims, Claim, ClaimRefusal, Commits, CommitTask, CommitRefusal, CommitNothing,
                      CommitFailure, CommitPair, Restore, TaskTypes
  <2> QED
    BY <1>s, <2>1
<1>2. ASSUME NEW o \in Ops, Claims(o), ChatOf[o] = c PROVE Goal
  BY <1>2, ClaimedTask DEF TaskInv
<1>3. ASSUME NEW o \in Ops, Commits(o), ChatOf[o] = c PROVE Goal
  BY <1>3, CommittedTask
<1>4. UNCHANGED tasks => Goal
  BY <1>s
<1>5. ASSUME NEW o \in Ops, Repause(o) PROVE Goal
  <2> DEFINE u == call[o].resumed
             d == ChatOf[o]
  <2>1. tasks' = [tasks EXCEPT ![d][u].status = IF @ = "done" THEN @ ELSE "paused"] /\ tasks[d][u] # NoTask
    BY <1>5 DEF Repause
  <2>2. CASE c = d /\ t = u
    <3>1. T1 = [T EXCEPT !.status = IF @ = "done" THEN @ ELSE "paused"] /\ T \in Tasks /\ T # NoTask
      BY <1>0, <2>1, <2>2 DEF TaskTypes
    <3>2. T.status = "done" => T1 = T
      BY <3>1 DEF Tasks
    <3>3. T.status # "done" => T1 = [T EXCEPT !.status = "paused"]
      BY <3>1
    <3> QED
      BY <1>p, <1>s, <3>1, <3>2, <3>3
  <2>3. CASE ~(c = d /\ t = u)
    <3>1. T1 = T
      BY <1>0, <2>1, <2>3 DEF TaskTypes
    <3> QED
      BY <1>s, <3>1
  <2> QED
    BY <2>2, <2>3
<1>6. ASSUME NEW d \in Chats, NEW u \in TaskIds, PauseTask(d, u) PROVE Goal
  <2>1. tasks' = [tasks EXCEPT ![d][u].status = "paused"] /\ tasks[d][u] # NoTask
    BY <1>6 DEF PauseTask
  <2>2. (T # NoTask /\ T1 = [T EXCEPT !.status = "paused"]) \/ T1 = T
    BY <1>0, <2>1 DEF TaskTypes
  <2> QED
    BY <1>p, <1>s, <2>2
<1>7. ASSUME NEW d \in Chats, DeleteChat(d) PROVE Goal
  <2>1. T1 = T \/ c \notin chats'
    BY <1>7 DEF DeleteChat, DeletedChat, RemoveChats, Dropped
  <2> QED
    BY <1>s, <2>1
<1>8. Restart => Goal
  BY <1>p, <1>s DEF Restart
<1>9. ASSUME NEW o \in Ops, Quiet(o) PROVE Goal
  BY <1>4, <1>9, QuietStep DEF taskVars
<1>10. \A d \in Chats : TitleWork(d) => Goal
  BY <1>4 DEF TitleWork
<1>11. Mutate \/ Close \/ UNCHANGED vars => Goal
  BY <1>4 DEF Mutate, Close, vars, taskVars
<1> HIDE DEF Goal
<1>12. Goal
  BY <1>1, <1>2, <1>3, <1>5, <1>6, <1>7, <1>8, <1>9, <1>10, <1>11, NextCases
<1> QED
  BY <1>12 DEF Goal

\* What a chain was accepted into a task stays in it: no refusal, pause, late
\* answer, reclaim or crash puts an older snapshot back over it.
THEOREM AcceptedWorkStays == Spec => AcceptedWorkIsKept
<1>1. ASSUME TypeOK, Leases!IInv, TaskInv, [Next]_vars, NEW c \in Chats, NEW t \in TaskIds,
             c \in chats', tasks[c][t] # NoTask, tasks[c][t].work # {}
      PROVE  Keeps(tasks'[c][t], tasks[c][t])
  <2> DEFINE T == tasks[c][t]
  <2>1. T \in Tasks
    BY <1>1, TypeParts DEF TaskTypes
  <2>2. \A st \in {"active", "paused"} : Keeps([T EXCEPT !.status = st], T)
    <3>1. \A st \in {"active", "paused"} : /\ [T EXCEPT !.status = st] \in Tasks
                                            /\ [T EXCEPT !.status = st].work = T.work
      BY <2>1 DEF Tasks
    <3> QED
      BY <3>1, TaskflowAssumption DEF Keeps
  <2>3. Keeps(T, T)
    BY <1>1 DEF Keeps
  <2> QED
    BY <1>1, <2>2, <2>3, StepOnTask
<1>2. TypeOK /\ Leases!IInv /\ TaskInv /\ [Next]_vars =>
        \A c \in Chats, t \in TaskIds :
          c \in chats' /\ tasks[c][t] # NoTask /\ tasks[c][t].work # {}
            => tasks'[c][t] # NoTask /\ tasks[c][t].work \subseteq tasks'[c][t].work
  BY <1>1 DEF Keeps
<1> QED
  BY <1>2, TasksAreSafe, PTL DEF Spec, AcceptedWorkIsKept

\* A paused task that nobody works on rests until a call claims it: the late
\* answer of the call that the pause has interrupted does not take it up again.
THEOREM PausedTasksRest == Spec => PausedTaskRests
<1>1. ASSUME TypeOK, Leases!IInv, TaskInv, [Next]_vars, NEW c \in Chats, NEW t \in TaskIds,
             c \in chats', tasks[c][t] # NoTask, tasks[c][t].status = "paused", ~Worked(c, t)
      PROVE  tasks'[c][t] = tasks[c][t] \/ Worked(c, t)'
  <2> DEFINE T == tasks[c][t]
  <2>1. T \in Tasks
    BY <1>1, TypeParts DEF TaskTypes
  <2>2. [T EXCEPT !.status = "paused"] = T
    BY <1>1, <2>1 DEF Tasks
  <2> QED
    BY <1>1, <2>2, StepOnTask
<1>2. TypeOK /\ Leases!IInv /\ TaskInv /\ [Next]_vars =>
        \A c \in Chats, t \in TaskIds :
          c \in chats' /\ tasks[c][t] # NoTask /\ tasks[c][t].status = "paused" /\ ~Worked(c, t)
            => tasks'[c][t] = tasks[c][t] \/ Worked(c, t)'
  BY <1>1
<1> QED
  BY <1>2, TasksAreSafe, PTL DEF Spec, PausedTaskRests
=============================================================================
