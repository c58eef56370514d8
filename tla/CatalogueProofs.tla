-------------------------- MODULE CatalogueProofs --------------------------
(***************************************************************************)
(* Safety of Catalogue for any budget, timeouts and number of deliveries.  *)
(***************************************************************************)
EXTENDS Catalogue, TLAPS

Queued == {queue[i] : i \in 1 .. Len(queue)}
ToolTexts == MatchStatuses \cup ToolErrors

\* The events the handler of request p owes to the journal.
Due(p) ==
  IF p = Deletion THEN {Record(p, "mcp_http", "status")}
  ELSE {Record(p, "mcp_http", "ok")} \cup
  IF p = 1 THEN {Record(p, "mcp_initialize", "ok")}
  ELSE IF p < Last THEN {}
  ELSE IF kind = "list" THEN {Record(p, "mcp_tools_list", "ok")}
  ELSE IF arguments = "invalid" THEN {Record(p, "mcp_tools_call", "INVALID_ARGUMENT")}
  ELSE {Record(p, "brewmark_request", Fetched(answer)),
        Record(p, "mcp_tools_call", Failure(answer))}

\* BrewMark is asked by the last POST of a well-formed call, and answers then.
OneRequest ==
  /\ asked \in {0, 1}
  /\ asked = 1 => posts = Last /\ Asks
  /\ handler = "upstream" => asked = 1
  /\ asked = 0 => answer = "missing"
  /\ handler = "publishing" /\ posts = Last /\ Asks => asked = 1 /\ answer # "missing"
  /\ handler # "idle" => posts \in 1 .. Last
  /\ closed => result # "pending" /\ handler \in {"idle", "closing"}
  /\ handler = "closing" => closed

\* What is recorded was due, and what is due is recorded or still queued.
Recorded ==
  /\ handled \subseteq journal \cup console
  /\ \A r \in journal \cup console :
       /\ r.request <= posts \/ (closed /\ r.request = Deletion)
       /\ handler = "upstream" => r.request < posts
       /\ r \in Due(r.request)
  /\ handler = "publishing" => Queued \subseteq Due(posts)
  /\ handler = "closing" => Queued \subseteq Due(Deletion)

Owed ==
  /\ handler = "publishing" => Due(posts) \subseteq handled \cup Queued
  /\ \A p \in 1 .. Last : p < posts => Due(p) \subseteq handled
  /\ handler = "idle" /\ result = "pending" /\ posts # 0 => Due(posts) \subseteq handled

Answered ==
  result \in ToolTexts =>
    /\ handler \in {"idle", "closing"} /\ posts = Last /\ kind = "call"
    /\ Due(Last) \subseteq handled
    /\ IF arguments = "invalid" THEN result = "INVALID_ARGUMENT"
       ELSE asked = 1 /\ answer \notin {"huge", "missing"} /\ result = ToolResult(answer)

IInv == TypeOK /\ OneRequest /\ Recorded /\ Owed /\ Answered

-----------------------------------------------------------------------------
\* What a step of emit does: at most the first event leaves the queue, and
\* only when it is in the journal or on the console.
Emits ==
  /\ handler \in {"publishing", "closing"} /\ queue # <<>>
  /\ UNCHANGED <<kind, arguments, limit, posts, result, closed, handler, waited, asked,
                 answer>>
  /\ clock' \in 0 .. Budget
  /\ tries' \in 0 .. Attempts - 1
  /\ journal \subseteq journal' /\ journal' \subseteq journal \cup {Head(queue)}
  /\ console \subseteq console' /\ console' \subseteq console \cup {Head(queue)}
  /\ \/ queue' = queue /\ handled' = handled
     \/ /\ queue' = Tail(queue) /\ handled' = handled \cup {Head(queue)}
        /\ Head(queue) \in journal' \cup console'

\* The head and the tail of a queue are what was queued.
LEMMA QueueSplits ==
  ASSUME queue \in Seq(Records), queue # <<>>
  PROVE  /\ Head(queue) \in Queued
         /\ Head(queue) \in Records
         /\ Tail(queue) \in Seq(Records)
         /\ Len(Tail(queue)) = Len(queue) - 1
         /\ Queued = {Head(queue)} \cup {Tail(queue)[i] : i \in 1 .. Len(Tail(queue))}
<1>1. Len(queue) \in Nat \ {0} /\ Head(queue) = queue[1]
  OBVIOUS
<1>2. Tail(queue) \in Seq(Records) /\ Len(Tail(queue)) = Len(queue) - 1
  OBVIOUS
<1>3. \A i \in 1 .. Len(Tail(queue)) : Tail(queue)[i] = queue[i + 1]
  OBVIOUS
<1>4. ASSUME NEW i \in 1 .. Len(queue)
      PROVE  queue[i] = Head(queue) \/ \E j \in 1 .. Len(Tail(queue)) : queue[i] = Tail(queue)[j]
  <2>1. CASE i = 1
    BY <1>1, <2>1
  <2>2. CASE i # 1
    <3>1. i - 1 \in 1 .. Len(Tail(queue)) /\ Tail(queue)[i - 1] = queue[i]
      BY <1>1, <1>2, <1>3, <2>2
    <3> QED BY <3>1
  <2> QED BY <2>1, <2>2
<1>5. \A j \in 1 .. Len(Tail(queue)) : j + 1 \in 1 .. Len(queue)
  BY <1>1, <1>2
<1>6. 1 \in 1 .. Len(queue)
  BY <1>1
<1>7. Queued \subseteq {Head(queue)} \cup {Tail(queue)[j] : j \in 1 .. Len(Tail(queue))}
  BY <1>4 DEF Queued
<1>8. {Tail(queue)[j] : j \in 1 .. Len(Tail(queue))} \subseteq Queued
  BY <1>3, <1>5 DEF Queued
<1>9. Head(queue) \in Queued /\ Head(queue) \in Records
  BY <1>1, <1>6 DEF Queued
<1> QED
  BY <1>2, <1>7, <1>8, <1>9

\* An event belongs to the POST it is due for.
LEMMA DueRequest ==
  ASSUME NEW p, NEW r \in Due(p)
  PROVE  r.request = p
<1>1. \A event, category : Record(p, event, category).request = p
  BY DEF Record
<1>2. \E event, category : r = Record(p, event, category)
  BY DEF Due
<1> QED
  BY <1>1, <1>2

\* A delivery keeps the invariant.
LEMMA EmitsKeeps ==
  ASSUME IInv, Emits
  PROVE  IInv'
<1> USE CatalogueAssumption
<1>1. /\ queue \in Seq(Records) /\ queue # <<>>
      /\ handler \in {"publishing", "closing"} /\ handler' = handler
  BY DEF IInv, TypeOK, Emits
<1>2. /\ Head(queue) \in Queued
      /\ Head(queue) \in Records
      /\ Tail(queue) \in Seq(Records)
      /\ Len(Tail(queue)) = Len(queue) - 1
      /\ Queued = {Head(queue)} \cup {Tail(queue)[i] : i \in 1 .. Len(Tail(queue))}
  BY <1>1, QueueSplits
<1>3. Queued' \subseteq Queued /\ handled \cup Queued = (handled \cup Queued)'
  <2>1. CASE queue' = queue /\ handled' = handled
    BY <2>1 DEF Queued
  <2>2. CASE queue' = Tail(queue) /\ handled' = handled \cup {Head(queue)}
    <3>1. Queued' = {Tail(queue)[i] : i \in 1 .. Len(Tail(queue))}
      BY <2>2 DEF Queued
    <3> QED BY <1>2, <2>2, <3>1
  <2> QED BY <2>1, <2>2 DEF Emits
<1>4. \A p : Due(p)' = Due(p)
  BY DEF Emits, Due, Failure, ToolResult, Fetched, MatchStatus, Record
<1>5. /\ posts' = posts /\ result' = result /\ asked' = asked /\ answer' = answer
      /\ kind' = kind /\ arguments' = arguments /\ closed' = closed
  BY DEF Emits
<1>6. TypeOK'
  <2>1. queue' \in Seq(Records) /\ Len(queue') <= 3
    <3>3. TypeOK
      BY DEF IInv
    <3>4. Len(queue) <= 3
      BY <3>3 DEF TypeOK
    <3>5. Len(queue) \in Nat
      BY <1>1
    <3>1. Len(queue) <= 3 /\ Len(queue) - 1 <= 3
      BY <3>4, <3>5
    <3>2. queue' = queue \/ queue' = Tail(queue)
      BY DEF Emits
    <3> QED BY <1>1, <1>2, <3>1, <3>2
  <2>2. journal' \subseteq Records /\ console' \subseteq Records /\ handled' \subseteq Records
    BY <1>2 DEF IInv, TypeOK, Emits
  <2>3. waited' \in 0 .. limit' /\ limit' \in Limits
    BY DEF IInv, TypeOK, Emits
  <2> QED BY <1>1, <1>5, <2>1, <2>2, <2>3 DEF IInv, TypeOK, Emits
<1>7. OneRequest'
  BY <1>1, <1>5 DEF IInv, OneRequest, Asks
<1>8. Recorded'
  <2>1. handled' \subseteq journal' \cup console'
    BY DEF IInv, Recorded, Emits
  <2>2. /\ Head(queue) \in Due(Head(queue).request)
        /\ \/ Head(queue).request = posts
           \/ closed /\ Head(queue).request = Deletion
    <3>1. CASE handler = "publishing"
      <4>1. Head(queue) \in Due(posts)
        BY <1>2, <3>1 DEF IInv, Recorded
      <4>2. Head(queue).request = posts
        BY <4>1, DueRequest
      <4> QED BY <4>1, <4>2
    <3>2. CASE handler = "closing"
      <4>1. Head(queue) \in Due(Deletion) /\ closed
        BY <1>2, <3>2 DEF IInv, Recorded, OneRequest
      <4>2. Head(queue).request = Deletion
        BY <4>1, DueRequest
      <4> QED BY <4>1, <4>2
    <3> QED BY <1>1, <3>1, <3>2
  <2>3. ASSUME NEW r \in journal' \cup console'
        PROVE  /\ r.request <= posts \/ (closed /\ r.request = Deletion)
               /\ r \in Due(r.request)
    <3>1. CASE r = Head(queue)
      <4>1. posts \in 0 .. 3
        BY DEF IInv, TypeOK, Last
      <4> QED BY <2>2, <3>1, <4>1
    <3>2. CASE r \in journal \cup console
      BY <3>2 DEF IInv, Recorded
    <3> QED BY <3>1, <3>2 DEF Emits
  <2>4. /\ handler = "publishing" => Queued' \subseteq Due(posts)
        /\ handler = "closing" => Queued' \subseteq Due(Deletion)
    BY <1>3 DEF IInv, Recorded
  <2> QED BY <1>1, <1>4, <1>5, <2>1, <2>3, <2>4 DEF Recorded
<1>9. Owed'
  <2>1. handled \subseteq handled'
    BY DEF Emits
  <2> QED BY <1>1, <1>3, <1>4, <1>5, <2>1 DEF IInv, Owed
<1>10. Answered'
  <2>1. handled \subseteq handled'
    BY DEF Emits
  <2>2. ToolResult(answer)' = ToolResult(answer)
    BY <1>5 DEF ToolResult, Fetched, MatchStatus
  <2>3. result' \in ToolTexts => Due(Last)' \subseteq handled'
    BY <1>4, <1>5, <2>1 DEF IInv, Answered
  <2> QED BY <1>1, <1>5, <2>2, <2>3 DEF IInv, Answered
<1> QED
  BY <1>6, <1>7, <1>8, <1>9, <1>10 DEF IInv

\* The method gives up on its own: nothing of the server changes.
LEMMA GivingUpKeeps ==
  ASSUME IInv, result = "pending", result' \in ClientErrors,
         UNCHANGED <<kind, arguments, limit, posts, clock, closed, handler, upstream, trace>>
  PROVE  IInv'
<1>1. /\ kind' = kind /\ arguments' = arguments /\ limit' = limit /\ posts' = posts
      /\ clock' = clock /\ handler' = handler /\ waited' = waited /\ asked' = asked
      /\ answer' = answer /\ queue' = queue /\ tries' = tries /\ journal' = journal
      /\ console' = console /\ handled' = handled /\ closed' = closed
  BY DEF upstream, trace
<1>2. /\ result' \in Results /\ result' # "pending"
      /\ result' \notin ToolTexts
  BY DEF Results, ClientErrors, ToolTexts, MatchStatuses, ToolErrors
<1>3. \A p : Due(p)' = Due(p)
  BY <1>1 DEF Due, Failure, ToolResult, Fetched, MatchStatus, Record
<1>4. Queued' = Queued
  BY <1>1 DEF Queued
<1>5. TypeOK'
  BY <1>1, <1>2 DEF IInv, TypeOK
<1>6. OneRequest'
  BY <1>1, <1>2 DEF IInv, OneRequest, Asks
<1>7. Recorded'
  BY <1>1, <1>3, <1>4 DEF IInv, Recorded
<1>8. Owed'
  BY <1>1, <1>2, <1>3, <1>4 DEF IInv, Owed
<1>9. Answered'
  BY <1>2 DEF Answered
<1> QED
  BY <1>5, <1>6, <1>7, <1>8, <1>9 DEF IInv

LEMMA InitHolds ==
  Init => IInv
<1> SUFFICES ASSUME Init PROVE IInv
  OBVIOUS
<1> USE CatalogueAssumption
<1>1. TypeOK
  <2>1. closed \in BOOLEAN
    BY DEF Init
  <2> QED BY <2>1 DEF Init, TypeOK, Last
<1>2. OneRequest /\ Owed /\ Answered
  BY DEF Init, OneRequest, Owed, Answered, ToolTexts, MatchStatuses, ToolErrors, Last
<1>3. Recorded
  BY DEF Init, Recorded
<1> QED
  BY <1>1, <1>2, <1>3 DEF IInv

LEMMA SendKeeps ==
  ASSUME IInv, Send
  PROVE  IInv'
<1>1. /\ result = "pending" /\ handler = "idle" /\ posts \in 0 .. 2 /\ posts' = posts + 1
      /\ posts' \in 1 .. 3
  BY DEF IInv, TypeOK, Send, Last
<1>2. /\ kind' = kind /\ arguments' = arguments /\ limit' = limit /\ clock' = clock
      /\ result' = result /\ waited' = waited /\ answer' = answer /\ tries' = tries
      /\ journal' = journal /\ console' = console /\ handled' = handled
      /\ closed' = closed
  BY DEF Send
<1>3. asked = 0 /\ answer = "missing" /\ ~closed
  BY <1>1 DEF IInv, OneRequest, Last
<1>4. \A p : Due(p)' = Due(p)
  BY <1>2 DEF Due, Failure, ToolResult, Fetched, MatchStatus, Record
<1>5. \A p \in 1 .. Last : p < posts' => Due(p) \subseteq handled
  <2>1. ASSUME NEW p \in 1 .. Last, p < posts'
        PROVE  p < posts \/ p = posts
    BY <1>1, <2>1 DEF Last
  <2>2. posts # 0 => Due(posts) \subseteq handled
    BY <1>1 DEF IInv, Owed
  <2>3. \A p \in 1 .. Last : p < posts => Due(p) \subseteq handled
    BY DEF IInv, Owed
  <2>4. \A p \in 1 .. Last : p = posts => posts # 0
    BY <1>1 DEF Last
  <2> QED
    BY <2>1, <2>2, <2>3, <2>4
<1>6. \A r \in journal \cup console : r.request < posts' /\ r \in Due(r.request)
  <2>1. ASSUME NEW r \in journal \cup console
        PROVE  r.request < posts' /\ r \in Due(r.request)
    <3>1. r.request <= posts /\ r \in Due(r.request) /\ r \in Records
      BY <1>3 DEF IInv, Recorded, TypeOK
    <3>2. r.request \in 1 .. 4
      BY <3>1 DEF Records, Last, Deletion
    <3>3. posts \in Nat /\ posts' = posts + 1 /\ r.request <= posts
      BY <1>1, <3>1
    <3>4. r.request < posts'
      BY <3>2, <3>3
    <3> QED BY <3>1, <3>4
  <2> QED BY <2>1
<1>10. ~closed'
  BY <1>2, <1>3
<1>7. result' \notin ToolTexts
  BY <1>1, <1>2 DEF ToolTexts, MatchStatuses, ToolErrors
<1>8. CASE posts' = Last /\ Asks
  <2>1. handler' = "upstream" /\ queue' = <<>> /\ asked' = asked + 1
    BY <1>8 DEF Send, Asks
  <2>2. queue' \in Seq(Records) /\ Len(queue') = 0
    BY <2>1
  <2>3. asked' = 1
    <3>1. asked = 0
      BY <1>3
    <3>2. asked' = asked + 1
      BY <2>1
    <3> QED BY <3>1, <3>2
  <2>4. TypeOK'
    BY <1>1, <1>2, <2>1, <2>2, <2>3 DEF IInv, TypeOK, Last
  <2>5. OneRequest'
    BY <1>1, <1>2, <1>8, <1>10, <2>1, <2>3 DEF OneRequest, Asks, Last
  <2>6. Recorded'
    <3>1. handled' \subseteq journal' \cup console'
      BY <1>2 DEF IInv, Recorded
    <3>2. \A r \in journal' \cup console' : r.request <= posts' /\ r.request < posts'
      <4>1. \A r \in journal \cup console : r.request \in 1 .. 4
        BY DEF IInv, TypeOK, Records, Last, Deletion
      <4> QED BY <1>1, <1>2, <1>6, <4>1
    <3> QED BY <1>2, <1>4, <1>6, <2>1, <3>1, <3>2 DEF Recorded
  <2>7. Owed'
    BY <1>2, <1>4, <1>5, <2>1 DEF Owed
  <2> QED
    BY <1>7, <2>4, <2>5, <2>6, <2>7 DEF IInv, Answered
<1>9. CASE ~(posts' = Last /\ Asks)
  <2> DEFINE http == Record(posts', "mcp_http", "ok")
  <2>1. /\ handler' = "publishing" /\ asked' = asked
        /\ queue' = Observed(posts')
    BY <1>9 DEF Send, Asks
  <2>2. http \in Records
    BY <1>1 DEF Record, Records, Last, Deletion, Categories
  <2>3. \/ queue' = <<http>> /\ Due(posts') = {http}
        \/ \E r \in Records : /\ queue' = <<r, http>>
                              /\ Due(posts') = {r, http}
    <3>1. CASE posts' = 1
      <4>1. /\ Observed(posts') = <<Record(posts', "mcp_initialize", "ok"), http>>
            /\ Due(posts') = {Record(posts', "mcp_initialize", "ok"), http}
        BY <3>1 DEF Observed, Due, Last, Deletion
      <4>2. Record(posts', "mcp_initialize", "ok") \in Records
        BY <1>1 DEF Record, Records, Last, Deletion, Categories
      <4> QED BY <2>1, <2>2, <4>1, <4>2
    <3>2. CASE posts' = 2
      <4>1. Observed(posts') = <<http>> /\ Due(posts') = {http}
        BY <3>2 DEF Observed, Due, Last, Deletion
      <4> QED BY <2>1, <4>1
    <3>3. CASE posts' = 3
      <4>1. CASE kind = "list"
        <5>1. /\ Observed(posts') = <<Record(posts', "mcp_tools_list", "ok"), http>>
              /\ Due(posts') = {Record(posts', "mcp_tools_list", "ok"), http}
          BY <3>3, <4>1 DEF Observed, Due, Last, Deletion
        <5>2. Record(posts', "mcp_tools_list", "ok") \in Records
          BY <1>1 DEF Record, Records, Last, Deletion, Categories
        <5> QED BY <2>1, <2>2, <5>1, <5>2
      <4>2. CASE kind # "list"
        <5>1. arguments = "invalid"
          BY <1>9, <3>3, <4>2 DEF IInv, TypeOK, Asks, Last
        <5>2. /\ Observed(posts') = <<Record(posts', "mcp_tools_call", "INVALID_ARGUMENT"), http>>
              /\ Due(posts') = {Record(posts', "mcp_tools_call", "INVALID_ARGUMENT"),
                                http}
          BY <3>3, <4>2, <5>1 DEF Observed, Due, Last, Deletion
        <5>3. Record(posts', "mcp_tools_call", "INVALID_ARGUMENT") \in Records
          BY <1>1 DEF Record, Records, Last, Deletion, Categories, ToolErrors
        <5> QED BY <2>1, <2>2, <5>2, <5>3
      <4> QED BY <4>1, <4>2
    <3> QED BY <1>1, <3>1, <3>2, <3>3
  <2>4. queue' \in Seq(Records) /\ Len(queue') <= 3 /\ Queued' = Due(posts')
    <3>1. CASE queue' = <<http>> /\ Due(posts') = {http}
      <4>1. queue' \in Seq(Records) /\ Len(queue') = 1 /\ queue'[1] = http
        BY <2>2, <3>1
      <4>2. Queued' = {queue'[1]}
        BY <4>1 DEF Queued
      <4> QED BY <3>1, <4>1, <4>2
    <3>2. ASSUME NEW r \in Records, queue' = <<r, http>>,
                 Due(posts') = {r, http}
          PROVE  queue' \in Seq(Records) /\ Len(queue') <= 3 /\ Queued' = Due(posts')
      <4>1. /\ queue' \in Seq(Records) /\ Len(queue') = 2
            /\ queue'[1] = r /\ queue'[2] = http
        BY <2>2, <3>2
      <4>2. 1 .. 2 = {1, 2}
        OBVIOUS
      <4>3. Queued' = {queue'[1], queue'[2]}
        BY <4>1, <4>2 DEF Queued
      <4> QED BY <3>2, <4>1, <4>3
    <3> QED BY <2>3, <3>1, <3>2
  <2>5. TypeOK'
    BY <1>1, <1>2, <2>1, <2>4 DEF IInv, TypeOK, Last
  <2>6. OneRequest'
    BY <1>1, <1>2, <1>3, <1>9, <1>10, <2>1 DEF OneRequest, Asks, Last
  <2>7. Recorded'
    <3>1. handled' \subseteq journal' \cup console'
      BY <1>2 DEF IInv, Recorded
    <3>2. \A r \in journal' \cup console' : r.request <= posts'
      <4>1. \A r \in journal \cup console : r.request \in 1 .. 4
        BY DEF IInv, TypeOK, Records, Last, Deletion
      <4> QED BY <1>1, <1>2, <1>6, <4>1
    <3> QED BY <1>2, <1>4, <1>6, <2>1, <2>4, <3>1, <3>2 DEF Recorded
  <2>8. Owed'
    BY <1>2, <1>4, <1>5, <2>1, <2>4 DEF Owed
  <2> QED
    BY <1>7, <2>5, <2>6, <2>7, <2>8 DEF IInv, Answered
<1> QED
  BY <1>8, <1>9

LEMMA WaitKeeps ==
  ASSUME IInv, Wait
  PROVE  IInv'
<1> USE CatalogueAssumption
<1>1. /\ handler = "upstream" /\ kind' = kind /\ arguments' = arguments /\ limit' = limit
      /\ posts' = posts /\ result' = result /\ handler' = handler /\ asked' = asked
      /\ answer' = answer /\ queue' = queue /\ tries' = tries /\ journal' = journal
      /\ console' = console /\ handled' = handled /\ closed' = closed
  BY DEF Wait, Pass, trace
<1>2. clock' \in 0 .. Budget
  BY DEF IInv, TypeOK, Wait, Pass
<1>3. waited' \in 0 .. limit
  BY DEF IInv, TypeOK, Wait
<1>4. \A p : Due(p)' = Due(p)
  BY <1>1 DEF Due, Failure, ToolResult, Fetched, MatchStatus, Record
<1>5. Queued' = Queued
  BY <1>1 DEF Queued
<1>6. TypeOK'
  BY <1>1, <1>2, <1>3 DEF IInv, TypeOK
<1>7. OneRequest'
  BY <1>1 DEF IInv, OneRequest, Asks
<1>8. Recorded'
  BY <1>1, <1>4, <1>5 DEF IInv, Recorded
<1>9. Owed' /\ Answered'
  BY <1>1, <1>4, <1>5 DEF IInv, Owed, Answered
<1> QED
  BY <1>6, <1>7, <1>8, <1>9 DEF IInv

LEMMA FetchKeeps ==
  ASSUME IInv, Fetch
  PROVE  IInv'
<1>1. /\ handler = "upstream" /\ handler' = "publishing"
      /\ answer' \in Answers \cup NoAnswer
      /\ kind' = kind /\ arguments' = arguments /\ limit' = limit /\ posts' = posts
      /\ clock' = clock /\ result' = result /\ waited' = waited /\ asked' = asked
      /\ tries' = tries /\ journal' = journal /\ console' = console /\ handled' = handled
      /\ closed' = closed
  BY DEF Fetch, client
<1>2. asked = 1 /\ posts = Last /\ Asks /\ answer' # "missing" /\ ~closed
  BY <1>1 DEF IInv, OneRequest, Answers, Listed, NoAnswer
<1> DEFINE get == Record(posts, "brewmark_request", Fetched(answer'))
           tool == Record(posts, "mcp_tools_call", Failure(answer'))
           http == Record(posts, "mcp_http", "ok")
<1>3. get \in Records /\ tool \in Records /\ http \in Records
  <2>1. Fetched(answer') \in Categories
    BY DEF Fetched, Categories, ToolErrors
  <2>2. Failure(answer') \in Categories
    BY DEF Failure, Categories
  <2>3. posts \in 1 .. Last
    BY <1>2 DEF Last
  <2> QED BY <2>1, <2>2, <2>3 DEF Record, Records, Last, Deletion, Categories
<1>4. queue' = <<get, tool, http>>
  BY DEF Fetch
<1>5. Due(posts)' = {get, tool, http}
  <2>1. posts' = Last /\ kind' # "list" /\ arguments' # "invalid"
    BY <1>1, <1>2 DEF Asks
  <2>2. /\ Fetched(answer)' = Fetched(answer') /\ Failure(answer)' = Failure(answer')
    BY <1>1 DEF Fetched, Failure, ToolResult, MatchStatus
  <2>3. ~(posts' < Last) /\ posts' # 1 /\ posts' # Deletion
    BY <2>1 DEF Last, Deletion
  <2> QED BY <1>1, <2>1, <2>2, <2>3 DEF Due, Record
<1>6. \A p : p < Last => Due(p)' = Due(p)
  BY <1>1 DEF Due, Record
<1>7. queue' \in Seq(Records) /\ Len(queue') = 3 /\ Queued' = {get, tool, http}
  <2>1. /\ queue' \in Seq(Records) /\ Len(queue') = 3
        /\ queue'[1] = get /\ queue'[2] = tool /\ queue'[3] = http
    BY <1>3, <1>4
  <2>2. 1 .. 3 = {1, 2, 3}
    OBVIOUS
  <2>3. Queued' = {queue'[1], queue'[2], queue'[3]}
    BY <2>1, <2>2 DEF Queued
  <2> QED BY <2>1, <2>3
<1>8. TypeOK'
  BY <1>1, <1>7 DEF IInv, TypeOK
<1>9. OneRequest'
  BY <1>1, <1>2 DEF OneRequest, Asks, Last
<1>10. Recorded'
  <2>1. \A r \in journal \cup console : r.request < posts /\ r \in Due(r.request)
    BY <1>1, <1>2 DEF IInv, Recorded
  <2>2. \A r \in journal \cup console : r \in Due(r.request)' /\ r.request <= posts
    <3>1. \A r \in journal \cup console : r.request \in 1 .. 4
      BY DEF IInv, TypeOK, Records, Last, Deletion
    <3> QED BY <1>2, <1>6, <2>1, <3>1 DEF Last
  <2>3. handled \subseteq journal \cup console
    BY DEF IInv, Recorded
  <2> QED BY <1>1, <1>5, <1>7, <2>2, <2>3 DEF Recorded
<1>11. Owed'
  <2>1. \A p \in 1 .. Last : p < posts => Due(p)' \subseteq handled
    BY <1>2, <1>6 DEF IInv, Owed
  <2> QED BY <1>1, <1>5, <1>7, <2>1 DEF Owed
<1>12. Answered'
  BY <1>1 DEF IInv, Answered
<1> QED
  BY <1>8, <1>9, <1>10, <1>11, <1>12 DEF IInv

LEMMA RespondKeeps ==
  ASSUME IInv, Respond
  PROVE  IInv'
<1>1. /\ handler \in {"publishing", "closing"} /\ handler' = "idle" /\ queue = <<>>
      /\ kind' = kind /\ arguments' = arguments /\ limit' = limit /\ posts' = posts
      /\ clock' = clock /\ waited' = waited /\ asked' = asked /\ answer' = answer
      /\ queue' = queue /\ tries' = tries /\ journal' = journal
      /\ console' = console /\ handled' = handled /\ closed' = closed
  BY DEF Respond, upstream, trace
<1>2. \A p : Due(p)' = Due(p)
  BY <1>1 DEF Due, Failure, ToolResult, Fetched, MatchStatus, Record
<1>3. result = "pending" => handler = "publishing" /\ Due(posts) \subseteq handled
  <2>1. Len(queue) = 0
    BY <1>1
  <2>2. Queued = {}
    BY <2>1 DEF Queued
  <2>3. result = "pending" => handler = "publishing"
    BY <1>1 DEF IInv, OneRequest
  <2> QED BY <2>2, <2>3 DEF IInv, Owed
<1>4. posts \in 1 .. Last
  BY <1>1 DEF IInv, OneRequest
<1>5. Received \subseteq Results
  BY DEF Received, Fits, Results, ToolResult, Fetched, MatchStatus, ToolErrors, MatchStatuses,
         ClientErrors
<1>6. TypeOK'
  <2>1. result' \in Results \cup {"pending"}
    BY <1>5 DEF IInv, TypeOK, Respond
  <2> QED BY <1>1, <2>1 DEF IInv, TypeOK
<1>11. result' = "pending" => result = "pending"
  BY DEF Respond
<1>7. OneRequest'
  BY <1>1, <1>11 DEF IInv, OneRequest, Asks
<1>8. Recorded'
  BY <1>1, <1>2 DEF IInv, Recorded
<1>9. Owed'
  BY <1>1, <1>2, <1>3, <1>11 DEF IInv, Owed
<1>10. Answered'
  <2>1. CASE result = "pending" /\ posts = Last
    <3>1. result' \in Received
      BY <2>1 DEF Respond
    <3>2. CASE kind = "list"
      <4>1. result' \notin ToolTexts
        BY <3>1, <3>2 DEF Received, Fits, ToolTexts, MatchStatuses, ToolErrors
      <4> QED BY <4>1 DEF Answered
    <3>3. CASE kind # "list" /\ arguments = "invalid"
      <4>1. kind = "call" /\ result' = "INVALID_ARGUMENT"
        BY <3>1, <3>3 DEF Received, Fits, IInv, TypeOK
      <4> QED BY <1>1, <1>2, <1>3, <2>1, <3>3, <4>1 DEF Answered
    <3>4. CASE kind # "list" /\ arguments # "invalid"
      <4>1. kind = "call" /\ asked = 1
        BY <1>1, <2>1, <3>4 DEF IInv, TypeOK, OneRequest, Asks
      <4>4. answer # "missing"
        BY <1>1, <2>1, <3>4, <4>1 DEF IInv, OneRequest, Asks
      <4>2. CASE answer = "huge"
        <5>1. result' \notin ToolTexts
          BY <3>1, <3>4, <4>2 DEF Received, Fits, ToolTexts, MatchStatuses, ToolErrors
        <5> QED BY <5>1 DEF Answered
      <4>3. CASE answer # "huge"
        <5>1. result' = ToolResult(answer) /\ ToolResult(answer)' = ToolResult(answer)
          BY <1>1, <3>1, <3>4, <4>3 DEF Received, Fits, ToolResult, Fetched, MatchStatus
        <5> QED BY <1>1, <1>2, <1>3, <2>1, <3>4, <4>1, <4>3, <4>4, <5>1 DEF Answered
      <4> QED BY <4>2, <4>3
    <3> QED BY <3>2, <3>3, <3>4
  <2>2. CASE ~(result = "pending" /\ posts = Last)
    <3>1. result' = result
      BY <2>2 DEF Respond
    <3>2. ToolResult(answer)' = ToolResult(answer)
      BY <1>1 DEF ToolResult, Fetched, MatchStatus
    <3> QED BY <1>1, <1>2, <3>1, <3>2 DEF IInv, Answered
  <2> QED BY <2>1, <2>2
<1> QED
  BY <1>6, <1>7, <1>8, <1>9, <1>10 DEF IInv

LEMMA CrashKeeps ==
  ASSUME IInv, Crash
  PROVE  IInv'
<1> USE CatalogueAssumption
<1>1. /\ handler # "idle" /\ handler' = "idle" /\ queue' = <<>> /\ tries' = 0
      /\ kind' = kind /\ arguments' = arguments /\ limit' = limit /\ posts' = posts
      /\ clock' = clock /\ waited' = waited /\ asked' = asked /\ answer' = answer
      /\ journal' = journal /\ console' = console /\ handled' = handled
      /\ closed' = closed
      /\ result' = IF result = "pending" THEN "MCP_UNAVAILABLE" ELSE result
  BY DEF Crash, upstream
<1>2. \A p : Due(p)' = Due(p)
  BY <1>1 DEF Due, Failure, ToolResult, Fetched, MatchStatus, Record
<1>3. result' # "pending" /\ (result' \in ToolTexts => result' = result)
  BY <1>1 DEF ToolTexts, MatchStatuses, ToolErrors
<1>8. ToolResult(answer)' = ToolResult(answer)
  BY <1>1 DEF ToolResult, Fetched, MatchStatus
<1>4. TypeOK'
  <2>1. queue' \in Seq(Records) /\ Len(queue') = 0
    BY <1>1
  <2>2. result' \in Results \cup {"pending"}
    BY <1>1 DEF IInv, TypeOK, Results, ClientErrors
  <2>3. tries' \in 0 .. Attempts - 1
    BY <1>1
  <2> QED BY <1>1, <2>1, <2>2, <2>3 DEF IInv, TypeOK
<1>5. OneRequest'
  BY <1>1, <1>3 DEF IInv, OneRequest, Asks
<1>6. Recorded'
  BY <1>1, <1>2 DEF IInv, Recorded
<1>7. Owed' /\ Answered'
  BY <1>1, <1>2, <1>3, <1>8 DEF IInv, Owed, Answered
<1> QED
  BY <1>4, <1>5, <1>6, <1>7 DEF IInv

LEMMA CloseKeeps ==
  ASSUME IInv, Close
  PROVE  IInv'
<1> DEFINE http == Record(Deletion, "mcp_http", "status")
<1>1. /\ result # "pending" /\ ~closed /\ posts > 1 /\ handler = "idle"
      /\ closed' = TRUE /\ handler' = "closing" /\ queue' = <<http>>
      /\ kind' = kind /\ arguments' = arguments /\ limit' = limit /\ posts' = posts
      /\ clock' = clock /\ result' = result /\ waited' = waited /\ asked' = asked
      /\ answer' = answer /\ tries' = tries /\ journal' = journal
      /\ console' = console /\ handled' = handled
  BY DEF Close, upstream
<1>2. \A p : Due(p)' = Due(p)
  BY <1>1 DEF Due, Failure, ToolResult, Fetched, MatchStatus, Record
<1>3. Due(Deletion) = {http}
  BY DEF Due
<1>4. http \in Records
  BY DEF Record, Records, Last, Deletion, Categories
<1>5. queue' \in Seq(Records) /\ Len(queue') = 1 /\ queue'[1] = http
  BY <1>1, <1>4
<1>6. Queued' = {http}
  <2>1. Queued' = {queue'[1]}
    BY <1>5 DEF Queued
  <2> QED BY <1>5, <2>1
<1>7. TypeOK'
  BY <1>1, <1>5 DEF IInv, TypeOK
<1>8. OneRequest'
  <2>1. posts \in 1 .. Last
    BY <1>1 DEF IInv, TypeOK, Last
  <2> QED BY <1>1, <2>1 DEF IInv, OneRequest, Asks
<1>9. Recorded'
  BY <1>1, <1>2, <1>3, <1>6 DEF IInv, Recorded
<1>10. Owed' /\ Answered'
  BY <1>1, <1>2 DEF IInv, Owed, Answered, ToolResult, Fetched, MatchStatus
<1> QED
  BY <1>7, <1>8, <1>9, <1>10 DEF IInv

LEMMA DeliveryEmits ==
  ASSUME IInv, Accepted \/ Rejected \/ AnswerLost \/ Hangs
  PROVE  Emits
<1> USE CatalogueAssumption
<1>1. handler \in {"publishing", "closing"} /\ queue # <<>>
  BY DEF Accepted, Rejected, AnswerLost, Hangs, Publishing
<1>2. UNCHANGED <<kind, arguments, limit, posts, result, closed, handler, waited, asked, answer>>
  BY DEF Accepted, Rejected, AnswerLost, Hangs, Pass, client, upstream
<1>3. clock' \in 0 .. Budget
  <2>1. clock \in 0 .. Budget
    BY DEF IInv, TypeOK
  <2>2. clock' = clock \/ (clock' = clock + 1 /\ clock < Budget)
    BY DEF Accepted, Rejected, AnswerLost, Hangs, Pass, client
  <2> QED BY <2>1, <2>2
<1>4. tries' \in 0 .. Attempts - 1
  <2>1. tries \in 0 .. Attempts - 1
    BY DEF IInv, TypeOK
  <2>2. tries' = 0 \/ (tries' = tries + 1 /\ tries + 1 < Attempts)
    BY DEF Accepted, Rejected, AnswerLost, Hangs, Undelivered, GiveUp, Done
  <2> QED BY <2>1, <2>2
<1>5. journal \subseteq journal' /\ journal' \subseteq journal \cup {Head(queue)}
  BY DEF Accepted, Rejected, AnswerLost, Hangs
<1>6. console \subseteq console' /\ console' \subseteq console \cup {Head(queue)}
  BY DEF Accepted, Rejected, AnswerLost, Hangs, Undelivered, GiveUp
<1>7. \/ queue' = queue /\ handled' = handled
      \/ /\ queue' = Tail(queue) /\ handled' = handled \cup {Head(queue)}
         /\ Head(queue) \in journal' \cup console'
  BY DEF Accepted, Rejected, AnswerLost, Hangs, Undelivered, GiveUp, Done
<1> QED
  BY <1>1, <1>2, <1>3, <1>4, <1>5, <1>6, <1>7 DEF Emits

LEMMA StepKeeps ==
  IInv /\ [Next]_vars => IInv'
<1> SUFFICES ASSUME IInv, [Next]_vars PROVE IInv'
  OBVIOUS
<1>1. CASE Send
  BY <1>1, SendKeeps
<1>2. CASE Unreachable
  <2>1. "MCP_UNAVAILABLE" \in ClientErrors /\ "MCP_PROTOCOL_ERROR" \in ClientErrors
    BY DEF ClientErrors
  <2> QED BY <1>2, <2>1, GivingUpKeeps DEF Unreachable
<1>3. CASE TimeOut
  <2>1. "MCP_TIMEOUT" \in ClientErrors
    BY DEF ClientErrors
  <2> QED BY <1>3, <2>1, GivingUpKeeps DEF TimeOut
<1>4. CASE Wait
  BY <1>4, WaitKeeps
<1>5. CASE Fetch
  BY <1>5, FetchKeeps
<1>6. CASE Accepted \/ Rejected \/ AnswerLost \/ Hangs
  BY <1>6, DeliveryEmits, EmitsKeeps
<1>7. CASE Respond
  BY <1>7, RespondKeeps
<1>8. CASE Crash
  BY <1>8, CrashKeeps
<1>10. CASE Close
  BY <1>10, CloseKeeps
<1>9. CASE UNCHANGED vars
  <2>1. \A p : Due(p)' = Due(p)
    BY <1>9 DEF vars, Due, Failure, ToolResult, Fetched, MatchStatus, Record
  <2>2. Queued' = Queued
    BY <1>9 DEF vars, Queued
  <2>3. TypeOK' /\ OneRequest'
    BY <1>9 DEF vars, IInv, TypeOK, OneRequest, Asks
  <2>4. Recorded' /\ Owed'
    BY <1>9, <2>1, <2>2 DEF vars, IInv, Recorded, Owed
  <2>5. Answered'
    BY <1>9, <2>1 DEF vars, IInv, Answered, ToolResult, Fetched, MatchStatus
  <2> QED BY <2>3, <2>4, <2>5 DEF IInv
<1> QED
  BY <1>1, <1>2, <1>3, <1>4, <1>5, <1>6, <1>7, <1>8, <1>9, <1>10 DEF Next

LEMMA Invariance ==
  Spec => []IInv
<1> QED
  BY InitHolds, StepKeeps, PTL DEF Spec

-----------------------------------------------------------------------------
(***************************************************************************)
(* The variables keep their types: the deliveries of an event are counted  *)
(* within their number, and the age of a session within its budget.        *)
(***************************************************************************)
THEOREM TypeCorrect == Spec => []TypeOK
<1>1. IInv => TypeOK
  BY DEF IInv
<1> QED
  BY <1>1, Invariance, PTL

(***************************************************************************)
(* mcpclient.Call executes one broker request at most, with any timeouts,  *)
(* and none after its result is decided.                                   *)
(***************************************************************************)
THEOREM OneBrokerRequest == Spec => AskedOnce
<1> DEFINE Asking == asked' # asked => asked = 0 /\ asked' = 1 /\ result = "pending"
<1>1. IInv /\ [Next]_vars => [Asking]_vars
  <2> SUFFICES ASSUME IInv, Next, asked' # asked
               PROVE  asked = 0 /\ asked' = 1 /\ result = "pending"
    BY DEF vars
  <2>1. Send
    BY DEF Next, Unreachable, TimeOut, Close, Wait, Fetch, Accepted, Rejected, AnswerLost,
           Hangs, Respond, Crash, upstream
  <2>2. result = "pending" /\ asked' = asked + 1 /\ posts < Last
    BY <2>1 DEF Send
  <2>3. asked = 0
    BY <2>2 DEF IInv, OneRequest, Last
  <2> QED BY <2>2, <2>3
<1> QED
  BY <1>1, Invariance, PTL DEF Spec, AskedOnce

(***************************************************************************)
(* A match status comes from a well-formed answer of the same session.     *)
(***************************************************************************)
THEOREM ResultsAreTrue == Spec => []ResultIsTrue
<1>1. IInv => ResultIsTrue
  <2> SUFFICES ASSUME IInv PROVE ResultIsTrue
    OBVIOUS
  <2>1. CASE result \notin MatchStatuses
    BY <2>1 DEF ResultIsTrue, MatchStatuses
  <2>2. CASE result \in MatchStatuses
    <3>1. /\ arguments # "invalid"
          /\ answer \notin {"huge", "missing"} /\ result = ToolResult(answer)
      BY <2>2 DEF IInv, Answered, ToolTexts, MatchStatuses
    <3>2. answer \in Answers \cup NoAnswer \cup {"missing"}
      BY DEF IInv, TypeOK
    <3> QED BY <2>2, <3>1, <3>2
        DEF ResultIsTrue, ToolResult, Fetched, MatchStatus, MatchStatuses, Answers, Listed, NoAnswer
  <2> QED BY <2>1, <2>2
<1> QED
  BY <1>1, Invariance, PTL

(***************************************************************************)
(* Whatever the collector does, a tool result reaches barista-api after    *)
(* its events were recorded or reported as undeliverable, and they agree.  *)
(***************************************************************************)
THEOREM AnswersAreTraced == Spec => []AnsweredIsTraced
<1>1. IInv => AnsweredIsTraced
  <2> SUFFICES ASSUME IInv PROVE AnsweredIsTraced
    OBVIOUS
  <2>1. handled \subseteq journal \cup console
    BY DEF IInv, Recorded
  <2>2. ASSUME result \in ToolTexts
        PROVE  /\ 1 .. Last \subseteq {r.request : r \in Told("mcp_http")}
               /\ {r.category : r \in Told("mcp_tools_call")} =
                    {IF result \in ToolErrors THEN result ELSE "ok"}
               /\ asked = 1 => Told("brewmark_request") # {}
    <3>1. /\ posts = Last /\ kind = "call"
          /\ Due(Last) \subseteq handled
      BY <2>2 DEF IInv, Answered
    <3>2. \A p \in 1 .. Last : Due(p) \subseteq journal \cup console
      <4>1. \A p \in 1 .. Last : p < Last => Due(p) \subseteq handled
        BY <3>1 DEF IInv, Owed
      <4>2. \A p \in 1 .. Last : p < Last \/ p = Last
        BY DEF Last
      <4> QED BY <2>1, <3>1, <4>1, <4>2
    <3>3. \A r \in journal \cup console : r.request \in 1 .. Deletion /\ r \in Due(r.request)
      BY DEF IInv, TypeOK, Recorded, Records
    <3>4. 1 .. Last \subseteq {r.request : r \in Told("mcp_http")}
      <4>1. ASSUME NEW p \in 1 .. Last
            PROVE  \E r \in Told("mcp_http") : r.request = p
        <5>1. /\ Record(p, "mcp_http", "ok") \in journal \cup console
              /\ Record(p, "mcp_http", "ok").event = "mcp_http"
              /\ Record(p, "mcp_http", "ok").request = p
          BY <3>2 DEF Due, Record, Last, Deletion
        <5> QED BY <5>1 DEF Told
      <4> QED BY <4>1
    <3> DEFINE failure == IF arguments = "invalid" THEN "INVALID_ARGUMENT" ELSE Failure(answer)
               tool == Record(Last, "mcp_tools_call", failure)
    <3>5. tool \in Due(Last) /\ tool.event = "mcp_tools_call" /\ tool.category = failure
      BY <3>1 DEF Due, Record, Last, Deletion
    <3>6. \A p \in 1 .. Deletion : \A r \in Due(p) : r.event = "mcp_tools_call" => r = tool
      BY <3>1 DEF Due, Record, Last, Deletion
    <3>7. failure = IF result \in ToolErrors THEN result ELSE "ok"
      BY <2>2, <3>1 DEF IInv, Answered, Failure, ToolErrors
    <3>8. Told("mcp_tools_call") = {tool}
      <4>1. tool \in journal \cup console
        BY <3>2, <3>5 DEF Last
      <4> QED BY <3>3, <3>5, <3>6, <4>1 DEF Told
    <3>9. ASSUME asked = 1
          PROVE  Told("brewmark_request") # {}
      <4>1. Asks
        BY <3>9 DEF IInv, OneRequest
      <4>2. /\ Record(Last, "brewmark_request", Fetched(answer)) \in Due(Last)
            /\ Record(Last, "brewmark_request", Fetched(answer)).event = "brewmark_request"
        BY <3>1, <4>1 DEF Due, Record, Last, Deletion, Asks
      <4> QED BY <3>2, <4>2 DEF Told, Last
    <3> QED BY <3>4, <3>5, <3>7, <3>8, <3>9
  <2> QED BY <2>1, <2>2 DEF AnsweredIsTraced, ToolTexts
<1> QED
  BY <1>1, Invariance, PTL
=============================================================================
