----------------------------- MODULE Catalogue -----------------------------
(***************************************************************************)
(* One short-lived MCP session of mcpclient (Call or ListTools) against    *)
(* the BrewMark MCP server: three POSTs, the request to BrewMark behind    *)
(* the last one, the DELETE with which the SDK closes a session, the       *)
(* events they produce, and their delivery to the collector of barista-api *)
(* before a handler may answer.                                            *)
(*                                                                         *)
(* Time is counted in seconds.  It passes while BrewMark or the collector  *)
(* keeps its caller waiting; everything else takes none.  A session shares *)
(* nothing with the sessions beside it but the journal, so there is one.   *)
(***************************************************************************)
EXTENDS Naturals, Sequences

CONSTANTS
  Budget,    \* requestTimeout of mcpclient
  Limits,    \* values of BREWMARK_REQUEST_TIMEOUT
  Attempts   \* deliveries of one event

ASSUME CatalogueAssumption ==
  /\ Budget \in Nat \ {0}
  /\ Limits \subseteq Nat \ {0} /\ Limits # {}
  /\ Attempts \in Nat \ {0}

VARIABLES
  kind,       \* which method of mcpclient runs
  arguments,  \* of the tool call
  limit,      \* the timeout the MCP server was configured with
  posts,      \* POSTs sent
  clock,      \* age of the session's context
  result,     \* what the method will return, "pending" until that is decided
  closed,     \* its deferred Close has reached the server
  handler,    \* what the server does for the last request
  waited,     \* age of the request to BrewMark
  asked,      \* requests to BrewMark
  answer,     \* BrewMark's answer
  queue,      \* events the handler has yet to deliver
  tries,      \* deliveries of the first of them
  journal,    \* records the collector has accepted
  console,    \* events reported as undeliverable that the collector does not have
  handled     \* events the handlers are done with (history)

client == <<kind, arguments, limit, posts, clock, result, closed>>
upstream == <<waited, asked, answer>>
trace == <<queue, tries, journal, console, handled>>
vars == <<kind, arguments, limit, posts, clock, result, closed, handler, waited, asked,
          answer, queue, tries, journal, console, handled>>

Last == 3    \* initialize, notifications/initialized, then the operation
Deletion == Last + 1   \* the number of the DELETE among the requests

\* BrewMark's answer: how many items match, or what is wrong with it.
Listed == {"none", "one", "many", "huge"}
Answers == Listed \cup {"undecodable", "malformed", "limited", "refused"}
NoAnswer == {"timeout", "cancelled"}

ToolErrors == {"INVALID_ARGUMENT", "BAD_UPSTREAM_RESPONSE", "UPSTREAM_RATE_LIMITED",
               "UPSTREAM_UNAVAILABLE", "UPSTREAM_TIMEOUT"}
MatchStatuses == {"not_requested", "empty", "exact", "ambiguous"}
ClientErrors == {"MCP_UNAVAILABLE", "MCP_TIMEOUT", "MCP_INVALID_RESPONSE", "MCP_PROTOCOL_ERROR"}
Results == ToolErrors \cup MatchStatuses \cup ClientErrors \cup {"tools"}

\* The category of a failure, "ok" without one.  An HTTP status of 400 or more
\* is recorded under its text, "status" here.
Categories == ToolErrors \cup {"ok", "status"}
Record(request, event, category) ==
  [request |-> request, event |-> event, category |-> category]
Records ==
  [request : 1 .. Deletion, category : Categories,
   event : {"mcp_initialize", "mcp_http", "mcp_tools_list", "mcp_tools_call", "brewmark_request"}]

\* validMCPRecord: the allow-list of categories has no status text.
Valid(record) == record.category # "status"

Init ==
  /\ kind \in {"call", "list"}
  /\ arguments \in {"invalid", "unnamed", "named"}
  /\ kind = "list" => arguments = "unnamed"
  /\ limit \in Limits
  /\ posts = 0 /\ clock = 0 /\ result = "pending" /\ closed = FALSE
  /\ handler = "idle"
  /\ waited = 0 /\ asked = 0 /\ answer = "missing"
  /\ queue = <<>> /\ tries = 0
  /\ journal = {} /\ console = {} /\ handled = {}

\* The context of a waiting method ages; at its end the method gives up first.
Pass ==
  /\ result = "pending" => clock < Budget
  /\ clock' = IF result = "pending" THEN clock + 1 ELSE clock
  /\ UNCHANGED <<kind, arguments, limit, posts, result, closed>>

-----------------------------------------------------------------------------
\* mcpclient.

\* The events of a handler that does not ask BrewMark.
Observed(post) ==
  IF post = 1 THEN <<Record(post, "mcp_initialize", "ok"), Record(post, "mcp_http", "ok")>>
  ELSE IF post < Last THEN <<Record(post, "mcp_http", "ok")>>
  ELSE IF kind = "list"
    THEN <<Record(post, "mcp_tools_list", "ok"), Record(post, "mcp_http", "ok")>>
    ELSE <<Record(post, "mcp_tools_call", "INVALID_ARGUMENT"), Record(post, "mcp_http", "ok")>>

\* The filters of the tool call are well-formed: the server asks BrewMark.
Asks == kind = "call" /\ arguments # "invalid"

\* connect, then CallTool or ListTools: the next POST reaches the server.
Send ==
  /\ result = "pending" /\ handler = "idle" /\ posts < Last
  /\ posts' = posts + 1
  /\ IF posts' = Last /\ Asks
       THEN handler' = "upstream" /\ queue' = <<>> /\ asked' = asked + 1
       ELSE /\ handler' = "publishing" /\ UNCHANGED asked
            /\ queue' = Observed(posts')
  /\ UNCHANGED <<kind, arguments, limit, clock, result, closed, waited, answer, tries,
                 journal, console, handled>>

\* A POST that does not reach the server; MaxRetries is -1.
Unreachable ==
  /\ result = "pending" /\ handler = "idle"
  /\ result' \in {"MCP_UNAVAILABLE", "MCP_PROTOCOL_ERROR"}
  /\ UNCHANGED <<kind, arguments, limit, posts, clock, closed, handler, upstream, trace>>

\* The context is over, and with it the request the server is handling.
TimeOut ==
  /\ result = "pending" /\ clock = Budget
  /\ result' = "MCP_TIMEOUT"
  /\ UNCHANGED <<kind, arguments, limit, posts, clock, closed, handler, upstream, trace>>

\* The deferred Close of a session that was opened: the SDK asks the server to
\* delete it, postOnly answers 405, and observed publishes that alone.  The DELETE
\* may get lost; the handler of a POST given up shares nothing with it, and is
\* taken to have ended.
Close ==
  /\ result # "pending" /\ ~closed /\ posts > 1 /\ handler = "idle"
  /\ closed' = TRUE
  /\ handler' = "closing"
  /\ queue' = <<Record(Deletion, "mcp_http", "status")>>
  /\ UNCHANGED <<kind, arguments, limit, posts, clock, result, upstream, tries, journal,
                 console, handled>>

-----------------------------------------------------------------------------
\* brewmark.Client.

\* What a tool reports of an answer; get itself sees nothing wrong with a malformed one.
Fetched(a) ==
  IF a = "undecodable" THEN "BAD_UPSTREAM_RESPONSE"
  ELSE IF a = "limited" THEN "UPSTREAM_RATE_LIMITED"
  ELSE IF a = "timeout" THEN "UPSTREAM_TIMEOUT"
  ELSE IF a \in {"refused", "cancelled"} THEN "UPSTREAM_UNAVAILABLE"
  ELSE "ok"

\* matchStatus, for the operations that take a name.
MatchStatus(a) ==
  IF arguments = "unnamed" THEN "not_requested"
  ELSE IF a = "none" THEN "empty" ELSE IF a = "one" THEN "exact" ELSE "ambiguous"

\* Fault: an answer without the expected array counts as an empty one.
ToolResult_NullIsEmpty(a) ==
  IF Fetched(a) # "ok" THEN Fetched(a)
  ELSE IF a = "malformed" THEN MatchStatus("none")
  ELSE MatchStatus(a)

ToolResult(a) ==
  IF Fetched(a) # "ok" THEN Fetched(a)
  ELSE IF a = "malformed" THEN "BAD_UPSTREAM_RESPONSE"
  ELSE MatchStatus(a)

\* The category of the tool's event.
Failure(a) == IF ToolResult(a) \in ToolErrors THEN ToolResult(a) ELSE "ok"

Wait ==
  /\ handler = "upstream" /\ waited < limit
  /\ Pass
  /\ waited' = waited + 1
  /\ UNCHANGED <<handler, asked, answer, trace>>

\* get returns: BrewMark answered, its timeout ran out, or the session was cancelled.
Fetch ==
  /\ handler = "upstream"
  /\ answer' \in Answers \cup {a \in NoAnswer : IF a = "timeout" THEN waited = limit
                                               ELSE result # "pending"}
  /\ handler' = "publishing"
  /\ queue' = <<Record(posts, "brewmark_request", Fetched(answer')),
                Record(posts, "mcp_tools_call", Failure(answer')),
                Record(posts, "mcp_http", "ok")>>
  /\ UNCHANGED <<client, waited, asked, tries, journal, console, handled>>

-----------------------------------------------------------------------------
\* emit, and the collector it delivers to.

Publishing == handler \in {"publishing", "closing"} /\ queue # <<>>

\* The event leaves the queue.
Done ==
  /\ queue' = Tail(queue) /\ tries' = 0
  /\ handled' = handled \cup {Head(queue)}

\* Fault: deliver until it works.
Undelivered_Forever ==
  /\ tries' = IF tries + 1 < Attempts THEN tries + 1 ELSE 0
  /\ UNCHANGED <<queue, console, handled>>

\* The loop ends with the last delivery, and the failure goes to the console.
GiveUp == Done /\ console' = console \cup ({Head(queue)} \ journal')

Undelivered ==
  IF tries + 1 < Attempts
    THEN tries' = tries + 1 /\ UNCHANGED <<queue, console, handled>>
    ELSE GiveUp

\* The collector accepts the record, and its 204 arrives.
Accepted ==
  /\ Publishing /\ Valid(Head(queue))
  /\ journal' = journal \cup {Head(queue)}
  /\ Done
  /\ UNCHANGED <<client, upstream, handler, console>>

\* It answers anything else, or cannot be reached.
Rejected ==
  /\ Publishing
  /\ UNCHANGED <<client, upstream, handler, journal>>
  /\ Undelivered

\* It accepts the record, and its answer is lost.
AnswerLost ==
  /\ Publishing /\ Valid(Head(queue))
  /\ journal' = journal \cup {Head(queue)}
  /\ Undelivered
  /\ UNCHANGED <<client, upstream, handler>>

\* It keeps the connection open until the deadline all deliveries share.
Hangs ==
  /\ Publishing
  /\ Pass
  /\ journal' \in {journal, journal \cup {e \in {Head(queue)} : Valid(e)}}
  /\ GiveUp
  /\ UNCHANGED <<upstream, handler>>

-----------------------------------------------------------------------------
\* responseLimitTransport: the body of a response to the client has a limit too.
Fits == answer # "huge"

\* What the method makes of the response to its last POST.
Received ==
  IF kind = "list" THEN {"tools", "MCP_INVALID_RESPONSE"}
  ELSE IF arguments = "invalid" THEN {"INVALID_ARGUMENT"}
  ELSE IF ~Fits THEN {"MCP_INVALID_RESPONSE"}
  ELSE {ToolResult(answer)}

\* Fault: the events are delivered by a goroutine of their own.
Respond_AtOnce ==
  /\ handler \in {"publishing", "closing"} /\ queue' = <<>>
  /\ handler' = "idle"
  /\ result' \in IF result = "pending" /\ posts = Last THEN Received ELSE {result}
  /\ UNCHANGED <<kind, arguments, limit, posts, clock, closed, upstream, tries, journal,
                 console, handled>>

\* The handler returns, which completes the response.
Respond ==
  /\ handler \in {"publishing", "closing"} /\ queue = <<>>
  /\ handler' = "idle"
  /\ result' \in IF result = "pending" /\ posts = Last THEN Received ELSE {result}
  /\ UNCHANGED <<kind, arguments, limit, posts, clock, closed, upstream, trace>>

\* Fault: the POST is sent again.
Crash_Resends ==
  /\ handler # "idle"
  /\ handler' = "idle" /\ queue' = <<>> /\ tries' = 0
  /\ posts' = IF result = "pending" THEN posts - 1 ELSE posts
  /\ UNCHANGED <<kind, arguments, limit, clock, result, closed, upstream, journal, console,
                 handled>>

\* The server dies under a request and its connection with it.
Crash ==
  /\ handler # "idle"
  /\ handler' = "idle" /\ queue' = <<>> /\ tries' = 0
  /\ result' = IF result = "pending" THEN "MCP_UNAVAILABLE" ELSE result
  /\ UNCHANGED <<kind, arguments, limit, posts, clock, closed, upstream, journal, console,
                 handled>>

Next ==
  \/ Send \/ Unreachable \/ TimeOut \/ Close
  \/ Wait \/ Fetch
  \/ Accepted \/ Rejected \/ AnswerLost \/ Hangs \/ Respond \/ Crash

\* Timers run and goroutines do not stop: whatever BrewMark and the collector
\* do, one of these steps is taken.
Progress == Send \/ TimeOut \/ Wait \/ Fetch \/ Accepted \/ Rejected \/ Hangs \/ Respond

Spec == Init /\ [][Next]_vars /\ WF_vars(Progress)

-----------------------------------------------------------------------------
TypeOK ==
  /\ kind \in {"call", "list"} /\ arguments \in {"invalid", "unnamed", "named"}
  /\ limit \in Limits /\ posts \in 0 .. Last /\ clock \in 0 .. Budget
  /\ result \in Results \cup {"pending"} /\ closed \in BOOLEAN
  /\ handler \in {"idle", "upstream", "publishing", "closing"}
  /\ waited \in 0 .. limit /\ asked \in Nat /\ answer \in Answers \cup NoAnswer \cup {"missing"}
  /\ queue \in Seq(Records) /\ Len(queue) <= 3 /\ tries \in 0 .. Attempts - 1
  /\ journal \subseteq Records /\ console \subseteq Records /\ handled \subseteq Records

(***************************************************************************)
(* "Call executes exactly one broker request": whatever is lost, refused   *)
(* or too late, a session asks BrewMark once at most, and never after its  *)
(* result is decided.                                                      *)
(***************************************************************************)
AskedOnce ==
  [][asked' # asked => asked = 0 /\ asked' = 1 /\ result = "pending"]_vars

(***************************************************************************)
(* A tool result given to the model is what BrewMark said: an empty, exact *)
(* or ambiguous match only for a well-formed answer of this very session,  *)
(* never for an error, an unreadable answer or a timeout.                  *)
(***************************************************************************)
ResultIsTrue ==
  /\ result \in MatchStatuses => answer \in Listed \ {"huge"}
  /\ result = "empty" => answer = "none"
  /\ result = "exact" => answer = "one"

(***************************************************************************)
(* Before a tool result reaches barista-api all events of its POSTs are    *)
(* in the journal or reported on the console as undeliverable, and the     *)
(* tool event tells of a failure just when the result does                 *)
(* (.specs/brewmark-mcp: delivery before the server-side operation ends).  *)
(***************************************************************************)
Told(event) == {r \in journal \cup console : r.event = event}

AnsweredIsTraced ==
  /\ handled \subseteq journal \cup console
  /\ result \in MatchStatuses \cup ToolErrors =>
       /\ 1 .. Last \subseteq {r.request : r \in Told("mcp_http")}
       /\ {r.category : r \in Told("mcp_tools_call")} =
            {IF result \in ToolErrors THEN result ELSE "ok"}
       /\ asked = 1 => Told("brewmark_request") # {}

(***************************************************************************)
(* A session ends, and so does everything the server still does for it,    *)
(* whatever BrewMark and the collector do.                                 *)
(***************************************************************************)
SessionEnds == <>[](result # "pending" /\ handler = "idle")

(***************************************************************************)
(* .specs/brewmark-mcp: an unavailable collector does not change the       *)
(* product response.  So a call that BrewMark has answered at once, with a *)
(* list, does not run out of time.                                         *)
(***************************************************************************)
CollectorIsNeutral == answer \in Listed /\ waited = 0 => result # "MCP_TIMEOUT"
=============================================================================
