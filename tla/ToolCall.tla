------------------------------ MODULE ToolCall ------------------------------
(***************************************************************************)
(* The way of a tool call through the MCP server:                          *)
(*   app/core/http_middleware.py     dispatch: the request state           *)
(*   app/core/mcp_midleware.py       MCPExceptionMiddleware around         *)
(*                                   MCPLoggingMiddleware                  *)
(*   app/clients/mcp_cmn_client.py   user context, call count, tool log    *)
(*   app/tools/mail_tools.py         the tools                             *)
(*   app/service/mail_*.py           their services                        *)
(*                                                                         *)
(* A step is what happens between two awaits.  A call of graph_request is  *)
(* one await here, which ends as GraphResult says: GraphClient models what *)
(* is inside it.  "search" stands for every tool that calls search_emails; *)
(* MailSearch models what it makes of the pages.                           *)
(***************************************************************************)
EXTENDS Naturals, Sequences

CONSTANTS
    Call,           \* tool calls, each with a HTTP request of its own
    User,
    Key,            \* what a yellow list may name: addresses, ids, companies
    KeysOf,         \* the folded keys of a user
    YellowLists,    \* the yellow lists the common API may answer
    Inputs,         \* the requests each call may be made with
    MaxPages,       \* bound: pages of one search result (a mailbox is finite)
    None            \* absent

Broken == {"get_sent_emails", "mail_weekly_report", "mail_monthly_report"}

WriteTools == {"create_draft", "send_email", "reply_email", "forward_email"}

Tools == {"search", "get_email_detail", "get_emails_folder"}
            \cup WriteTools \cup Broken

\* The tools that take a period.
Dated == {"search", "get_emails_folder"}

\* "bad": an argument that the service refuses (an empty subject, body, id or
\* folder name, no recipient, a keyword too short).
\* "badDate": a date that is none.
\* "unconfirmed": create_draft without is_user_confirmed.
\* untraced: an x-request-id that is no UUID.
Request == {r \in [user : User \cup {None}, tool : Tools,
                   args : {"good", "bad", "badDate", "unconfirmed"},
                   traced : BOOLEAN] :
              r.args = "badDate" => r.tool \in Dated}

ASSUME UserAssumption == None \notin User
ASSUME NoneAssumption ==
    /\ None \notin {"ok", "more", "none", "many", "one", "invalid", "GraphError",
                    "Exception", "cmn", "graph", "tool", "unexpected",
                    "cancelled", "success", "error"}
    /\ None \notin [status : {"success", "error", None},
                    phase : {"ready", "posting", "stored", "lost"}]
ASSUME KeyAssumption ==
    /\ KeysOf \in [User -> SUBSET Key]
    /\ YellowLists \in SUBSET SUBSET [key : Key, upper : BOOLEAN]
ASSUME InputsAssumption == Inputs \in [Call -> SUBSET Request]
ASSUME PagesAssumption == MaxPages \in Nat \ {0}

VARIABLES
    pc,         \* where a call awaits
    request,    \* what the client sent
    state,      \* request.state
    context,    \* the MailRequestContext of the running service method
    trail,      \* the Graph requests of a call, with how they ended
    answer,     \* how the call ended: what it was answered, or cancelled
    log         \* the tool log and its task

vars == <<pc, request, state, context, trail, answer, log>>

-----------------------------------------------------------------------------
Context  == [token : User \cup {None}, user : User \cup {None},
             yellow : SUBSET [key : Key, upper : BOOLEAN]]
Anybody  == [token |-> None, user |-> None, yellow |-> {}]

WriteOps == {"draft", "sendMail", "reply", "forward"}
Ops      == {"page", "detail", "read", "folders", "messages"} \cup WriteOps
Good     == {"ok", "more", "one"}
Outcomes == Good \cup {"none", "many", "invalid", "GraphError", "Exception", "cancelled"}
Answers  == {"ok", "cmn", "graph", "tool", "unexpected", "cancelled"}

\* times: how often Graph carried the request out.
GraphRequest == [op : Ops, token : User \cup {None}, actor : User \cup {None},
                 outcome : Outcomes \cup {None}, times : {0, 1}]

LogRecord == [status : {"success", "error", None},
              phase : {"ready", "posting", "stored", "lost"}]

TypeOK ==
    /\ pc \in [Call -> {"idle", "context", "guard", "graph", "done"}]
    /\ request \in [Call -> Request \cup {None}]
    /\ state \in [Call -> Context]
    /\ context \in [Call -> Context]
    /\ trail \in [Call -> Seq(GraphRequest)]
    /\ answer \in [Call -> Answers \cup {None}]
    /\ log \in [Call -> LogRecord \cup {None}]

Init ==
    /\ pc = [c \in Call |-> "idle"]
    /\ request = [c \in Call |-> None]
    /\ state = [c \in Call |-> Anybody]
    /\ context = [c \in Call |-> Anybody]
    /\ trail = [c \in Call |-> <<>>]
    /\ answer = [c \in Call |-> None]
    /\ log = [c \in Call |-> None]

-----------------------------------------------------------------------------
(* Answering.                                                              *)

\* How MCPExceptionMiddleware answers: FastMCP has wrapped what a tool raises
\* in a ToolError, whose cause tells a GraphClientError from the rest; what
\* the logging middleware itself raises arrives unwrapped.
Answered == [ok |-> "ok", CmnAuthError |-> "cmn", GraphClientError |-> "graph",
             ToolError |-> "tool", Exception |-> "unexpected",
             CancelledError |-> "cancelled"]

\* Faulty variant: the log takes the class of the answer for its status.
LogStatusRaw(end) == Answered[end]

\* CancelledError passes `except Exception`: the record keeps no status.
LogStatus(end) ==
    CASE end = "ok" -> "success"
      [] end = "CancelledError" -> None
      [] OTHER -> "error"

\* Faulty variant: the log is written after the call and in `except`, not in
\* `finally`.
FinishUnlogged(c, end) ==
    /\ pc' = [pc EXCEPT ![c] = "done"]
    /\ answer' = [answer EXCEPT ![c] = Answered[end]]
    /\ log' = IF end = "CancelledError" THEN log
              ELSE [log EXCEPT ![c] = [status |-> LogStatus(end), phase |-> "ready"]]

\* The call is left: `finally` creates the task that stores the tool log.
Finish(c, end) ==
    /\ pc' = [pc EXCEPT ![c] = "done"]
    /\ answer' = [answer EXCEPT ![c] = Answered[end]]
    /\ log' = [log EXCEPT ![c] = [status |-> LogStatus(end), phase |-> "ready"]]

-----------------------------------------------------------------------------
(* The services.                                                           *)

\* Faulty variant: the entries of the yellow list are not folded.
BlockedVerbatim(ctx) ==
    \E k \in KeysOf[ctx.user] : [key |-> k, upper |-> FALSE] \in ctx.yellow

\* _ensure_user_allowed compares folded keys with folded entries.
Blocked(ctx) == \E e \in ctx.yellow : e.key \in KeysOf[ctx.user]

\* get_sent_emails passes an argument search_emails does not have; the
\* reports call a method MailService does not have.
Misbuilt(r) == r.tool \in Broken

\* Only create_draft asks for a confirmation, before it reads the context.
Unconfirmed(r) == r.tool = "create_draft" /\ r.args = "unconfirmed"

\* Writes, detail and folders check their texts and recipients before the first
\* request.  A search meets its keywords and dates only after the guard, a
\* folder listing its dates only after the folder was looked up.
CheckedFirst(r) == r.tool # "search"

Sending(ctx, op) ==
    [op |-> op, token |-> ctx.token, actor |-> ctx.user, outcome |-> None, times |-> 0]

Send(c, ctx, op) ==
    /\ pc' = [pc EXCEPT ![c] = "graph"]
    /\ trail' = [trail EXCEPT ![c] = Append(@, Sending(ctx, op))]
    /\ UNCHANGED <<answer, log>>

Graph == INSTANCE GraphResult

\* What graph_request returned or raised: data that the service then finds
\* useless is a result like any other.
Returned(out) == IF out \in {"GraphError", "Exception", "cancelled"} THEN out ELSE "ok"

\* The last request of a trail is over.
Ended(requests, out, times) ==
    [requests EXCEPT ![Len(requests)] = [@ EXCEPT !.outcome = out, !.times = times]]

\* The request on its way is over.
Over(c, out) ==
    \E times \in Graph!Times(Returned(out)) :
        trail' = [trail EXCEPT ![c] = Ended(@, out, times)]

\* It is over, and the next one is on its way.
OverAndSend(c, out, ctx, op) ==
    /\ pc[c] = "graph"
    /\ \E times \in Graph!Times(Returned(out)) :
          trail' = [trail EXCEPT ![c] = Append(Ended(@, out, times), Sending(ctx, op))]
    /\ UNCHANGED <<pc, request, state, answer, log>>

FirstOp == [get_email_detail |-> "detail", get_emails_folder |-> "folders",
            create_draft |-> "draft", send_email |-> "sendMail",
            reply_email |-> "reply", forward_email |-> "forward"]

\* The tool runs, with the request state it finds, to its first await.
\* Without a user reading current_user.user_email is an AttributeError.
Enter(c, r, st) ==
    \/ /\ Misbuilt(r) \/ Unconfirmed(r) \/ st.user = None
       /\ Finish(c, "ToolError")
       /\ UNCHANGED <<context, trail>>
    \/ /\ ~Misbuilt(r) /\ ~Unconfirmed(r) /\ st.user # None
       /\ context' = [context EXCEPT ![c] = st]
       /\ \/ /\ Blocked(st)
             /\ Finish(c, "GraphClientError")
             /\ UNCHANGED trail
          \/ /\ ~Blocked(st) /\ CheckedFirst(r) /\ r.args = "bad"
             /\ Finish(c, "ToolError")
             /\ UNCHANGED trail
          \/ /\ ~Blocked(st) /\ ~CheckedFirst(r)
             /\ pc' = [pc EXCEPT ![c] = "guard"]
             /\ UNCHANGED <<trail, answer, log>>
          \/ /\ ~Blocked(st) /\ CheckedFirst(r) /\ r.args # "bad"
             /\ Send(c, st, FirstOp[r.tool])

-----------------------------------------------------------------------------
(* The middlewares.                                                        *)

\* A request with an id that is no UUID fails before the `try`: it has no
\* log.  Without a token nothing is fetched and the tool runs all the same.
Start(c, r) ==
    /\ pc[c] = "idle"
    /\ request' = [request EXCEPT ![c] = r]
    /\ state' = [state EXCEPT ![c] = Anybody]
    /\ \/ /\ ~r.traced
          /\ pc' = [pc EXCEPT ![c] = "done"]
          /\ answer' = [answer EXCEPT ![c] = "unexpected"]
          /\ UNCHANGED <<context, trail, log>>
       \/ /\ r.traced /\ r.user # None
          /\ pc' = [pc EXCEPT ![c] = "context"]
          /\ UNCHANGED <<context, trail, answer, log>>
       \/ /\ r.traced /\ r.user = None
          /\ Enter(c, r, Anybody)

Fetched(c, yellow) ==
    [token |-> request[c].user, user |-> request[c].user, yellow |-> yellow]

\* Faulty variant: the context is stored in app.state, which all calls share.
StoreInAppState(c, yellow) == state' = [x \in Call |-> Fetched(c, yellow)]

Store(c, yellow) == state' = [state EXCEPT ![c] = Fetched(c, yellow)]

ContextArrives(c) ==
    /\ pc[c] = "context"
    /\ \E yellow \in YellowLists :
          /\ Store(c, yellow)
          /\ Enter(c, request[c], Fetched(c, yellow))
    /\ UNCHANGED request

\* The context is incomplete (CmnAuthError), or it was refused, not
\* delivered in time or not readable.
ContextFails(c) ==
    /\ pc[c] = "context"
    /\ \E end \in {"CmnAuthError", "Exception"} : Finish(c, end)
    /\ UNCHANGED <<request, state, context, trail>>

\* Below the limit; the query is built, with its keywords and dates, before the
\* first page is asked for.
GuardAdmits(c) ==
    /\ pc[c] = "guard"
    /\ \/ request[c].args \notin {"bad", "badDate"} /\ Send(c, context[c], "page")
       \/ /\ request[c].args \in {"bad", "badDate"}
          /\ Finish(c, "ToolError")
          /\ UNCHANGED trail
    /\ UNCHANGED <<request, state, context>>

\* The limit is reached; or the count failed, is None, and cannot be compared.
GuardRefuses(c) ==
    /\ pc[c] = "guard"
    /\ Finish(c, "ToolError")
    /\ UNCHANGED <<request, state, context, trail>>

-----------------------------------------------------------------------------
(* Graph answers.                                                          *)

Awaits(c, op) == pc[c] = "graph" /\ trail[c][Len(trail[c])].op = op

Conclude(c, out, end) ==
    /\ pc[c] = "graph"
    /\ Over(c, out)
    /\ Finish(c, end)
    /\ UNCHANGED <<request, state, context>>

\* Data that does not fit its schema is a ValidationError; which of the two
\* answers it gets is FastMCP's choice.
Malformed(c) == \E end \in {"ToolError", "Exception"} : Conclude(c, "invalid", end)

\* A page with a next link is followed by the next page; all of them are
\* validated at the end.
PageArrives(c) ==
    /\ Awaits(c, "page")
    /\ \/ /\ Len(trail[c]) < MaxPages
          /\ OverAndSend(c, "more", context[c], "page")
          /\ UNCHANGED context
       \/ Conclude(c, "ok", "ok")
       \/ Malformed(c)

\* The detail has arrived: the mail is marked as read.
DetailArrives(c) ==
    /\ Awaits(c, "detail")
    /\ \/ OverAndSend(c, "ok", context[c], "read") /\ UNCHANGED context
       \/ Malformed(c)

\* Only if exactly one folder has the name its messages are fetched.  The
\* second service method reads the same request state again, and the dates only
\* then.
FoldersArrive(c) ==
    /\ Awaits(c, "folders")
    /\ \/ \E out \in {"none", "many"} : Conclude(c, out, "ToolError")
       \/ /\ request[c].args = "badDate"
          /\ Conclude(c, "one", "ToolError")
       \/ /\ request[c].args # "badDate"
          /\ OverAndSend(c, "one", state[c], "messages")
          /\ context' = [context EXCEPT ![c] = state[c]]

MessagesArrive(c) ==
    /\ Awaits(c, "messages")
    /\ Conclude(c, "ok", "ok") \/ Malformed(c)

\* The mail is marked; the answer to it is not looked at.
ReadMarked(c) == Awaits(c, "read") /\ Conclude(c, "ok", "ok")

\* A draft, a mail, a reply or a forward is accepted.
WriteAccepted(c) ==
    /\ \E op \in WriteOps : Awaits(c, op)
    /\ Conclude(c, "ok", "ok")

\* Faulty variant: a page that fails ends the search with what is there.
GraphFailsPartial(c) ==
    \/ Awaits(c, "page") /\ Conclude(c, "Exception", "ok")
    \/ Conclude(c, "GraphError", "GraphClientError")

\* graph_request raises: one of the four classes of GraphClientError, or
\* anything else (throttled for good, server error, timeout, no JSON).
GraphFails(c) ==
    \/ Conclude(c, "GraphError", "GraphClientError")
    \/ Conclude(c, "Exception", "ToolError")

\* The client cancels the call while it awaits; a request to Graph may have
\* been carried out by then.  The bare `except` around the call count swallows
\* the CancelledError: the count is None, cannot be compared, and the call
\* fails like any other whose count failed.
Cancel(c) ==
    \/ /\ pc[c] \in {"context", "guard"}
       /\ Finish(c, IF pc[c] = "context" THEN "CancelledError" ELSE "ToolError")
       /\ UNCHANGED <<request, state, context, trail>>
    \/ Conclude(c, "cancelled", "CancelledError")

\* The log task runs to its POST, with the token of the request.
PostLog(c) ==
    /\ log[c] # None /\ log[c].phase = "ready"
    /\ log' = [log EXCEPT ![c].phase = "posting"]
    /\ UNCHANGED <<pc, request, state, context, trail, answer>>

\* Faulty variant: a POST that failed is queued again.
LogEndsRetried(c) ==
    /\ log[c] # None /\ log[c].phase = "posting"
    /\ \E end \in {"stored", "ready"} :
          /\ request[c].user = None => end = "ready"
          /\ log' = [log EXCEPT ![c].phase = end]
    /\ UNCHANGED <<pc, request, state, context, trail, answer>>

\* The common API needs a token to store a row; a failure is swallowed.
LogEnds(c) ==
    /\ log[c] # None /\ log[c].phase = "posting"
    /\ \E end \in {"stored", "lost"} :
          /\ request[c].user = None => end = "lost"
          /\ log' = [log EXCEPT ![c].phase = end]
    /\ UNCHANGED <<pc, request, state, context, trail, answer>>

CmnAnswers(c) ==
    ContextArrives(c) \/ ContextFails(c) \/ GuardAdmits(c) \/ GuardRefuses(c)

GraphAnswers(c) ==
    \/ PageArrives(c) \/ DetailArrives(c) \/ FoldersArrive(c)
    \/ MessagesArrive(c) \/ ReadMarked(c) \/ WriteAccepted(c) \/ GraphFails(c)

Next ==
    \E c \in Call :
        \/ \E r \in Inputs[c] : Start(c, r)
        \/ CmnAnswers(c)
        \/ GraphAnswers(c)
        \/ Cancel(c)
        \/ PostLog(c) \/ LogEnds(c)

Spec == Init /\ [][Next]_vars

\* The clients have timeouts (5 s by default, 30 s for Graph): every request
\* ends, and ready tasks are run.
Fairness ==
    \A c \in Call :
        /\ WF_vars(CmnAnswers(c)) /\ WF_vars(GraphAnswers(c))
        /\ WF_vars(PostLog(c)) /\ WF_vars(LogEnds(c))

FairSpec == Spec /\ Fairness

-----------------------------------------------------------------------------
(* Properties.                                                             *)

\* Every request to Graph is made with the token and in the name of the user
\* whose call it is, whatever other calls do (mcp_midleware.py:70-73,
\* docs/APP_MCP_TOOL_CONTEXT_GUIDE.md:34-35).
OwnIdentity ==
    \A c \in Call : \A i \in DOMAIN trail[c] :
        /\ trail[c][i].token = request[c].user
        /\ trail[c][i].actor = request[c].user

\* Calls that have to be refused never reach Graph: no user, a user on the
\* yellow list however its entry is spelled, arguments that are refused, a
\* draft nobody confirmed, a request without a trace.  Of a call with a date
\* that is none only the look-up of a folder is sent, and no mail is asked for
\* (mail_tools.py:333-348, mail_service.py:484-485).
RefusedNeverSent ==
    \A c \in Call : trail[c] # <<>> =>
        /\ request[c].user # None /\ request[c].traced
        /\ request[c].args # "bad"
        /\ request[c].tool = "create_draft" => request[c].args = "good"
        /\ request[c].args = "badDate" =>
              \A i \in DOMAIN trail[c] : trail[c][i].op = "folders"
        /\ {e.key : e \in state[c].yellow} \cap KeysOf[request[c].user] = {}

\* A success means that all of the tool's work was done: every page was
\* fetched, the mail was read and then marked, the one folder was listed, and
\* a write was carried out exactly once.  A Graph code means that Graph, or
\* the yellow list before it, refused: nothing was written.  However a call
\* ends, what it writes is never written twice (mcp_midleware.py:43-67).
Worked(c) ==
    LET ops  == [i \in DOMAIN trail[c] |-> trail[c][i].op]
        outs == [i \in DOMAIN trail[c] |-> trail[c][i].outcome]
        tool == request[c].tool
    IN  /\ outs # <<>> /\ outs[Len(outs)] = "ok"
        /\ tool = "search" =>
              \A i \in DOMAIN ops : ops[i] = "page" /\ (i < Len(ops) => outs[i] = "more")
        /\ tool = "get_email_detail" => ops = <<"detail", "read">> /\ outs[1] = "ok"
        /\ tool = "get_emails_folder" => ops = <<"folders", "messages">> /\ outs[1] = "one"
        /\ tool \in WriteTools => ops = <<FirstOp[tool]>>

\* The writes among these requests that Graph carried out.
Written(requests) ==
    {i \in DOMAIN requests : requests[i].op \in WriteOps /\ requests[i].times = 1}

AnswersMatchWork ==
    \A c \in Call :
        /\ answer[c] = "ok" =>
              Worked(c) /\ (request[c].tool \in WriteTools => Written(trail[c]) = {1})
        /\ answer[c] = "graph" =>
              /\ Written(trail[c]) = {}
              /\ \/ trail[c] = <<>> /\ Blocked(state[c])
                 \/ trail[c] # <<>> /\ trail[c][Len(trail[c])].outcome = "GraphError"
        /\ answer[c] = "cmn" => trail[c] = <<>> /\ state[c].user = None
        /\ \A i, j \in Written(trail[c]) : i = j

\* Every call that is over has a tool log that says how it ended: a call that
\* CancelledError ends has a log without status, and one that is cancelled at
\* its call count, where the error is swallowed, is a failure in the answer and
\* in the log.  Only a request that could not be traced has no log, and no log
\* of a call without a token is ever stored (mcp_midleware.py:111-132).
LogsMatchAnswers ==
    \A c \in Call :
        /\ log[c] # None <=> answer[c] # None /\ request[c].traced
        /\ log[c] # None =>
              /\ log[c].status = "success" <=> answer[c] = "ok"
              /\ log[c].status = None <=> answer[c] = "cancelled"
              /\ log[c].phase = "stored" => request[c].user # None

\* Every call is answered, and its log comes to rest.
EveryCallAnswered ==
    \A c \in Call :
        /\ pc[c] \in {"context", "guard", "graph"} ~> pc[c] = "done"
        /\ (log[c] # None /\ log[c].phase = "ready")
              ~> (log[c] # None /\ log[c].phase \in {"stored", "lost"})

=============================================================================
