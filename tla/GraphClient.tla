---------------------------- MODULE GraphClient ----------------------------
(***************************************************************************)
(* The one way from the MCP server to Microsoft Graph:                     *)
(*   app/clients/graph_client.py    graph_request                          *)
(*   app/clients/mcp_cmn_client.py  save_external_api_log                  *)
(*                                                                         *)
(* A call makes up to MaxAttempt attempts, one after the other.  All its   *)
(* attempts write into one log record; each attempt that ends leaves a     *)
(* task behind that sends the record to the common API and that nobody     *)
(* awaits.  Steps are what happens between two awaits.                     *)
(***************************************************************************)
EXTENDS GraphResult

CONSTANTS
    Call,           \* invocations of graph_request
    MaxAttempt,     \* max_retry_attempt
    None            \* nothing yet

ASSUME AttemptAssumption == MaxAttempt \in Nat \ {0}
ASSUME NoneAssumption == None \notin {"ready", "posting", "stored", "lost",
                                     "success", "fail", "ok", "GraphError"}

VARIABLES
    pc,         \* where a call awaits
    attempt,    \* the loop variable
    record,     \* the log record of a call, shared by its attempts
    result,     \* what graph_request returned or raised
    task,       \* per attempt: its log task
    row,        \* per attempt: what its log task has sent
    verdict,    \* history: how each attempt ended
    effects     \* Graph: how often it carried out the operation of a call

vars == <<pc, attempt, record, result, task, row, verdict, effects>>

-----------------------------------------------------------------------------
Attempt  == 1..MaxAttempt
Refusals == {"400", "401", "403", "404"}
Statuses == Refusals \cup {"429", "other"}
Verdicts == Statuses \cup {"ok", "badBody", "broken", "cancelled"}

\* The fields of ApiLogRequest that the attempts write.
LogRecord == [status : {None, "success", "fail"},
              http : Statuses \cup {None, "2xx"},
              message : Verdicts \cup {None}]

NewRecord == [status |-> None, http |-> None, message |-> None]

TypeOK ==
    /\ pc \in [Call -> {"idle", "request", "sleep", "done"}]
    /\ attempt \in [Call -> Attempt]
    /\ record \in [Call -> LogRecord]
    /\ result \in [Call -> Outcomes \cup {None}]
    /\ task \in [Call -> [Attempt -> {None, "ready", "posting", "stored", "lost"}]]
    /\ row \in [Call -> [Attempt -> LogRecord \cup {None}]]
    /\ verdict \in [Call -> [Attempt -> Verdicts \cup {None}]]
    /\ effects \in [Call -> Nat]

Init ==
    /\ pc = [c \in Call |-> "idle"]
    /\ attempt = [c \in Call |-> 1]
    /\ record = [c \in Call |-> NewRecord]
    /\ result = [c \in Call |-> None]
    /\ task = [c \in Call |-> [n \in Attempt |-> None]]
    /\ row = [c \in Call |-> [n \in Attempt |-> None]]
    /\ verdict = [c \in Call |-> [n \in Attempt |-> None]]
    /\ effects = [c \in Call |-> 0]

-----------------------------------------------------------------------------
Start(c) ==
    /\ pc[c] = "idle"
    /\ pc' = [pc EXCEPT ![c] = "request"]
    /\ UNCHANGED <<attempt, record, result, task, row, verdict, effects>>

\* The `finally` of an attempt: its log task is created.
CreateTask(c) == task' = [task EXCEPT ![c][attempt[c]] = "ready"]

\* Leaving graph_request: the attempt's `finally`, then the result.
Leave(c, outcome) ==
    /\ CreateTask(c)
    /\ pc' = [pc EXCEPT ![c] = "done"]
    /\ result' = [result EXCEPT ![c] = outcome]

Ends(c, v) == verdict' = [verdict EXCEPT ![c][attempt[c]] = v]

\* A failure is noted; http_status is written only if Graph answered.
NoteFailure(c, v) ==
    record' = [record EXCEPT
        ![c].status = "fail",
        ![c].http = IF v \in Statuses THEN v ELSE @,
        ![c].message = v]

Executed(c) == effects' = [effects EXCEPT ![c] = @ + 1]

\* Faulty variant: a log task is not started before the next answer is in.
TasksStartedLate(c) == TRUE

\* Tasks start in the order in which they became ready: those of earlier
\* attempts were ready before the answer to this one could arrive.
TasksStarted(c) == \A n \in Attempt : task[c][n] # "ready"

Succeed(c) ==
    /\ pc[c] = "request" /\ TasksStarted(c)
    /\ record' = [record EXCEPT ![c].status = "success", ![c].http = "2xx"]
    /\ Ends(c, "ok")
    /\ Executed(c)
    /\ Leave(c, "ok")
    /\ UNCHANGED <<attempt, row>>

\* Graph has carried the operation out, but its answer is no JSON.
BadBody(c) ==
    /\ pc[c] = "request" /\ TasksStarted(c)
    /\ NoteFailure(c, "badBody")
    /\ Ends(c, "badBody")
    /\ Executed(c)
    /\ Leave(c, "Exception")
    /\ UNCHANGED <<attempt, row>>

Refuse(c, v) ==
    /\ pc[c] = "request" /\ TasksStarted(c)
    /\ NoteFailure(c, v)
    /\ Ends(c, v)
    /\ Leave(c, "GraphError")
    /\ UNCHANGED <<attempt, row, effects>>

\* Faulty variant: a server error is retried as well.
AnswerOtherRetried(c) ==
    /\ pc[c] = "request" /\ TasksStarted(c)
    /\ NoteFailure(c, "other")
    /\ Ends(c, "other")
    /\ Executed(c) \/ UNCHANGED effects
    /\ \/ /\ attempt[c] = MaxAttempt
          /\ Leave(c, "HTTPStatusError")
       \/ /\ attempt[c] < MaxAttempt
          /\ pc' = [pc EXCEPT ![c] = "sleep"]
          /\ UNCHANGED <<result, task>>
    /\ UNCHANGED <<attempt, row>>

\* Any other status.  A server error says nothing about the operation.
AnswerOther(c) ==
    /\ pc[c] = "request" /\ TasksStarted(c)
    /\ NoteFailure(c, "other")
    /\ Ends(c, "other")
    /\ Executed(c) \/ UNCHANGED effects
    /\ Leave(c, "HTTPStatusError")
    /\ UNCHANGED <<attempt, row>>

\* Faulty variant: a timeout is raised as a GraphClientError too.
BreakAsGraphError(c) ==
    /\ pc[c] = "request" /\ TasksStarted(c)
    /\ NoteFailure(c, "broken")
    /\ Ends(c, "broken")
    /\ Executed(c) \/ UNCHANGED effects
    /\ Leave(c, "GraphError")
    /\ UNCHANGED <<attempt, row>>

\* Timeout or broken connection: the operation may have been carried out.
Break(c) ==
    /\ pc[c] = "request" /\ TasksStarted(c)
    /\ NoteFailure(c, "broken")
    /\ Ends(c, "broken")
    /\ Executed(c) \/ UNCHANGED effects
    /\ Leave(c, "Exception")
    /\ UNCHANGED <<attempt, row>>

\* Faulty variant: one attempt too many.
ThrottleOffByOne(c) ==
    /\ pc[c] = "request" /\ TasksStarted(c)
    /\ NoteFailure(c, "429")
    /\ Ends(c, "429")
    /\ \/ /\ attempt[c] > MaxAttempt
          /\ Leave(c, "HTTPStatusError")
       \/ /\ attempt[c] <= MaxAttempt
          /\ pc' = [pc EXCEPT ![c] = "sleep"]
          /\ UNCHANGED <<result, task>>
    /\ UNCHANGED <<attempt, row, effects>>

\* 429: Graph has not carried the operation out.  The call sleeps, the last
\* attempt raises, and a Retry-After that is no integer raises ValueError.
Throttle(c) ==
    /\ pc[c] = "request" /\ TasksStarted(c)
    /\ NoteFailure(c, "429")
    /\ Ends(c, "429")
    /\ \/ /\ attempt[c] = MaxAttempt
          /\ Leave(c, "HTTPStatusError")
       \/ /\ attempt[c] < MaxAttempt
          /\ Leave(c, "Exception")
       \/ /\ attempt[c] < MaxAttempt
          /\ pc' = [pc EXCEPT ![c] = "sleep"]
          /\ UNCHANGED <<result, task>>
    /\ UNCHANGED <<attempt, row, effects>>

\* Faulty variant: `continue` skips the log of the attempt.
WakeUnlogged(c) ==
    /\ pc[c] = "sleep"
    /\ attempt' = [attempt EXCEPT ![c] = @ + 1]
    /\ pc' = [pc EXCEPT ![c] = "request"]
    /\ UNCHANGED <<record, result, task, row, verdict, effects>>

\* After the sleep `continue` runs the `finally` of the old attempt, and the
\* next attempt sends the same request again.
Wake(c) ==
    /\ pc[c] = "sleep"
    /\ CreateTask(c)
    /\ attempt' = [attempt EXCEPT ![c] = @ + 1]
    /\ pc' = [pc EXCEPT ![c] = "request"]
    /\ UNCHANGED <<record, result, row, verdict, effects>>

\* The tool call is cancelled: CancelledError passes `except Exception`, only
\* the `finally` runs.
Cancel(c) ==
    /\ \/ /\ pc[c] = "request"
          /\ TasksStarted(c)
          /\ Ends(c, "cancelled")
          /\ Executed(c) \/ UNCHANGED effects
       \/ /\ pc[c] = "sleep"
          /\ UNCHANGED <<verdict, effects>>
    /\ Leave(c, "cancelled")
    /\ UNCHANGED <<attempt, record, row>>

\* A log task runs up to its POST: it sends the record as it is now.
StartTask(c, n) ==
    /\ task[c][n] = "ready"
    /\ task' = [task EXCEPT ![c][n] = "posting"]
    /\ row' = [row EXCEPT ![c][n] = record[c]]
    /\ UNCHANGED <<pc, attempt, record, result, verdict, effects>>

\* Faulty variant: a row that could not be stored is sent again, for ever.
FinishTaskStuck(c, n) ==
    /\ task[c][n] = "posting"
    /\ task' = [task EXCEPT ![c][n] = "ready"]
    /\ UNCHANGED <<pc, attempt, record, result, row, verdict, effects>>

\* The common API stores the row, or the task swallows the failure.
FinishTask(c, n) ==
    /\ task[c][n] = "posting"
    /\ \E end \in {"stored", "lost"} : task' = [task EXCEPT ![c][n] = end]
    /\ UNCHANGED <<pc, attempt, record, result, row, verdict, effects>>

Answer(c) ==
    \/ Succeed(c)
    \/ BadBody(c)
    \/ \E v \in Refusals : Refuse(c, v)
    \/ AnswerOther(c)
    \/ Break(c)
    \/ Throttle(c)

Next ==
    \E c \in Call :
        \/ Start(c)
        \/ Answer(c)
        \/ Wake(c)
        \/ Cancel(c)
        \/ \E n \in Attempt : StartTask(c, n) \/ FinishTask(c, n)

Spec == Init /\ [][Next]_vars

\* A request ends because the client has a timeout of 30 seconds, a sleep
\* because its length is finite, and ready tasks are run.
Fairness ==
    \A c \in Call :
        /\ WF_vars(Answer(c))
        /\ WF_vars(Wake(c))
        /\ \A n \in Attempt : WF_vars(StartTask(c, n)) /\ WF_vars(FinishTask(c, n))

FairSpec == Spec /\ Fairness

-----------------------------------------------------------------------------
(* Properties.                                                             *)

\* Graph carries the operation of a call out at most once: a mail is never
\* sent twice, whatever is retried (graph_client.py:150-158).
CarriedOutOnce == \A c \in Call : effects[c] <= 1

\* A caller that sees a Graph error or success can rely on it: success means
\* that the operation was carried out, a Graph error that it was not.
ResultsTruthful ==
    \A c \in Call :
        /\ result[c] = "ok" => effects[c] = 1
        /\ result[c] = "GraphError" => effects[c] = 0

\* Every attempt that is over has its own log task, in whatever way it ended;
\* an attempt that sleeps gets it when it wakes (graph_client.py:166-170).
EveryAttemptLogged ==
    \A c \in Call, n \in Attempt :
        task[c][n] # None <=>
            \/ n < attempt[c]
            \/ n = attempt[c] /\ pc[c] = "done"

\* Although all attempts write one record, the row of an attempt says how this
\* attempt ended: success or not, and the status that Graph answered.
RowsTruthful ==
    \A c \in Call, n \in Attempt :
        row[c][n] # None =>
            /\ row[c][n].status = "success" <=> verdict[c][n] = "ok"
            /\ verdict[c][n] \in Statuses => row[c][n].http = verdict[c][n]

\* Whatever is retried, a service sees one request with one result: GraphClient
\* implements GraphRequest, where an attempt and the sleep after a 429 are one
\* await (graph_client.py:98-170).
Promise == INSTANCE GraphRequest WITH
    phase <- [c \in Call |->
                 CASE pc[c] = "idle" -> "idle"
                   [] pc[c] \in {"request", "sleep"} -> "sent"
                   [] pc[c] = "done" -> "over"]

ImplementsGraphRequest == Promise!Spec

\* Every call ends, and every log task comes to rest.
EveryCallEnds ==
    \A c \in Call :
        /\ pc[c] \in {"request", "sleep"} ~> pc[c] = "done"
        /\ \A n \in Attempt : task[c][n] = "ready" ~> task[c][n] \in {"stored", "lost"}

=============================================================================
