----------------------------- MODULE LogService -----------------------------
(***************************************************************************)
(* What a mail search asks of the common API besides its token:            *)
(*   app/service/mail_guard_service.py   the call limit                    *)
(*   app/clients/mcp_cmn_client.py       the count before, the log after   *)
(*   cmn/utils/jwt_manager.py, user_cache.py   who is asking               *)
(*   cmn/core/dependencies.py, database.py     the session of a request    *)
(*   cmn/api/endpoint/logs_router.py     count and insert                  *)
(*                                                                         *)
(* A search first has its calls counted; if the guard admits it, it calls  *)
(* Graph, and a task logs the call.  Both are requests with a transaction  *)
(* of their own.  A step is what happens between two awaits.               *)
(***************************************************************************)
EXTENDS Naturals, FiniteSets

CONSTANTS
    Search,         \* searches, one call of the limited Graph operation each
    Person,         \* users: a company and an id in it
    MicrosoftGraph, \* the provider the Graph client logs; no user's address
    TTL,            \* life of a cached user
    MaxSize,        \* users the cache holds
    Window, Limit,  \* the guard: so many calls within so much time
    MaxTime,        \* bound: of the clock
    MaxRestarts,    \* bound: of restarts of the common API
    None            \* absent

ASSUME SearchAssumption == IsFiniteSet(Search)
ASSUME TTLAssumption == TTL \in Nat \ {0}
ASSUME SizeAssumption == MaxSize \in Nat \ {0}
ASSUME GuardAssumption == Window \in Nat /\ Limit \in Nat \ {0}
ASSUME BoundAssumption == MaxTime \in Nat /\ MaxRestarts \in Nat
ASSUME PersonAssumption ==
    /\ Person \subseteq [company : {p.company : p \in Person}, id : {p.id : p \in Person}]
    /\ MicrosoftGraph \notin Person
ASSUME NoneAssumption ==
    /\ None \notin {"200", "500", "broken", "admitted", "refused", "failed"}
    /\ None \notin [person : Person, spelling : {"exact", "other"}, at : Nat]
    /\ None \notin [person : Person, spelling : {"exact", "other"}]

VARIABLES
    now,        \* the clock of both servers and the database
    cache,      \* user_cache
    pc,         \* where a search awaits
    op,         \* its request to the common API: "count" or "log"
    token,      \* the claims of its token
    user,       \* what get_current_user returned for its request
    began,      \* when the transaction of its request began
    counted,    \* what its count found
    answer,     \* the status of its requests
    verdict,    \* what the guard said
    rows,       \* m365_mcp_api_log, over all schemas
    restarts,
    used,       \* history: when `user` was taken
    seen        \* history: calls of the user in the window when it was counted

vars == <<now, cache, pc, op, token, user, began, counted, answer, verdict,
          rows, restarts, used, seen>>

-----------------------------------------------------------------------------
\* A token spells the company as COMPANY_CODES does, or in another case.
Token == [person : Person, spelling : {"exact", "other"}]

\* A user keeps the spelling of the token it was made from, at time `at`.
Users == [person : Person, spelling : {"exact", "other"}, at : Nat]

Statuses == {"200", "500", "broken"}

Row == [search : Search, company : {p.company : p \in Person},
        actor : Person, provider : {MicrosoftGraph}, at : Nat]

TypeOK ==
    /\ now \in Nat
    /\ cache \in [Person -> Users \cup {None}]
    /\ pc \in [Search -> {"idle", "open", "work", "commit", "graph", "done"}]
    /\ op \in [Search -> {"count", "log"}]
    /\ token \in [Search -> Token \cup {None}]
    /\ user \in [Search -> Users \cup {None}]
    /\ began \in [Search -> Nat]
    /\ counted \in [Search -> Nat]
    /\ answer \in [Search -> [{"count", "log"} -> Statuses \cup {None}]]
    /\ verdict \in [Search -> {"admitted", "refused", "failed", None}]
    /\ rows \subseteq Row
    /\ restarts \in Nat
    /\ used \in [Search -> Nat]
    /\ seen \in [Search -> Nat]

Init ==
    /\ now = 0
    /\ cache = [p \in Person |-> None]
    /\ pc = [s \in Search |-> "idle"]
    /\ op = [s \in Search |-> "count"]
    /\ token = [s \in Search |-> None]
    /\ user = [s \in Search |-> None]
    /\ began = [s \in Search |-> 0]
    /\ counted = [s \in Search |-> 0]
    /\ answer = [s \in Search |-> [o \in {"count", "log"} |-> None]]
    /\ verdict = [s \in Search |-> None]
    /\ rows = {}
    /\ restarts = 0
    /\ used = [s \in Search |-> 0]
    /\ seen = [s \in Search |-> 0]

-----------------------------------------------------------------------------
(* Who is asking.                                                          *)

\* Faulty variant: the key is the id alone, which is unique in a company only.
KeyWithoutCompany(p) == CHOOSE q \in Person : q.id = p.id

\* Company and id, folded: both spellings of a token have the same key.
Key(p) == CHOOSE q \in Person : q.company = p.company /\ q.id = p.id

Live(k) == cache[k] # None /\ now < cache[k].at + TTL

\* set_user_to_cache drops what has expired and, at the limit, the user that
\* was used least recently; which one that is is left open here.
Cached(k, u) ==
    LET live == {q \in Person \ {k} : Live(q)} IN
    \E kept \in SUBSET live :
        /\ Cardinality(live \ kept) =
              (IF Cardinality(live) >= MaxSize /\ ~Live(k) THEN 1 ELSE 0)
        /\ cache' = [q \in Person |->
              IF q = k THEN u ELSE IF q \in kept THEN cache[q] ELSE None]

TakeCached(s, t, u) ==
    LET k == Key(t.person) IN
    /\ Live(k) /\ u = cache[k]
    /\ UNCHANGED cache

\* On a miss the claims of the token become the user.
TakeClaims(s, t, u) ==
    LET k == Key(t.person) IN
    /\ ~Live(k)
    /\ u = [person |-> t.person, spelling |-> t.spelling, at |-> now]
    /\ Cached(k, u)

\* What can be taken: the user in the cache or the claims of the token.
Candidates(t) ==
    {[person |-> t.person, spelling |-> t.spelling, at |-> now]}
        \cup {cache[k] : k \in {q \in Person : cache[q] # None}}

-----------------------------------------------------------------------------
(* The end of a request, as the MCP server sees it.                        *)

\* A count that failed is None, and comparing it a TypeError; a log that
\* failed is swallowed.
Respond(s, o, status) ==
    /\ answer' = [answer EXCEPT ![s][o] = status]
    /\ \/ /\ o = "count" /\ status = "200" /\ counted[s] < Limit
          /\ verdict' = [verdict EXCEPT ![s] = "admitted"]
          /\ pc' = [pc EXCEPT ![s] = "graph"]
       \/ /\ o = "count" /\ status = "200" /\ counted[s] >= Limit
          /\ verdict' = [verdict EXCEPT ![s] = "refused"]
          /\ pc' = [pc EXCEPT ![s] = "done"]
       \/ /\ o = "count" /\ status # "200"
          /\ verdict' = [verdict EXCEPT ![s] = "failed"]
          /\ pc' = [pc EXCEPT ![s] = "done"]
       \/ /\ o = "log"
          /\ pc' = [pc EXCEPT ![s] = "done"]
          /\ UNCHANGED verdict

-----------------------------------------------------------------------------
(* The requests.                                                           *)

\* A request arrives: the user is taken and the session made, which needs the
\* company in the spelling of COMPANY_CODES.  A token that cannot be decoded,
\* and an entry that expires between the test for it and its use, are
\* exceptions.
Arrive(s, t, o) ==
    /\ op' = [op EXCEPT ![s] = o]
    /\ token' = [token EXCEPT ![s] = t]
    /\ \/ \E u \in Candidates(t) :
             /\ TakeCached(s, t, u) \/ TakeClaims(s, t, u)
             /\ user' = [user EXCEPT ![s] = u]
             /\ used' = [used EXCEPT ![s] = now]
             /\ \/ /\ u.spelling = "exact"
                   /\ pc' = [pc EXCEPT ![s] = "open"]
                   /\ UNCHANGED <<answer, verdict>>
                \/ u.spelling # "exact" /\ Respond(s, o, "500")
       \/ /\ Respond(s, o, "500")
          /\ UNCHANGED <<cache, user, used>>
    /\ UNCHANGED <<now, began, counted, rows, restarts, seen>>

\* A search starts: its calls are counted.
Begin(s) == pc[s] = "idle" /\ \E t \in Token : Arrive(s, t, "count")

\* Graph has been called: the task logs it, with the same token.
CallLogged(s) == pc[s] = "graph" /\ Arrive(s, token[s], "log")

\* SET search_path begins the transaction, whose time the database uses.
Open(s) ==
    /\ pc[s] = "open"
    /\ began' = [began EXCEPT ![s] = now]
    /\ pc' = [pc EXCEPT ![s] = "work"]
    /\ UNCHANGED <<now, cache, op, token, user, counted, answer, verdict, rows,
                   restarts, used, seen>>

Recent(s) == {r \in rows : r.at + Window >= began[s]}

\* The count compares the provider of the rows with the user's address, for
\* which the user stands here.
Counts(s, r) == r.company = user[s].person.company /\ r.provider = user[s].person

\* Faulty variant: nothing found is no number, as with sum() for count().
CountNullable(s) ==
    /\ pc[s] = "work" /\ op[s] = "count"
    /\ LET found == {r \in Recent(s) : Counts(s, r)} IN
       counted' = [counted EXCEPT ![s] = IF found = {} THEN None ELSE Cardinality(found)]
    /\ pc' = [pc EXCEPT ![s] = "commit"]
    /\ UNCHANGED <<now, cache, op, token, user, began, answer, verdict, rows,
                   restarts, used, seen>>

Count(s) ==
    /\ pc[s] = "work" /\ op[s] = "count"
    /\ counted' = [counted EXCEPT ![s] = Cardinality({r \in Recent(s) : Counts(s, r)})]
    /\ seen' = [seen EXCEPT ![s] =
          Cardinality({r \in Recent(s) : r.actor = token[s].person})]
    /\ pc' = [pc EXCEPT ![s] = "commit"]
    /\ UNCHANGED <<now, cache, op, token, user, began, answer, verdict, rows,
                   restarts, used>>

\* The row is added and flushed: it is in the transaction of the request.
Insert(s) ==
    /\ pc[s] = "work" /\ op[s] = "log"
    /\ pc' = [pc EXCEPT ![s] = "commit"]
    /\ UNCHANGED <<now, cache, op, token, user, began, counted, answer, verdict,
                   rows, restarts, used, seen>>

\* What the transaction of a request leaves in the table.
Written(s) ==
    IF op[s] = "log"
    THEN {[search |-> s, company |-> user[s].person.company,
           actor |-> user[s].person, provider |-> MicrosoftGraph,
           at |-> began[s]]}
    ELSE {}

\* Faulty variant: the endpoint answers, and nothing commits.
CommitForgotten(s) ==
    /\ pc[s] = "commit"
    /\ Respond(s, op[s], "200")
    /\ UNCHANGED <<now, cache, op, token, user, began, counted, rows, restarts,
                   used, seen>>

\* The dependency commits before the response is sent.
Commit(s) ==
    /\ pc[s] = "commit"
    /\ rows' = rows \cup Written(s)
    /\ Respond(s, op[s], "200")
    /\ UNCHANGED <<now, cache, op, token, user, began, counted, restarts, used, seen>>

\* Faulty variant: the rollback waits for the connection that is gone.
DatabaseFailsStuck(s) ==
    /\ pc[s] \in {"open", "work", "commit"}
    /\ pc' = [pc EXCEPT ![s] = "open"]
    /\ UNCHANGED <<now, cache, op, token, user, began, counted, answer, verdict,
                   rows, restarts, used, seen>>

\* The database fails: the transaction is rolled back, unless the commit had
\* reached it.
DatabaseFails(s) ==
    /\ pc[s] \in {"open", "work", "commit"}
    /\ \/ UNCHANGED rows
       \/ pc[s] = "commit" /\ rows' = rows \cup Written(s)
    /\ Respond(s, op[s], "500")
    /\ UNCHANGED <<now, cache, op, token, user, began, counted, restarts, used, seen>>

Tick ==
    /\ now < MaxTime
    /\ now' = now + 1
    /\ UNCHANGED <<cache, pc, op, token, user, began, counted, answer, verdict,
                   rows, restarts, used, seen>>

Serving(s) == pc[s] \in {"open", "work", "commit"}

\* The common API is restarted: its cache is lost, its requests break, and of
\* the commits on their way any may have reached the database.
Restart ==
    /\ restarts < MaxRestarts
    /\ restarts' = restarts + 1
    /\ cache' = [p \in Person |-> None]
    /\ \E done \in SUBSET {s \in Search : pc[s] = "commit"} :
          rows' = rows \cup UNION {Written(s) : s \in done}
    /\ pc' = [s \in Search |-> IF Serving(s) THEN "done" ELSE pc[s]]
    /\ answer' = [s \in Search |->
          IF Serving(s) THEN [answer[s] EXCEPT ![op[s]] = "broken"] ELSE answer[s]]
    /\ verdict' = [s \in Search |->
          IF Serving(s) /\ op[s] = "count" THEN "failed" ELSE verdict[s]]
    /\ UNCHANGED <<now, op, token, user, began, counted, used, seen>>

Serve(s) == Open(s) \/ Count(s) \/ Insert(s) \/ Commit(s) \/ DatabaseFails(s)

Next ==
    \/ \E s \in Search : Begin(s) \/ CallLogged(s) \/ Serve(s)
    \/ Tick
    \/ Restart

Spec == Init /\ [][Next]_vars

\* Graph calls end (GraphClient), their log tasks run, and the database
\* answers or fails.
Fairness == \A s \in Search : WF_vars(CallLogged(s)) /\ WF_vars(Serve(s))

FairSpec == Spec /\ Fairness

-----------------------------------------------------------------------------
(* Properties.                                                             *)

\* The user a request works for is the one its token names, in its company,
\* and was read from a token of that user less than TTL before: the cache
\* never mixes users or outlives its time (user_cache.py:13-36).
UserFresh ==
    \A s \in Search : user[s] # None =>
        /\ user[s].person = token[s].person
        /\ user[s].at <= used[s] /\ used[s] < user[s].at + TTL

\* Status 200 for a log means that its row is in the table; every row stands
\* for an admitted search, in the schema of its user's company, and its
\* request was not refused; nothing is admitted unless its count succeeded.
AnswersMatchTable ==
    \A s \in Search :
        /\ answer[s]["log"] = "200" => \E r \in rows : r.search = s
        /\ \A r \in rows : r.search = s =>
              /\ r.actor = token[s].person /\ r.company = token[s].person.company
              /\ verdict[s] = "admitted" /\ answer[s]["log"] # None
        /\ verdict[s] = "admitted" => answer[s]["count"] = "200"

\* Every search comes to its end, whatever fails or restarts.
EverySearchEnds ==
    \A s \in Search : pc[s] \notin {"idle", "done"} ~> pc[s] = "done"

\* The guard stops a user who has reached the limit
\* (mail_guard_service.py:18).
LimitEnforced ==
    \A s \in Search : verdict[s] = "admitted" => seen[s] < Limit

=============================================================================
