# Verification of mcp-mail

TLA+ models, TLC runs and TLAPS proofs for the two services of this repository:

* **cmn**, the common API (`src/cmn`, FastAPI): keeps the Microsoft tokens of users
  and of applications, the users' context and the call log.
* **app**, the MCP server (`src/app`, FastMCP): offers mail tools, asks cmn for a user's
  context and Graph token before every tool call (only cmn can refresh the token), and
  calls Microsoft Graph with it.

Both are asyncio programs: one thread per process, handlers interleave at `await`
and only there. cmn may run as several processes over one PostgreSQL database.

Everything below refers to the source by path and line.

## 1. Inventory

| Part | Source | State it keeps | Operations | Status |
|---|---|---|---|---|
| Delegated token store | `cmn/services/delegated_auth_service.py`, `cmn/repositories/auth_repository.py` | table `m365_user_toekn`: access token, refresh token, `expires_at` per (app, user) | fetch (with refresh), OAuth callback | `DelegatedAuth`, `TokenStore` |
| Application token cache | `cmn/services/auth_service.py`, `cmn/utils/token_manager.py` | `_tokens`, `_locks` per "company:app" | get token | `AppToken`, `TokenCache` |
| Database sessions | `cmn/core/database.py`, `cmn/core/dependencies.py` | one engine per company | `session()`, request-scoped session | `DelegatedAuth`, `LogService` |
| Shared HTTP client | `cmn/base/http_client.py`, `cmn/main.py` | one `AsyncClient` and its creation lock | get, close | not modelled (section 7) |
| User context and JWT | `cmn/utils/user_cache.py`, `cmn/utils/jwt_manager.py` | TTL cache of at most 100 users for 3600 s | get, set, token to user | `LogService` |
| Log endpoints | `cmn/api/endpoint/logs_router.py`, `cmn/db/models/mcp_log.py` | tables `m365_mcp_api_log`, `m365_mcp_tool_log` | insert, count of the last minutes | `LogService`; the tool log from its caller's side in `ToolCall` |
| Request log of cmn | `cmn/base/middleware.py`, `logger.py`, `opentelemetry.py` | none that a request reads | write a line, export a span | not modelled |
| Graph client | `app/clients/graph_client.py` | a log record per call, shared by its attempts and log tasks | attempt, retry on 429, log | `GraphClient`, `GraphRequest`, `GraphResult` |
| Tool pipeline | `app/core/http_middleware.py`, `app/core/mcp_midleware.py`, `app/clients/mcp_cmn_client.py` | request state: trace id, user, Graph token, lists | fetch context, run tool, translate errors, log | `ToolCall` |
| Mail guard | `app/service/mail_guard_service.py` | none (asks the log endpoints) | check the call limit | `LogService`; its outcomes in `ToolCall` |
| Mail reading and search | `app/service/mail_service.py`, `app/schema/mail.py` | none across calls | list, detail and mark read, search over pages | requests in `ToolCall`, results in `MailSearch` |
| Mail writing | `app/service/mail_write_service.py` | none | draft, send, reply, forward | `ToolCall` |
| Reports and dates | `app/service/mail_report_service.py`, `app/utils/date_utils.py` | none | week and month ranges, KST bounds | `Calendar`, `MailSearch` |
| Tool definitions | `app/tools/*.py` | none | pass arguments on; only the mail tools are registered (`app/main.py:20-23`) | the mail tools: `MailSearch`, `ToolCall`, `Calendar` |
| ASGI logging middleware | `app/core/http_asgi_middleware.py` | - | not registered (`app/main.py:33`) | not modelled |
| Documentation generator, recovered files | `generate_mcp_docs.py`, `recovered_*.py` | - | offline script, dead files | not modelled |

### How the parts interact

    MCP client --HTTP--> app: HTTPMiddleware --> MCP middlewares --> tool --> mail services
                                  |                                             |
                 user context, delegated token, logs                    Graph client (429 retry)
                                  v                                             v
                         cmn: routers --> services --> PostgreSQL        Microsoft Graph
                                              |
                                              +--> Microsoft identity platform (token endpoint)

* A tool call starts with a fetch of the user's delegated token from cmn
  (`app/core/mcp_midleware.py:75-132`). cmn answers from its table or redeems the stored
  refresh token first.
* The same table row is written by the OAuth callback when a user gives consent. No lock
  is shared by fetch and callback; they meet in PostgreSQL only.
* An application token lives in the memory of a cmn process; there an `asyncio.Lock`
  per key protects it.
* Call logs go from app to cmn in tasks nobody awaits; the mail guard counts them.
* The cache of users in cmn is shared by all requests of a process; the request state of app
  (`request.state`) belongs to one HTTP request, and to the services that run for it.

### Hard behaviours, and what makes a part correct

| Part | What is hard | What correctness means |
|---|---|---|
| Delegated token store | no lock, two writers of a row, SELECT then INSERT/UPDATE, column-wise UPDATE, token response late or lost, commit whose acknowledgement is lost, process death between exchange and commit | an answer agrees with a committed row; a row only says what Microsoft granted; an answered token is still accepted; an INSERT never replaces; every request ends |
| Application token cache | look-up before and after the lock, failures inside the lock, waiters against late comers, buffer against delay, restart | one issue per key at a time and none while a valid token is cached; order of waiters; every request ends |
| User cache | expiry between two look-ups, eviction, keys that fold what the value keeps | a user is the token's, in its company, and not older than the cache allows |
| Graph client | retry only after 429, at most twice; shared log record | number of requests sent, each attempt logged with its own outcome |
| Tool pipeline | calls of several users between awaits, requests of several steps that fail half-way, cancellation, one log per call | identities do not mix; a call that is refused never reaches Graph; answers and logs tell what was done |
| Mail guard and log | check before, log after; what is counted; restart between the two | the limit stops a user; an answered log is stored |
| Mail search | pages, a mailbox that changes between them, threads, equal and missing times, cut, KST days | the newest mail of every thread, of the days and terms asked for |
| Dates | month and year boundaries, midnight between two reads of the clock | ranges cover every day once; the periods of a report adjoin |

## 2. Plan

Most important first: what several requests can break together, then single-request
protocols, then pure functions.

| # | Module | Models | Composes | Runs | Proofs |
|---|---|---|---|---|---|
| 1 | `DelegatedAuth`, `TokenStore` | delegated token store and its promise | `DelegatedAuth` implements `TokenStore` | 4 | all safety properties of its passing runs, refinement |
| 2 | `AppToken`, `TokenCache` | application token cache and its promise | `AppToken` implements `TokenCache` | 2 | all safety properties, refinement |
| 3 | `GraphClient`, `GraphRequest`, `GraphResult` | attempts, 429 retry, log record and log tasks; one request as its caller sees it | `GraphClient` implements `GraphRequest` | 1 | all safety properties, refinement |
| 4 | `ToolCall` | request state, context fetch, tools, mail services, error translation, tool log | `GraphResult`, which `GraphClient` implements; `LogService`'s guard and `DelegatedAuth` as answers it may get | 1 | all safety properties |
| 5 | `LogService` | guard, user cache, sessions, count and insert | guard (app) with endpoints and cache (cmn) | 2 | all safety properties of its passing run |
| 6 | `MailSearch` | queries of the tools, pages, threads, order, cut, KST days | - | 1 | all safety properties |
| 7 | `Calendar` | weeks, months, the periods of a report | - | 1 | all properties |

`ToolCall` is composed with its neighbours by what they may answer: one await of `ToolCall` is a
whole call of `graph_request`, of the count endpoint or of the token endpoint. For Graph the seam is a
module of its own. `GraphResult` says how a call of `graph_request` ends and what each end says of
Graph; `ToolCall` takes every such end, with every number of effects it allows, and no other;
`GraphRequest` is the one request that ends so; and `GraphClient`, with its attempts, is proved to implement
`GraphRequest`. So what `AnswersMatchWork` says of mails written rests on the retry loop, not on an assumption
about it.

Abstract specifications:

* `TokenCache`, which `AppToken` implements: one fill at a time and none without need.
* `TokenStore`, which `DelegatedAuth` implements without any lock: each request takes effect at one moment,
  answering from one committed version of its row or replacing it. It leaves open which refresh token
  stays in a row that several requests replace, because an UPDATE writes only the columns that differ from what was
  loaded (second finding of section 6).
* `GraphRequest`, which `GraphClient` implements: retries are invisible.

No module uses RECURSIVE.

## 3. Modules

### `DelegatedAuth`

One step is what a handler does between two awaits. `pc` names the await.

| Step | Code (`delegated_auth_service.py` unless named) |
|---|---|
| `Reject` | guards that end a request before its first await: 46-98, and the exception handlers of `cmn/base/exception.py` that turn them into 400 or 500 |
| `StartFetch`, `StartCallback` | 262-270, 197-216 |
| `ReadRow`, `CheckToken` | 341-345 SELECT in a session of its own; then 270-294 on the row as it was read |
| `ReadConfig` | 100-116, a second session, closed before Microsoft is called |
| `IdpIssue`, `ExchangeFails` | Microsoft's side of the POST, and every way in which it fails: 119-148, 313-338 |
| `ReceiveToken` | 150-182, `expires_at` from the clock at arrival |
| `SaveSelect`, `SaveFlush`, `SaveCommit` | `auth_repository.py:21-45` and the commit of 182-193 |
| `DatabaseFails` | any statement of an open session raises: rollback in `database.py:58-93` |
| `Tick`, `Crash` | the clock; death of the process |

`row` is the committed table, `lock` the transaction that holds an uncommitted version of
a row. `SaveFlush` waits until the row is free, as a PostgreSQL UPDATE or INSERT does, and
an INSERT that then meets a committed row fails on the primary key
(`m365_user_toekn.py:18-25`). `Written` is what SQLAlchemy sends: the UPDATE names only
columns whose value differs from the loaded one, so a refresh token that did not change is
not written. A token is named by the grant it was issued in; two different grants have different
access tokens. `seen`, `got`, `redeem` and `expiresAt` are reset when a handler answers
(the locals are gone). `during` is a history variable: the versions of the row that were
committed while the request ran; it is read by `AnswersMatchRow` only. A fresh row always has an access token
here: the fall-through of 279 for a row whose token is blank is not modelled, because a response without
one is refused (166-170) and nothing else writes the table.

`TokenStore` knows no sessions, no locks and no columns: a table, and requests that `Look` once and `Tell` what
they saw, or `Replace` the row, or `Fail`. The mapping forgets when a token ends (`Stored`) and
takes every place before the answer but `check` to "asked" (`Phase`): only a request that is about to judge
the row it has read still depends on it (`View`). A fetch takes effect at `ReadRow`, a save at `SaveCommit`;
what a save found in its SELECT, and what it has flushed, is not visible.

The configuration table is maintained elsewhere; `ReadConfig` finds it complete or not,
each time anew.

### `AppToken` and `TokenCache`

`AppToken` follows `AuthService._handle_token` (`auth_service.py:46-119`): look-up
(`LookUp`), the lock, second look-up (`EnterLock`), configuration, POST, save and release.
`holder` and `queue` are the `asyncio.Lock` of a key. `acquire()` on a free lock without
waiters does not suspend, so `LookUp` runs through to the first await inside the lock;
`release()` schedules the first waiter, who resumes in a later step (`Wake`) and may
find that others have queued up behind it. `exact` records that the key is lower-cased
(`token_manager.py:29`) and the company code of the session is not: a company that is spelled
differently hits the cache and fails at the database. Every token has its real life, but a response
may state none (`stated`): `SaveToken` then believes in the token for `DefaultLife`, the 1800 s of
`auth_service.py:115` (`Trusted`), which has no relation to the real one.

`TokenCache` is the promise: a fill begins only without a usable token and alone for its
key, it completes or aborts, and the memory may be lost. The mapping takes
`filling` to the keys whose lock is held.

### `GraphClient`

`graph_client.py:56-170`, one step per await. A call awaits the answer to its request or
sleeps between two attempts.

| Step | Code (`app/clients/graph_client.py` unless named) |
|---|---|
| `Start` | 56-105: the record is created, the first request sent |
| `Succeed`, `BadBody` | 109-133: JSON body, empty body (202, 204); a body that is no JSON raises after the operation was carried out |
| `Refuse` | 142-149: 400, 401, 403, 404 become a Graph error |
| `AnswerOther` | 159-160: every other status is raised as it is |
| `Break` | 161-165: timeout or broken connection |
| `Throttle` | 150-158: last attempt, `Retry-After` that is no integer, or sleep |
| `Wake` | 158-170: `continue`, the `finally` of the old attempt, the next request |
| `Cancel` | cancellation of the tool call: only the `finally` of 166-170 runs |
| `StartTask`, `FinishTask` | `mcp_cmn_client.py:104-127`: the record is dumped and posted; a failure is swallowed |

Every attempt leaves by the same `finally`, so `Leave` and `Wake` create the log task of the
attempt. All tasks send the *same* record, as it is when they start (`StartTask`). The event
loop runs ready tasks in order, and the task of an earlier attempt is ready before the
next answer can arrive: `TasksStarted` is the guard of every answer.
`effects` is Graph's side: how often the operation was carried out. A 2xx answer means that it was,
400 to 404 and 429 that it was not; after a server error, a broken connection or a cancellation
it may have been. `verdict` is a history variable.

`GraphRequest` sees a call before, while and after it is on its way; sleeping is being on its way, and
every `Leave` is an `End` with the number of effects `GraphResult` allows for its verdict.

A remark on the log: when an attempt succeeds after a 429, its record still holds the message
of the 429 (status and HTTP status are overwritten, `message` is not). No document says
otherwise, so `RowsTruthful` speaks of status and HTTP status only.

### `ToolCall`

One tool call from the HTTP request to its log. `pc` names what the call awaits: the user
context (`context`), the call count (`guard`) or Graph (`graph`); inside `graph_request`
`GraphClient` takes over.

| Step | Code |
|---|---|
| `Start` | `http_middleware.py` sets up the request state, `mcp_midleware.py:75-101` builds the log record (a trace id that is no UUID raises before the `try`) and asks for the context if there is a token |
| `ContextArrives`, `ContextFails` | `mcp_midleware.py:98-111`, `mcp_cmn_client.py:36-72`; then the tool runs to its first await |
| `Enter` | the tool and the head of its service method: `_get_request_context`, yellow list, arguments, first request (`mail_service.py:38-77`, `mail_write_service.py:17-139`, `mail_tools.py`) |
| `GuardAdmits`, `GuardRefuses` | `mail_guard_service.py:11-20`, then the query of `search_emails`, whose arguments are only checked here |
| `PageArrives` | `mail_service.py:353-376`, the loop over `@odata.nextLink` |
| `DetailArrives`, `ReadMarked` | 222-271: the mail is read, then marked as read |
| `FoldersArrive`, `MessagesArrive` | `mail_tools.py:332-348`, `mail_service.py:445-528`; the dates of a folder listing are parsed only here (484-485), after the request for the folders |
| `WriteAccepted` | `mail_write_service.py:141-293` |
| `GraphFails` | every exception of `graph_request` |
| `Cancel` | the client cancels: `CancelledError` ends the call, but at the guard `fetch_recent_api_log_count` swallows it (`mcp_cmn_client.py:156`) and the comparison with None raises |
| `PostLog`, `LogEnds` | the task of `mcp_midleware.py:132` and `mcp_cmn_client.py:77-100` |

`state` is `request.state`, `context` the `MailRequestContext` a service method has read from it.
`trail` records the requests a call sends to Graph, each with its identity and its outcome: it is what
Graph sees, and the properties relate it to the answer. `times` is how often Graph carried the request out,
any number `GraphResult` allows for the outcome (`Over`): a cancellation while a request is on its way
ends it, too, with an operation that may have been carried out. A token stands for its user. Arguments are
good, "bad" (refused by the service), "badDate" (a date that is none; only searches and folder listings take
dates) or, for a draft, unconfirmed.
"search" stands for all tools that call `search_emails`.

How an exception is answered depends on who raises it: FastMCP wraps what a tool raises in a `ToolError`,
and `MCPExceptionMiddleware` (43-67) looks at its cause. `CancelledError` passes `except Exception`; its log
is written by `finally` and has no status. A call that is cancelled at the guard never raises it and is logged
as an error. A record that does not fit its schema is a
`ValidationError`, which FastMCP may or may not wrap depending on its version; both are modelled.

### `LogService`

The guard, the count and the log, with the user cache and the session every request needs. A
search sends two requests, `count` before and `log` after its Graph call, each with a transaction of its
own. `pc` names what it awaits: the first statement of the session (`open`), the
endpoint's (`work`), the `commit`, Graph.

| Step | Code |
|---|---|
| `Begin`, `CallLogged` → `Arrive` | `mcp_cmn_client.py:129-157, 104-127`; `jwt_manager.py:62-75`, `user_cache.py:13-36`, `dependencies.py:23-31` (company check) |
| `Open` | `database.py:58-93`: SET search_path begins the transaction; `now()` in it is this moment |
| `Count`, `Insert` | `logs_router.py:61-76, 46-58` |
| `Commit` | `dependencies.py:31-34`, before the response is sent |
| `DatabaseFails` | rollback; a failing commit may have reached the database |
| `Respond` | what the guard makes of the answer: a failed count is None and comparing it a `TypeError` |
| `Restart` | death of cmn: cache lost, requests broken, commits on their way in doubt |

The cache folds company and id into its key but keeps the company as the filling token spelled
it: `spelling` says whether that is the spelling of `COMPANY_CODES`, which the session requires.
Which user a full cache drops is left open.

### `MailSearch`

What each listing tool asks for (`Query`) and what the service makes of the pages. A mailbox is a sequence of
mails in the order in which Graph finds them; how Graph matches a query is its side and marked
external, as is the number of mails in a page. A query has a date range, terms, all of which must hold, and
`mine`, of which one must: to or cc the user for what was received, from the user for what was sent
(`mail_service.py:307-310`); a folder listing filters by its dates only. `AnswersAskedFor` does not read the query
for what was wanted: `ForOrByTheUser` and `OfTheKind` say for each tool what its description promises
(`mail_tools.py`). `MailboxChanges` inserts or removes a mail between two pages, so a
next link may repeat or skip one. `Result` is `mail_service.py:379-403`: sorted by time, one mail per
conversation (the last one, at the place of the first, as a dict keeps it), sorted again the other way, cut.
`sorted` is stable: it is the one arrangement in which a mail stands before another if its time is before, or
the same and it stood before (`Arranged`), so no sorting algorithm is chosen. The loop over the mails is the function
`after` of `UniqueThreads`. The code sorts by `receivedDateTime or ""`, so a mail without a time is older than
every other; `Stamp` gives it the hour -1.
Time is in hours with KST nine ahead of UTC; `StartHour` and `EndHour` are `get_format_to_utc`.

### `Calendar`

`WeekRange` and `MonthRange` are `date_utils.py:32-69` over ordinals and dates. A report reads
today twice, for each period anew, and midnight may come between the two reads. Then
`_fetch_period_summary` calls `fetch_my_mails`, which `MailService` does not have
(`mail_report_service.py:89`): every report ends in an `AttributeError`.

### Faulty variants

Every faulty variant (`FreshNoBuffer`, `EnterLockNoRecheck`, ...) stands in front of the
definition it varies and is used by none. It is there to show that a property can fail.

## 4. Runs

| Run | Bounds | Question | Result |
|---|---|---|---|
| `delegated_writers` | 2 handlers, 1 user, 3 grants, clock stopped, 195 k states | fetch against callback on one row with every failure and crash: row lock, sessions, answers against commits, INSERT, `TokenStore`, termination | holds |
| `delegated_clock` | 2 handlers, 2 users, 2 grants, lifetimes 1 and 3, clock to 3, 1.6 M states | what rows claim and whether answered tokens live | holds |
| `delegated_keep` | 1 handler, 1 user | is the refresh token kept when a refresh returns none? | **violated** (section 6) |
| `delegated_stored` | 2 handlers, 1 user, 3 grants | does a refresh that returned a refresh token leave one behind? | **violated** (section 6) |
| `app_token_queue` | 3 handlers, 1 key, 2 tokens of life 2, default life 1, clock to 1, 176 k states | order at the lock, termination, `TokenCache` with its fairness | holds |
| `app_token_keys` | 3 handlers, 2 keys, 2 tokens, life 2, default life 3, clock to 2, 652 k states | single flight, no redundant issue, cache against Microsoft | holds |
| `graph_client` | 1 call, 3 attempts as in the code, 714 states | does the retry repeat an operation; does it look like one request (`GraphRequest`); is each attempt logged, with its own outcome; does the call end | holds |
| `tool_call` | 2 calls of 2 users, 2 pages, 3 yellow lists, 293 k states | do identities mix; do refused calls send anything; do answers and logs tell what was done; is a mail written exactly once when they say so; does every call end | holds |
| `log_service` | 2 searches, 2 users with one id, cache of 1, TTL 2, window 1, limit 1, clock to 2, 1 restart, 221 k states | whose user a request works for; does a stored log stand in its table; does every search end | holds |
| `log_limit` | as before, clock to 1 | does the guard stop a user at the limit? | **violated** (section 6) |
| `mail_search` | mailboxes of up to 3 of 6 mails in every order, every split into pages, 1 change, 96 k states | newest of each thread, what was asked for, end | holds |
| `calendar` | 400 days from each of 5 dates, 2 reports, 51 k states | weeks, months and the periods of a report | holds |

### The bounds

* *Time* is scaled: `Buffer = 1` stands for the 300 s of `delegated_auth_service.py:279`
  and of `token_manager.py:14`, `MaxDelay = 1` for the longest way of a token response.
  Lifetimes lie on both sides of the buffer, so expired, nearly expired and fresh rows all
  occur; `MaxTime` leaves room for a token to be issued, delivered late and
  read again at the end of its life. `DefaultLife` is above the real life in `app_token_keys` (a token
  believed in for too long) and below it, and not above the buffer, in `app_token_queue` (a token
  that is cached and never valid).
* *Handlers* serve one request after the other without end. Two are enough for every pair
  of steps on one row; three are needed at the lock (one inside, one waiting, one arriving).
* *Grants* bound how many tokens Microsoft issues in a behaviour. Three suffice for a first
  consent and two competing refreshes. When they are used up Microsoft can still refuse, so
  the bound stops no handler.
* *Calls* of the Graph client share nothing but the connection, so one call shows every
  behaviour; the proofs cover any set of calls and any number of attempts. The run stops
  when the call and its tasks have ended, so deadlock is not checked there; `EveryCallEnds`
  says where it stops.
* *Tool calls*: identities can only mix between two calls of two users, so the second call of
  `tool_call` is always another user's, a search or a folder listing (the tools with several
  requests to Graph). The first one has every kind of argument. Replying and forwarding have the shape of
  sending, the monthly report that of the weekly one: the run leaves them out, the proofs do not.
  The cap `MaxPages` stands for the mailbox being finite.
* *Logs*: two searches are enough for a check that both pass before either is logged. A
  cache of one user makes every second user an eviction, `TTL = 2` against a clock of 2 lets entries live
  and expire, `Window = 1` lets rows fall out of the window. `MicrosoftGraph` is the provider the rows
  get; it is no user's address.
* *Mailboxes*: of the six mails three share a thread and two another, one has none and one has no times; their
  hours are the first and last of a KST day and its neighbours. The sixth has every term but is neither to, cc
  nor from the user: only the filter of lines 307-310 keeps it out. `MaxListed = 2` stands for the 50 of
  `mail_service.py:467`; `top_k` lies below, at and above it and is zero and negative, too.
* *Days*: thirteen months from each start contain every turn of a month and both kinds of
  February; the starts reach 2000, a leap year, and 2100, which is none.
* *Deadlock* is not checked where a run serves a bounded number of calls and then stops:
  `graph_client`, `tool_call`, `log_service`, `log_limit`, `mail_search`. Their liveness properties
  say where they stop.
* *Symmetry* is used in `delegated_clock` and `app_token_keys` only, where no liveness is
  checked.

### Environment assumptions

* `DelayAssumption`, `MaxDelay <= Buffer`: the buffer is 300 s, the client's timeouts are
  10 s for reads of the shared client (`http_client.py:34-40`) and 20 s in
  `auth_service.py`. Timeouts of httpx are per phase and the event loop adds its own delay,
  so this is an assumption about operation and named as such. `AnswersOnlyLiveTokens`
  depends on it.
* cmn and Microsoft read the same clock.
* PostgreSQL runs at READ COMMITTED: a SELECT sees the last committed row; a committed row
  survives a crash; an open transaction does not.

### Fairness

Weak fairness for every step the event loop, the database or the client's timeout
completes. `Exchange` is the disjunction of Microsoft's answer and its failure: nothing
is assumed of Microsoft, only that the client does not wait forever. `SaveFlush` has strong
fairness: it is enabled only while the row is free, and PostgreSQL's lock queue grants a contended row
in turn. No fairness for arrivals, for failures, for the clock or for crashes. In
`GraphClient` a request ends because the client gives up after 30 s
(`graph_client.py:107`), a sleep because its length is finite, and the event loop runs ready
tasks; as above, nothing is assumed of the kind of answer.

`ToolCall`: a request to cmn ends after httpx's 5 s at the latest, one to Graph as
`EveryCallEnds` of `GraphClient` says, and ready log tasks run. `LogService`: a Graph call ends, and the
database answers or fails; failing is one of the disjuncts, so it is never assumed to work. `MailSearch`:
a page arrives or its request fails. Liveness over pages needs that the mailbox is
finite and changes finitely often (`MaxPages`, `MaxChanges`).

## 5. Proofs

`AppTokenProofs` proves for every number of handlers, keys and tokens, every lifetime and
every buffer:

| Theorem | States |
|---|---|
| `TypeCorrect` | `TypeOK` |
| `MutualExclusion` | `SingleFlight` |
| `NoRedundantIssue` | `NoIssueWhileCached` |
| `CacheSound` | `CacheBacked` |
| `CachedAnswersLive` | `AnswersOnlyLiveTokens` |
| `ServedInOrder` | `NoOvertaking` |
| `QueuesExact` | `QueueMatchesWaiters` |
| `Refinement` | `Spec => Cache!SafeSpec` |

The proofs use the ASSUMEs of `AppToken`, which TLC also evaluates for each instance.

The argument. `TypeOK` alone is not inductive: `SaveToken` writes `got[r]` into the
cache, and only `InFlight` says that a response on its way holds a token, issued for the key
the request wants, at most `MaxDelay` ago. `TypeOK /\ InFlight` is inductive.
`SingleFlight` is inductive relative to it: a lock is taken only where `holder` is `Free`
(so nobody is inside), and every way out of the lock releases the key of the request that
leaves. `NoIssueWhileCached` needs `SingleFlight`: a key's record changes only in
`SaveToken`, whose request is the only one inside, and leaves; time only makes a valid
record invalid. `CacheBacked` needs `InFlight`: `expires` is `now + Trusted(token)`, and `now` is at
most `MaxDelay` after the issue. The two action properties follow: a valid record has
`now + Buffer < expires <= at + Trusted(token) + MaxDelay`, where `at` is the moment of issue, and with
`MaxDelay <= Buffer` the token is alive where `Trusted(token)` is not above its real life. That is so whenever the
response stated a lifetime; where it stated none, it is as good as the guess, and the property says so.
For the refinement, each step is mapped to a fill that begins, completes or aborts,
to the loss of the memory, to time passing, or to a stutter; `SingleFlight` gives that
the key of `SaveToken` is being filled, `NoIssueWhileCached` is not needed because a fill begins
in `EnterLock` under its own look-up. `QueueMatchesWaiters` is inductive relative to
`TypeOK`: a queue only grows at its end by a request that is not yet in it (`Appended`), and only loses its
head (`Removed`).

`DelegatedAuthProofs` proves, for every number of handlers, accounts and grants, every
lifetime and every `Buffer`:

| Theorem | States |
|---|---|
| `TypeCorrect` | `TypeOK` |
| `RowsAreBacked` | `RowBacked` |
| `RowLocksAreOwned` | `OneWriterPerRow` |
| `SessionsAreShort` | `NoSessionDuringExchange` |
| `AnsweredTokensLive` | `AnswersOnlyLiveTokens` |
| `AnswersAgree` | `AnswersMatchRow` |
| `InsertsReplaceNothing` | `InsertNeverReplaces` |
| `Refinement` | `ImplementsTokenStore` |

The inductive invariant is `IInv == TypeOK /\ GrantsLinked /\ RowBacked /\ Knowledge`.
`RowBacked` alone is not inductive: what `SaveFlush` and `SaveCommit` write comes from
the locals of a handler, read or received steps earlier. `Knowledge` says of every handler
that the refresh token it redeems and the grant it received belong to its account, that the
response is at most `MaxDelay` old, that the expiry it computed is late by no more, and
that a row it has seen was backed when it was read and still exists (rows are never deleted). Because a
grant never changes once issued (`Grow`), all of this survives the steps of other
handlers, and a row whose columns come from two answers is backed because both
answers were granted to the same account. `GrantsLinked` is what makes the refresh token of a response
belong to the account of the response.
`AnswersOnlyLiveTokens` follows from what is known of `seen` at `check`, with
`MaxDelay <= Buffer`. Three more facts are inductive relative to `IInv`: `OneWriterPerRow`;
`History`, that `during` holds the row as it is now and the row a handler has read, from which
`AnswersMatchRow` follows; and `InsertAlone`, that while an INSERT is uncommitted
nobody else commits a row of its account, from which `InsertNeverReplaces` follows.

For the refinement each step is mapped to a step of `TokenStore` or to a stutter: `ReadRow` to `Look`, the
judgement of the row to `Tell` or `Renew`, `SaveCommit` to `Replace` with the row it commits, and everything between to
nothing. It needs `IInv`, in which `Knowledge` is what makes the committed row one whose tokens
were granted to its own account (`Backed`), whatever other handlers committed since the SELECT. A commit whose
acknowledgement is lost is a `Replace` that answers an error; a crash is a `Restart`.

`GraphClientProofs` proves, for every set of calls and every `MaxAttempt` of at least 1:

| Theorem | States |
|---|---|
| `TypeCorrect` | `TypeOK` |
| `NoDuplicates` | `CarriedOutOnce` |
| `ResultsHold` | `ResultsTruthful`, part of the invariant the refinement rests on |
| `AttemptsLogged` | `EveryAttemptLogged` |
| `RowsHold` | `RowsTruthful` |
| `Refinement` | `ImplementsGraphRequest` |

Here all properties are proved together: `IInv` is their conjunction with `UnderWay` and
`Pending`. `UnderWay` says that a call that has not ended has had no effect and noted no success, and
that while it sleeps no earlier log task is left to start; it is what makes another attempt harmless.
`Pending` says that a log task that has not started will find the record of its own attempt;
`RowsTruthful` follows when it starts. Calls do not touch each other (`OthersFine`), and the answers
share one argument (`LeaveFine`). The refinement needs `UnderWay`: that a call that sleeps has had no effect is
why its next attempt is a stutter of `GraphRequest` and its end has at most one.

`ToolCallProofs` proves, for every set of calls, users and yellow lists and any number of pages:

| Theorem | States |
|---|---|
| `TypeCorrect` | `TypeOK` |
| `IdentitiesHold` | `OwnIdentity` |
| `RefusalsHold` | `RefusedNeverSent` |
| `AnswersHold` | `AnswersMatchWork` |
| `LogsHold` | `LogsMatchAnswers` |

The inductive invariant is `TypeOK` and, for every call, `Fine(c) == Asked(c) /\ Logged(c) /\ Working(c)`.
`Asked` says what a call knows at each place: from the guard on, its request state and its context hold the
user of its own request, who is not on the list in that state. Without it neither
`OwnIdentity` nor `RefusedNeverSent` is inductive, because the requests of a call are
made from `context`, steps after it was stored. `RefusedNeverSent` has an exception that is the code's: of a folder
listing with a bad date the look-up of the folders is sent, and nothing after it. `Working` describes the trail of a
call under way as a beginning of the work of its tool (`Underway`), which the last answer completes
(`DoneFacts`). `Logged` ties answer, log and place. Steps of other calls leave all of it
alone (`OthersFine`). That a success means the whole work is proved for every length of the trail, not
for the two pages of the run. That what is written is written once needs that a write is the only request of its
call (`OneWrite`, `UnderwayOneWrite`) and what `GraphResult` says of its end (`TimesFacts`).

`LogServiceProofs` proves, for every finite set of searches, every `TTL`, size, window and limit:

| Theorem | States |
|---|---|
| `TypeCorrect` | `TypeOK` |
| `UsersFresh` | `UserFresh` |
| `AnswersHold` | `AnswersMatchTable` |

`TypeOK` needs that the table is finite (a count is a number), which needs that the searches are
(`SearchAssumption`). `UserFresh` needs `CacheKeyed`: an entry is kept under its own key and is not younger
than the clock. `AnswersMatchTable` needs `Placed`: while a search is not done it has no row and its log no
answer, and it is past the guard only with a count that succeeded; `Restart` may commit or lose the
transactions of many searches at once and is proved separately (`RestartFine`).

`CalendarProofs` proves, for every start date after the year 1 and any number of days and reports:

| Theorem | States |
|---|---|
| `TodayIsCovered` | `TodayCovered` |
| `PeriodsDoTile` | `PeriodsTile` |
| `ReportsAdjoin` | `ReportPeriodsAdjoin` |

The invariant is that `today` is the ordinal of `date`, a day that exists, and that the periods of a report that
has read the former one adjoin (`Reads`). The lemmas are about the calendar itself: a year is as long as its months
(`YearLength`, `MonthLength`), the number of a month determines year and month (`MonthOf`), the next
date is the next ordinal (`NextDateFacts`). That the run covers thirteen months from five dates is no
limit here.

`MailSearchProofs` proves, for mailboxes of every size, pages of every length, any number of changes between
them, every `top_k` and every set of terms:

| Theorem | States |
|---|---|
| `InductiveInvariant` | `IInv` |
| `TypeCorrect` | `TypeOK` |
| `NewestHold` | `NewestOfEachThread` |
| `AskedForHold` | `AnswersAskedFor` |

Two kinds of facts carry it. The first are about the two algorithms. Sorting: every mail has a rank, the number of mails that
stand before it or at its place; ranks are a permutation (`Ranks`), so the arrangement `Arranged` chooses
exists and is in order (`OldestFirstFacts`, `NewestFirstFacts`). The loop: `UniqueThreads` is a recursive
function, and a property that its body preserves holds after every mail (`LoopRuns`, `LoopRule`). The library's
induction theorems take an operator as a parameter and cannot be used; here the induction is over the *set* of
lengths for which the statement holds (`SetInduction`, from the well-foundedness of the naturals), which needs no
operator. With `HoldsNewest` as that property `UniqueThreadsFacts` says what the loop returns, and `ResultFacts`
what a search does.

The second kind is the invariant, `IInv == TypeOK /\ NothingYet /\ FetchedInOrder /\ SearchAnswer /\ ListingAnswer`:
while nothing has changed, the pages read so far are a beginning of what Graph finds
(`FetchedInOrder`), and what was answered is computed from what was read. That what Graph finds is what was asked
for is proved tool by tool (`QuerySays`) and hour by hour (`HoursOfDays`). Neither property says anything about a
search under way, so neither is inductive.

The proof found a fault of an earlier form of the model: with the hour 0 for a missing time, a mail of the first hour
and one without a time were equal, while the code sorts `""` before every time.

Only model-checked: everything under fairness, which is out of the prover's reach like ENABLED
(`EveryRequestAnswered`, `EveryCallEnds`, `EveryCallAnswered`, `EverySearchEnds`, `SearchEnds` and the
fairness part of `ImplementsTokenCache`). Every safety property of a passing run has a theorem.
`RefreshTokenKept`, `RefreshTokenStored` and `LimitEnforced` do not hold (section 6).

## 6. Findings

* **A refresh can erase the refresh token** (`delegated_keep`,
  `auth_repository.py:41`). `docs/delegated_trasfor_step4.md:156-161` and `PROJECT.md:264` say that the
  stored refresh token is kept when Microsoft's answer holds none. The code stores the
  answer's value, NULL. The next fetch after expiry answers "no refresh token" and the
  user has to consent again. A sequence of legal calls is enough: callback, expiry, fetch.
* **Concurrent refreshes can lose a refresh token** (`delegated_stored`). `PROJECT.md:444`
  says that a successful refresh can always overwrite the column. One refresh
  gets an answer without a refresh token and commits NULL between the SELECT
  and the UPDATE of another whose answer repeats the old refresh token. The second UPDATE does not
  name the column, because it equals what was loaded, and NULL stays.
* **The call limit never stops anybody** (`log_limit`, `mail_guard_service.py:19`). The guard's comment
  (18) says that a tool is stopped when the limit is exceeded, and `LOGS_API_COUNT_GUIDE.md:17` that the
  count selects one user's logs. The guard passes the user's address as `provider`; the rows have the
  provider "Microsoft Graph" and the user as `actor`
  (`graph_client.py:89-91`). The count is always 0. Were it right, two calls side by side could
  still pass together, because the check comes before and the log after the call.

Seen while modelling; each is a single step of the code, so no run is spent on it:

* A call without a token is not refused with `CMN_AUTHORIZATION_MISSING`
  (`docs/APP_MCP_TOOL_CONTEXT_GUIDE.md:59`): the tool runs without a user and ends in an
  `AttributeError`, answered as a tool error (`Enter`). It reaches nothing (`RefusedNeverSent`).
* `get_sent_emails` passes an argument that `search_emails` does not have (`mail_tools.py:189-212`), and
  both reports call a method that does not exist (`mail_report_service.py:89`): these three tools always fail
  (`Misbuilt`).
* The paths of the write requests have no `/me` (`mail_write_service.py:141-293`).
* `isflagged = False` and empty texts set no term, so all mails are found; a negative `top_k` drops the tail
  of a search (`Cut`).
* A token response without `expires_in` is believed in for 1800 s (`auth_service.py:115`), whatever its real life:
  such a token may be answered after its end (`Trusted`).
* A folder listing with a date that is none asks Graph for the folders before it is refused
  (`mail_service.py:484-485`), and a search counts calls first (`FoldersArrive`, `GuardAdmits`).
* A cancellation while the calls are counted is swallowed by a bare `except` (`mcp_cmn_client.py:156`): the call ends
  and is logged as an error (`Cancel`).
* `httpx_client_close()` is not awaited (`cmn/main.py:65`), so the shared client is never closed.

## 7. Not modelled

* *Shared HTTP clients* (`cmn/base/http_client.py`, `app/clients/http_client.py`): there is no await
  inside the creation lock, so no two creations overlap on one event loop, and close never runs.
* *Request logging and telemetry of cmn* and the *ASGI logging middleware of app*: no request
  reads their state; the second one is not registered (`app/main.py:33`).
* *Teams and SharePoint tools*: not registered. `fetch_emails`, `search_emails_folder` and
  `mail_search_api_service.py` are called by no tool; the summary of a report
  (`_build_period_summary`) comes after the call that always fails. `generate_mcp_docs.py` is an offline script
  and `recovered_*.py` are dead files.
* The insert of a *tool log* in cmn has the shape of the API log's, which `LogService` models.
* Cancellation of a cmn handler when its HTTP client disconnects: the endpoints are plain
  FastAPI handlers, which run to their end.
* Several cmn processes share the table in `DelegatedAuth` only as handlers; `Crash` ends
  all of them at once. A crash of one process alone is covered handler by handler
  through `DatabaseFails` and `ExchangeFails`, whose effects on shared state are the same.
* The death of the app process: it keeps nothing, its log tasks are lost (`LogEnds` may lose any of them).
* The values of tokens, URLs, HTML pages, texts of mails, log lines and spans; JWT signatures.
* Microsoft's policy on refresh tokens that were redeemed already: the model lets
  Microsoft accept or refuse them.
