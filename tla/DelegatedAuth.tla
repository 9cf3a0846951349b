--------------------------- MODULE DelegatedAuth ---------------------------
(***************************************************************************)
(* The delegated (per-user) token store of the common API:                 *)
(*   cmn/services/delegated_auth_service.py                                *)
(*   cmn/repositories/auth_repository.py, cmn/core/database.py             *)
(*                                                                         *)
(* Two endpoints share one table m365_user_toekn in PostgreSQL.            *)
(*   fetch    fetch_auth_user_token: read the user's row, answer the       *)
(*            access token when it is still good for Buffer seconds, else  *)
(*            redeem the refresh token at Microsoft, store the answer and  *)
(*            return it.                                                   *)
(*   callback handle_callback: redeem an authorization code and store the  *)
(*            answer.                                                      *)
(* No lock is taken: the requests interleave at every await, and a step of *)
(* this module is what a handler does between two awaits.                  *)
(*                                                                         *)
(* A token is named by the grant that Microsoft issued it in, so access    *)
(* token and refresh token of one token response carry the same name.      *)
(***************************************************************************)
EXTENDS Naturals, FiniteSets

CONSTANTS
    Request,    \* request handlers of the service; each serves many requests
    Account,    \* (company, app, user) with a served company and a valid app
    Grant,      \* token responses Microsoft may issue during the behaviour
    Life,       \* the values of expires_in a token response may carry
    Buffer,     \* the 300 seconds of delegated_auth_service.py:279
    MaxDelay,   \* longest way of a token response to its handler
    MaxTime,    \* bound on the clock
    Nobody,     \* holder of a row lock that is free
    NoToken,    \* a NULL token
    NoRow       \* no row for the account

ASSUME LifeAssumption == Life \subseteq Nat
ASSUME TimeAssumption == Buffer \in Nat /\ MaxDelay \in Nat /\ MaxTime \in Nat
\* The buffer is longer than the client's read timeout (10 of 300 seconds).
ASSUME DelayAssumption == MaxDelay <= Buffer
ASSUME NullAssumption ==
    /\ Nobody \notin Request
    /\ NoToken \notin Grant
    /\ NoToken \notin [owner : Account, issued : Nat, life : Life,
                       refresh : Grant \cup {NoToken}]
    /\ NoRow \notin [access : Grant, refresh : Grant \cup {NoToken},
                     expires : Nat]
    /\ NoRow \notin [access : Grant, refresh : Grant \cup {NoToken}]

VARIABLES
    now,        \* the clock both the service and Microsoft read
    grants,     \* Microsoft: what each grant was issued for
    row,        \* PostgreSQL: the committed row of each account
    lock,       \* PostgreSQL: the transaction that wrote a row, uncommitted
    pc,         \* where a handler awaits
    kind,       \* "fetch" or "callback"
    acct,       \* the account the request is about
    seen,       \* the row a handler read last (read_data, then existing)
    redeem,     \* the refresh token it redeems, NoToken in a callback
    got,        \* the token response it received (token_data)
    expiresAt,  \* the expires_at it computed
    session,    \* TRUE while it has a database session open
    answer,     \* what it answered last
    during      \* history: row versions committed while the request ran

idpVars  == <<now, grants>>
dbVars   == <<row, lock>>
reqVars  == <<pc, kind, acct, seen, redeem, got, expiresAt, session, answer>>
vars     == <<idpVars, dbVars, reqVars, during>>

-----------------------------------------------------------------------------
Waiting == {"read", "check", "config", "post", "answered", "select", "flush",
            "commit"}
Codes   == {"ok", "noConsent", "noRefresh", "badRequest", "badGateway", "error"}
Token   == Grant \cup {NoToken}

GrantInfo == [owner: Account, issued: Nat, life: Life, refresh: Token]
Row       == [access: Grant, refresh: Token, expires: Nat]
Answer    == [code: Codes \cup {"none"}, token: Token]

NoAnswer == [code |-> "none", token |-> NoToken]

TypeOK ==
    /\ now \in Nat
    /\ grants \in [Grant -> GrantInfo \cup {NoToken}]
    /\ row \in [Account -> Row \cup {NoRow}]
    /\ lock \in [Account -> Request \cup {Nobody}]
    /\ pc \in [Request -> Waiting \cup {"idle", "replied"}]
    /\ kind \in [Request -> {"fetch", "callback"}]
    /\ acct \in [Request -> Account]
    /\ seen \in [Request -> Row \cup {NoRow}]
    /\ redeem \in [Request -> Token]
    /\ got \in [Request -> Token]
    /\ expiresAt \in [Request -> Nat]
    /\ session \in [Request -> BOOLEAN]
    /\ answer \in [Request -> Answer]
    /\ during \in [Request -> SUBSET (Row \cup {NoRow})]

\* The service starts on a table that other processes have not filled yet.
Init ==
    /\ now = 0
    /\ grants = [g \in Grant |-> NoToken]
    /\ row = [a \in Account |-> NoRow]
    /\ lock = [a \in Account |-> Nobody]
    /\ pc = [r \in Request |-> "idle"]
    /\ kind = [r \in Request |-> "fetch"]
    /\ acct \in [Request -> Account]
    /\ seen = [r \in Request |-> NoRow]
    /\ redeem = [r \in Request |-> NoToken]
    /\ got = [r \in Request |-> NoToken]
    /\ expiresAt = [r \in Request |-> 0]
    /\ session = [r \in Request |-> FALSE]
    /\ answer = [r \in Request |-> NoAnswer]
    /\ during = [r \in Request |-> {}]

-----------------------------------------------------------------------------
\* When Microsoft itself stops accepting the access token of grant g.
Expiry(g) == grants[g].issued + grants[g].life

\* The refresh token of the response a handler holds.
NewRefresh(r) == grants[got[r]].refresh

Goto(r, label) == pc' = [pc EXCEPT ![r] = label]

\* Leaving an `async with db.session(...)` block closes the session; entering
\* the next one opens a session of its own.
Session(r, open) == session' = [session EXCEPT ![r] = open]

\* The handler returns or raises: it holds nothing any more.
Respond(r, code, token) ==
    /\ Goto(r, "replied")
    /\ Session(r, FALSE)
    /\ answer' = [answer EXCEPT ![r] = [code |-> code, token |-> token]]
    /\ seen' = [seen EXCEPT ![r] = NoRow]
    /\ redeem' = [redeem EXCEPT ![r] = NoToken]
    /\ got' = [got EXCEPT ![r] = NoToken]
    /\ expiresAt' = [expiresAt EXCEPT ![r] = 0]
    /\ kind' = [kind EXCEPT ![r] = "fetch"]
    /\ UNCHANGED acct

Reply(r, code, token) ==
    /\ Respond(r, code, token)
    /\ during' = [during EXCEPT ![r] = {}]

Available(r) == pc[r] \in {"idle", "replied"}

Accept(r, k, a, label) ==
    /\ Available(r)
    /\ Goto(r, label)
    /\ Session(r, TRUE)
    /\ kind' = [kind EXCEPT ![r] = k]
    /\ acct' = [acct EXCEPT ![r] = a]
    /\ answer' = [answer EXCEPT ![r] = NoAnswer]
    /\ during' = [during EXCEPT ![r] = {row[a]}]
    /\ UNCHANGED <<idpVars, dbVars, seen, redeem, got, expiresAt>>

-----------------------------------------------------------------------------
(* Entry of the two endpoints.                                             *)

\* A request the code turns away before its first await: an unknown app or
\* company in a fetch ends in the generic 500, a callback with an error,
\* a malformed state, no code or an unknown app in a 400 page, with an
\* unknown company in a 500 page.
Reject(r) ==
    /\ Available(r)
    /\ \E code \in {"badRequest", "error"} : Reply(r, code, NoToken)
    /\ UNCHANGED <<idpVars, dbVars>>

StartFetch(r, a) == Accept(r, "fetch", a, "read")

StartCallback(r, a) == Accept(r, "callback", a, "config")

-----------------------------------------------------------------------------
(* Reading the row and deciding what to do with it.                        *)

\* _get_auth_user_token: SELECT, then the session is closed.
ReadRow(r) ==
    /\ pc[r] = "read"
    /\ seen' = [seen EXCEPT ![r] = row[acct[r]]]
    /\ Goto(r, "check")
    /\ Session(r, FALSE)
    /\ UNCHANGED <<idpVars, dbVars, kind, acct, redeem, got, expiresAt, answer,
                   during>>

\* Faulty variant: the expiry check without the buffer.
FreshNoBuffer(w) == now < w.expires

Fresh(w) == now + Buffer < w.expires

\* The decision runs on the row as it was read, after the session is closed.
CheckToken(r) ==
    /\ pc[r] = "check"
    /\ UNCHANGED <<idpVars, dbVars>>
    /\ \/ /\ seen[r] = NoRow
          /\ Reply(r, "noConsent", NoToken)
       \/ /\ seen[r] # NoRow
          /\ Fresh(seen[r])
          /\ Reply(r, "ok", seen[r].access)
       \/ /\ seen[r] # NoRow
          /\ ~Fresh(seen[r])
          /\ seen[r].refresh = NoToken
          /\ Reply(r, "noRefresh", NoToken)
       \/ /\ seen[r] # NoRow
          /\ ~Fresh(seen[r])
          /\ seen[r].refresh # NoToken
          /\ redeem' = [redeem EXCEPT ![r] = seen[r].refresh]
          /\ seen' = [seen EXCEPT ![r] = NoRow]
          /\ Goto(r, "config")
          /\ Session(r, TRUE)
          /\ UNCHANGED <<kind, acct, got, expiresAt, answer, during>>

-----------------------------------------------------------------------------
(* The token exchange, _exchange_token and _refresh_token.                 *)

\* Faulty variant: the exchange runs inside the session block.
ReadConfigInSession(r) ==
    /\ pc[r] = "config"
    /\ Goto(r, "post")
    /\ UNCHANGED <<idpVars, dbVars, kind, acct, seen, redeem, got, expiresAt,
                   session, answer, during>>

\* _fetch_graph_infos: the rows of the Graph configuration are maintained
\* elsewhere, so they may be complete or not at every read.
ReadConfig(r) ==
    /\ pc[r] = "config"
    /\ UNCHANGED <<idpVars, dbVars>>
    /\ \/ /\ Goto(r, "post")
          /\ Session(r, FALSE)
          /\ UNCHANGED <<kind, acct, seen, redeem, got, expiresAt, answer, during>>
       \/ Reply(r, "error", NoToken)

\* Microsoft grants a token.  An authorization code is answered with a new
\* refresh token or with none, a refresh token with a new one, the same one
\* or none: TokenData.refresh_token is optional.
IdpIssue(r) ==
    /\ pc[r] = "post"
    /\ \E g \in Grant, life \in Life :
        \E refresh \in {g, NoToken, redeem[r]} :
            /\ grants[g] = NoToken
            /\ grants' = [grants EXCEPT ![g] =
                            [owner |-> acct[r], issued |-> now,
                             life |-> life, refresh |-> refresh]]
            /\ got' = [got EXCEPT ![r] = g]
    /\ Goto(r, "answered")
    /\ UNCHANGED <<now, dbVars, kind, acct, seen, redeem, expiresAt, session,
                   answer, during>>

\* The exchange fails: Microsoft refuses (502), answers 200 with an empty
\* access token (400 page of a callback, 500 of a fetch) or with a body that
\* is no TokenData (500), or the client gives up (500), which may lose an
\* answer that is already on its way.
ExchangeFails(r) ==
    /\ \/ /\ pc[r] = "post"
          /\ \E code \in {"badGateway", "badRequest", "error"} :
                /\ code = "badRequest" => kind[r] = "callback"
                /\ Reply(r, code, NoToken)
       \/ /\ pc[r] = "answered"
          /\ Reply(r, "error", NoToken)
    /\ UNCHANGED <<idpVars, dbVars>>

\* The response arrives and expires_at is computed from the clock as it is
\* now, not as it was when Microsoft issued the token.
ReceiveToken(r) ==
    /\ pc[r] = "answered"
    /\ expiresAt' = [expiresAt EXCEPT ![r] = now + grants[got[r]].life]
    /\ Goto(r, "select")
    /\ Session(r, TRUE)
    /\ UNCHANGED <<idpVars, dbVars, kind, acct, seen, redeem, got, answer, during>>

-----------------------------------------------------------------------------
(* Storing the token, _save_auth_user_token and save_user_token.           *)

SaveSelect(r) ==
    /\ pc[r] = "select"
    /\ seen' = [seen EXCEPT ![r] = row[acct[r]]]
    /\ Goto(r, "flush")
    /\ UNCHANGED <<idpVars, dbVars, kind, acct, redeem, got, expiresAt, session,
                   answer, during>>

\* Faulty variant: no primary key on (app_name, user_id).
ConflictIgnored(r) == FALSE

\* An INSERT finds that a row was committed since the SELECT.
Conflict(r) == seen[r] = NoRow /\ row[acct[r]] # NoRow

\* flush() sends the INSERT or the UPDATE.  Either waits for a concurrent
\* writer of the row; the INSERT then fails on the primary key.
SaveFlush(r) ==
    /\ pc[r] = "flush"
    /\ lock[acct[r]] = Nobody
    /\ UNCHANGED <<idpVars, row>>
    /\ \/ /\ Conflict(r)
          /\ Reply(r, "error", NoToken)
          /\ UNCHANGED lock
       \/ /\ ~Conflict(r)
          /\ lock' = [lock EXCEPT ![acct[r]] = r]
          /\ Goto(r, "commit")
          /\ UNCHANGED <<kind, acct, seen, redeem, got, expiresAt, session,
                         answer, during>>

\* Faulty variant: the UPDATE forgets expires_at.
WrittenStaleExpiry(r) ==
    [access |-> got[r], refresh |-> NewRefresh(r),
     expires |-> IF seen[r] = NoRow THEN expiresAt[r] ELSE seen[r].expires]

\* Faulty variant: the token that was redeemed is stored, not the new one.
WrittenRedeemed(r) ==
    [access |-> redeem[r], refresh |-> NewRefresh(r), expires |-> expiresAt[r]]

\* What the transaction leaves in the table.  The UPDATE names the columns
\* whose value differs from the one the SELECT loaded: always access_token and
\* expires_at, refresh_token only when it was changed.
Written(r) ==
    IF seen[r] = NoRow
    THEN [access |-> got[r], refresh |-> NewRefresh(r),
          expires |-> expiresAt[r]]
    ELSE [access |-> got[r],
          refresh |-> IF NewRefresh(r) = seen[r].refresh
                      THEN row[acct[r]].refresh
                      ELSE NewRefresh(r),
          expires |-> expiresAt[r]]

\* Faulty variant: save_user_token is flushed and never committed.
SaveForgotten(r) ==
    /\ pc[r] = "commit"
    /\ lock' = [lock EXCEPT ![acct[r]] = Nobody]
    /\ Reply(r, "ok", got[r])
    /\ UNCHANGED <<idpVars, row>>

\* The commit is durable.  The handler answers the token it holds, unless the
\* acknowledgement is lost and session.commit() raises.
SaveCommit(r) ==
    /\ pc[r] = "commit"
    /\ row' = [row EXCEPT ![acct[r]] = Written(r)]
    /\ lock' = [lock EXCEPT ![acct[r]] = Nobody]
    /\ during' = [q \in Request |->
                    IF q = r THEN {}
                    ELSE IF pc[q] \in Waiting /\ acct[q] = acct[r]
                    THEN during[q] \cup {Written(r)}
                    ELSE during[q]]
    /\ \/ Respond(r, "ok", got[r])
       \/ Respond(r, "error", NoToken)
    /\ UNCHANGED idpVars

\* Faulty variant: the transaction of a failed save is left open.
DatabaseFailsNoRollback(r) ==
    /\ session[r]
    /\ Reply(r, "error", NoToken)
    /\ UNCHANGED <<idpVars, dbVars>>

\* A statement fails while a session is open: rollback, and the exception
\* becomes a 500.
DatabaseFails(r) ==
    /\ session[r]
    /\ lock' = [a \in Account |-> IF lock[a] = r THEN Nobody ELSE lock[a]]
    /\ Reply(r, "error", NoToken)
    /\ UNCHANGED <<idpVars, row>>

-----------------------------------------------------------------------------
(* The environment.                                                        *)

\* A response that Microsoft sent arrives within MaxDelay, or the client has
\* given up on it by then (ExchangeFails).
Tick ==
    /\ now < MaxTime
    /\ \A r \in Request :
         pc[r] = "answered" => now < grants[got[r]].issued + MaxDelay
    /\ now' = now + 1
    /\ UNCHANGED <<grants, dbVars, reqVars, during>>

\* The service process dies: its requests are gone and PostgreSQL rolls the
\* open transactions back.
Crash ==
    /\ \E r \in Request : pc[r] \in Waiting
    /\ pc' = [r \in Request |-> IF pc[r] \in Waiting THEN "idle" ELSE pc[r]]
    /\ lock' = [a \in Account |-> Nobody]
    /\ session' = [r \in Request |-> FALSE]
    /\ seen' = [r \in Request |-> NoRow]
    /\ redeem' = [r \in Request |-> NoToken]
    /\ got' = [r \in Request |-> NoToken]
    /\ expiresAt' = [r \in Request |-> 0]
    /\ kind' = [r \in Request |-> "fetch"]
    /\ during' = [r \in Request |-> {}]
    /\ UNCHANGED <<idpVars, row, acct, answer>>

Next ==
    \/ \E r \in Request :
        \/ Reject(r)
        \/ \E a \in Account : StartFetch(r, a) \/ StartCallback(r, a)
        \/ ReadRow(r)
        \/ CheckToken(r)
        \/ ReadConfig(r)
        \/ IdpIssue(r)
        \/ ExchangeFails(r)
        \/ ReceiveToken(r)
        \/ SaveSelect(r)
        \/ SaveFlush(r)
        \/ SaveCommit(r)
        \/ DatabaseFails(r)
    \/ Tick
    \/ Crash

Spec == Init /\ [][Next]_vars

\* The event loop runs every ready handler and the database answers; an
\* exchange ends because the client has timeouts (http_client.py:34-40), and
\* PostgreSQL grants a contended row lock in turn.  No request has to arrive,
\* no failure has to happen and nothing is assumed of Microsoft.
Exchange(r) == IdpIssue(r) \/ ExchangeFails(r)

Fairness ==
    \A r \in Request :
        /\ WF_vars(ReadRow(r))
        /\ WF_vars(CheckToken(r))
        /\ WF_vars(ReadConfig(r))
        /\ WF_vars(Exchange(r))
        /\ WF_vars(ReceiveToken(r))
        /\ WF_vars(SaveSelect(r))
        /\ SF_vars(SaveFlush(r))
        /\ WF_vars(SaveCommit(r))

FairSpec == Spec /\ Fairness

-----------------------------------------------------------------------------
(* Properties.                                                             *)

\* What a row says is backed by Microsoft: its access token was granted for
\* this very account, its refresh token too, and its expires_at is late by at
\* most the delay of the token response, however many handlers wrote the row
\* with column-wise updates (auth_repository.py:40-44).
Backed(a, w) ==
    /\ grants[w.access] # NoToken
    /\ grants[w.access].owner = a
    /\ w.expires <= Expiry(w.access) + MaxDelay
    /\ w.refresh # NoToken =>
         grants[w.refresh] # NoToken /\ grants[w.refresh].owner = a

RowBacked == \A a \in Account : row[a] # NoRow => Backed(a, row[a])

\* A token answered out of the table is one Microsoft still accepts at that
\* moment, although the row was read earlier, may have been replaced since and
\* its expires_at was computed late (delegated_auth_service.py:158, 279).
AnswersOnlyLiveTokens ==
    [][\A r \in Request :
         pc[r] = "check" /\ pc'[r] = "replied" /\ answer'[r].code = "ok"
           => now < Expiry(answer'[r].token)]_vars

\* Every answer agrees with a version of the row that was committed at some
\* moment between the arrival of the request and its answer.  A token answered
\* is durable and was not superseded before the request came, a consent page
\* reports success only for a stored token, "consent needed" means that there
\* was no row and "no refresh token" that there was a row without one
\* (delegated_auth_service.py:186, 270-309).
Versions(r) == during[r] \cup {row'[acct[r]]}

Justified(r, a) ==
    /\ a.code = "ok" =>
         \E w \in Versions(r) : w # NoRow /\ w.access = a.token
    /\ a.code = "noConsent" => NoRow \in Versions(r)
    /\ a.code = "noRefresh" =>
         \E w \in Versions(r) : w # NoRow /\ w.refresh = NoToken

AnswersMatchRow ==
    [][\A r \in Request :
         pc[r] \in Waiting /\ pc'[r] = "replied" => Justified(r, answer'[r])]_vars

\* Of handlers that all found no row, one inserts and the others fail: a
\* handler that replaces a row has seen a row (auth_repository.py:31-35).
InsertNeverReplaces ==
    [][\A r \in Request, a \in Account :
         pc[r] = "commit" /\ pc'[r] = "replied" /\ acct[r] = a
           /\ row'[a] # row[a] /\ row[a] # NoRow
         => seen[r] # NoRow]_vars

\* The store that DelegatedAuth implements although it takes no lock: a fetch
\* that answers from the table takes effect when it reads its row, a refresh
\* and a callback when they commit.
Stored(w) ==
    IF w = NoRow THEN NoRow ELSE [access |-> w.access, refresh |-> w.refresh]

Owner(g) == IF grants[g] = NoToken THEN NoToken ELSE grants[g].owner

Phase(r) ==
    CASE Available(r) -> "idle"
      [] pc[r] = "check" -> "looked"
      [] OTHER -> "asked"

View(r) == IF pc[r] = "check" THEN Stored(seen[r]) ELSE NoRow

Store == INSTANCE TokenStore WITH
    owner   <- [g \in Grant |-> Owner(g)],
    table   <- [a \in Account |-> Stored(row[a])],
    phase   <- [r \in Request |-> Phase(r)],
    account <- acct,
    view    <- [r \in Request |-> View(r)]

\* Every request answers from one committed version of its row or from the row
\* it has committed itself, and rows hold only what was granted to their
\* account, whatever happens in between (delegated_auth_service.py:270-309,
\* 150-193, auth_repository.py:21-45).
ImplementsTokenStore == Store!Spec

\* Two transactions never both hold an uncommitted version of one row, and a
\* row lock always has a live owner that is about to commit.
OneWriterPerRow ==
    /\ \A r \in Request : pc[r] = "commit" => lock[acct[r]] = r
    /\ \A a \in Account : lock[a] # Nobody =>
          pc[lock[a]] = "commit" /\ acct[lock[a]] = a

\* No database session is held while Microsoft is being waited for
\* (README.md:271, database.py:89-90).
NoSessionDuringExchange ==
    \A r \in Request : pc[r] \in {"post", "answered"} => ~session[r]

\* Every request accepted is answered, or dies with the process, whatever
\* Microsoft does and whoever competes for the row.
EveryRequestAnswered ==
    \A r \in Request : pc[r] \in Waiting ~> pc[r] \in {"replied", "idle"}

\* docs/delegated_trasfor_step4.md:156-161: when the answer to a refresh holds
\* no refresh token, the stored one is kept.
RefreshTokenKept ==
    [][\A r \in Request, a \in Account :
         kind[r] = "fetch" /\ pc[r] = "commit" /\ acct[r] = a
           /\ row[a] # NoRow /\ row'[a] # NoRow
           /\ row[a].refresh # NoToken
         => row'[a].refresh # NoToken]_vars

\* PROJECT.md:444: the answer to a refresh can always overwrite the refresh
\* token column, so a response that holds a refresh token leaves one behind.
RefreshTokenStored ==
    [][\A r \in Request :
         pc[r] = "commit" /\ row' # row /\ NewRefresh(r) # NoToken
         => row'[acct[r]].refresh # NoToken]_vars

=============================================================================
