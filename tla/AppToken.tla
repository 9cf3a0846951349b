------------------------------ MODULE AppToken ------------------------------
(***************************************************************************)
(* The application (client credentials) token of the common API:           *)
(*   cmn/services/auth_service.py   AuthService.get_oauth_token            *)
(*   cmn/utils/token_manager.py     TokenManager                           *)
(*                                                                         *)
(* A token per key "company:app" is cached in the memory of the process.   *)
(* A request looks into the cache, takes the key's asyncio.Lock, looks     *)
(* again, reads the Graph configuration, asks Microsoft and caches the     *)
(* answer before it releases the lock.  The event loop is single threaded, *)
(* so what happens between two awaits is one step here.                    *)
(***************************************************************************)
EXTENDS Naturals, Sequences, FiniteSets

CONSTANTS
    Request,    \* request handlers; each serves many requests
    Key,        \* cache keys: lower-cased "company:app"
    Token,      \* access tokens Microsoft may issue during the behaviour
    Life,       \* lifetimes Microsoft may give a token
    DefaultLife, \* lifetime of a response without expires_in: 1800 s
    Buffer,     \* buffer_seconds of TokenRecord.is_valid
    MaxDelay,   \* longest way of a token response to its handler
    MaxTime,    \* bound on the clock
    Free,       \* holder of a lock nobody holds
    NoToken,    \* a token that was not issued, or no token
    NoRecord    \* a key without a record in the cache

ASSUME LifeAssumption == Life \subseteq Nat /\ DefaultLife \in Nat
ASSUME TimeAssumption == Buffer \in Nat /\ MaxDelay \in Nat /\ MaxTime \in Nat
\* The buffer (300 s) is longer than the client's timeout (20 s).
ASSUME DelayAssumption == MaxDelay <= Buffer
ASSUME NullAssumption ==
    /\ Free \notin Request
    /\ NoToken \notin
          Token \cup [key : Key, at : Nat, life : Life, stated : BOOLEAN]
    /\ NoRecord \notin [token : Token, expires : Nat]

VARIABLES
    now,        \* the clock
    issued,     \* Microsoft: what each token was issued for
    cache,      \* TokenManager._tokens
    holder,     \* TokenManager._locks: the request inside the lock of a key
    queue,      \* TokenManager._locks: the requests waiting for it, in order
    pc,         \* where a handler awaits
    want,       \* the key of its request
    exact,      \* FALSE if the company is not spelled as in COMPANY_CODES
    got,        \* the token of the response on its way to the handler
    reply       \* the response that the service sent last

idpVars == <<now, issued>>
tmVars  == <<cache, holder, queue>>
reqVars == <<pc, want, exact, got, reply>>
vars    == <<idpVars, tmVars, reqVars>>

-----------------------------------------------------------------------------
InLock  == {"config", "post", "answered"}
Waiting == InLock \cup {"arrived", "lock"}
Codes   == {"ok", "badRequest", "notFound", "error", "badGateway"}

Record  == [token : Token, expires : Nat]
\* stated: the response holds expires_in.
Info    == [key : Key, at : Nat, life : Life, stated : BOOLEAN]
Response == [code : Codes \cup {"none"}, token : Token \cup {NoToken}]

TypeOK ==
    /\ now \in Nat
    /\ issued \in [Token -> Info \cup {NoToken}]
    /\ cache \in [Key -> Record \cup {NoRecord}]
    /\ holder \in [Key -> Request \cup {Free}]
    /\ queue \in [Key -> Seq(Request)]
    /\ pc \in [Request -> Waiting \cup {"idle"}]
    /\ want \in [Request -> Key]
    /\ exact \in [Request -> BOOLEAN]
    /\ got \in [Request -> Token \cup {NoToken}]
    /\ reply \in Response

Init ==
    /\ now = 0
    /\ issued = [t \in Token |-> NoToken]
    /\ cache = [k \in Key |-> NoRecord]
    /\ holder = [k \in Key |-> Free]
    /\ queue = [k \in Key |-> <<>>]
    /\ pc = [r \in Request |-> "idle"]
    /\ want \in [Request -> Key]
    /\ exact = [r \in Request |-> TRUE]
    /\ got = [r \in Request |-> NoToken]
    /\ reply = [code |-> "none", token |-> NoToken]

-----------------------------------------------------------------------------
\* Faulty variant: is_valid ignores its buffer.
ValidNoBuffer(rec) == rec # NoRecord /\ now < rec.expires

\* TokenRecord.is_valid
Valid(rec) == rec # NoRecord /\ now + Buffer < rec.expires

\* When Microsoft stops accepting token t.
Expiry(t) == issued[t].at + issued[t].life

\* int(token_data.get("expires_in", 1800)): the lifetime the response states,
\* or a guess.
Trusted(t) == IF issued[t].stated THEN issued[t].life ELSE DefaultLife

\* The handler returns or raises: it holds nothing any more.
Reply(r, code, token) ==
    /\ pc' = [pc EXCEPT ![r] = "idle"]
    /\ exact' = [exact EXCEPT ![r] = TRUE]
    /\ got' = [got EXCEPT ![r] = NoToken]
    /\ reply' = [code |-> code, token |-> token]

Goto(r, label) ==
    /\ pc' = [pc EXCEPT ![r] = label]
    /\ UNCHANGED <<exact, got, reply>>

\* Leaving `async with get_lock(key)`, normally or with an exception.
Release(r) == holder' = [holder EXCEPT ![want[r]] = Free]

\* Faulty variant: no second look into the cache inside the lock.
EnterLockNoRecheck(r, k) ==
    \/ /\ exact[r]
       /\ Goto(r, "config")
       /\ holder' = [holder EXCEPT ![k] = r]
    \/ /\ ~exact[r]
       /\ Reply(r, "error", NoToken)
       /\ UNCHANGED holder

\* What a request does once it is inside the lock of its key, up to its next
\* await: it looks into the cache again, and opens a database session, which
\* raises when the company is not one of COMPANY_CODES.
EnterLock(r, k) ==
    \/ /\ Valid(cache[k])
       /\ Reply(r, "ok", cache[k].token)
       /\ UNCHANGED holder
    \/ /\ ~Valid(cache[k])
       /\ exact[r]
       /\ Goto(r, "config")
       /\ holder' = [holder EXCEPT ![k] = r]
    \/ /\ ~Valid(cache[k])
       /\ ~exact[r]
       /\ Reply(r, "error", NoToken)
       /\ UNCHANGED holder

\* A request comes in: the key is lower-cased, the company code is not.
Arrive(r, k, known) ==
    /\ pc[r] = "idle"
    /\ pc' = [pc EXCEPT ![r] = "arrived"]
    /\ want' = [want EXCEPT ![r] = k]
    /\ exact' = [exact EXCEPT ![r] = known]
    /\ UNCHANGED <<idpVars, tmVars, got, reply>>

\* A blank company code or app name is answered 400.
RejectBlank(r) ==
    /\ pc[r] = "idle"
    /\ Reply(r, "badRequest", NoToken)
    /\ UNCHANGED <<idpVars, tmVars, want>>

\* Faulty variant: the lock does not respect its waiters.
UncontendedUnfair(k) == holder[k] = Free

\* Faulty variant: get_lock makes a new lock for every request.
UncontendedNewLock(k) == TRUE

\* asyncio.Lock.acquire() takes a lock that is free and that nobody waits for
\* without suspending.
Uncontended(k) == holder[k] = Free /\ queue[k] = <<>>

\* _handle_token up to its first await.
LookUp(r) ==
    LET k == want[r] IN
    /\ pc[r] = "arrived"
    /\ UNCHANGED <<idpVars, cache, want>>
    /\ \/ /\ Valid(cache[k])
          /\ Reply(r, "ok", cache[k].token)
          /\ UNCHANGED <<holder, queue>>
       \/ /\ ~Valid(cache[k])
          /\ Uncontended(k)
          /\ EnterLock(r, k)
          /\ UNCHANGED queue
       \/ /\ ~Valid(cache[k])
          /\ ~Uncontended(k)
          /\ Goto(r, "lock")
          /\ queue' = [queue EXCEPT ![k] = Append(@, r)]
          /\ UNCHANGED holder

\* Faulty variant: a waiter that resumes stays in the queue.
WakeNotRemoved(r) ==
    LET k == want[r] IN
    /\ pc[r] = "lock"
    /\ holder[k] = Free
    /\ queue[k] # <<>>
    /\ r = Head(queue[k])
    /\ EnterLock(r, k)
    /\ UNCHANGED <<idpVars, cache, queue, want>>

\* The first waiter of a released lock resumes.  A release only schedules it:
\* other requests may arrive in between, and queue up behind it.
Wake(r) ==
    LET k == want[r] IN
    /\ pc[r] = "lock"
    /\ holder[k] = Free
    /\ queue[k] # <<>>
    /\ r = Head(queue[k])
    /\ queue' = [queue EXCEPT ![k] = Tail(@)]
    /\ EnterLock(r, k)
    /\ UNCHANGED <<idpVars, cache, want>>

\* The Graph configuration of (company, app), maintained elsewhere, may be
\* complete, absent (404) or incomplete (500), or the database may fail (500).
ReadConfig(r) ==
    /\ pc[r] = "config"
    /\ UNCHANGED <<idpVars, cache, queue, want>>
    /\ \/ /\ Goto(r, "post")
          /\ UNCHANGED holder
       \/ /\ \E code \in {"notFound", "error"} : Reply(r, code, NoToken)
          /\ Release(r)

\* Microsoft issues a token for the application, and may leave its lifetime
\* unsaid.
IdpIssue(r) ==
    /\ pc[r] = "post"
    /\ \E t \in Token, life \in Life, stated \in BOOLEAN :
        /\ issued[t] = NoToken
        /\ issued' = [issued EXCEPT ![t] =
               [key |-> want[r], at |-> now, life |-> life, stated |-> stated]]
        /\ got' = [got EXCEPT ![r] = t]
    /\ pc' = [pc EXCEPT ![r] = "answered"]
    /\ UNCHANGED <<now, tmVars, want, exact, reply>>

\* Faulty variant: the lock is not released when the exchange fails.
ExchangeFailsLocked(r) ==
    /\ pc[r] \in {"post", "answered"}
    /\ Reply(r, "error", NoToken)
    /\ UNCHANGED <<idpVars, tmVars, want>>

\* Faulty variant: an answer without an access token is cached.
ExchangeFailsCached(r) ==
    /\ pc[r] \in {"post", "answered"}
    /\ Reply(r, "error", NoToken)
    /\ Release(r)
    /\ cache' = [cache EXCEPT ![want[r]] = [token |-> NoToken, expires |-> now]]
    /\ UNCHANGED <<idpVars, queue, want>>

\* Microsoft refuses or its answer holds no token (502), the body or its
\* expires_in cannot be read or the client gives up (500).
ExchangeFails(r) ==
    /\ \/ /\ pc[r] = "post"
          /\ \E code \in {"badGateway", "error"} : Reply(r, code, NoToken)
       \/ /\ pc[r] = "answered"
          /\ Reply(r, "error", NoToken)
    /\ Release(r)
    /\ UNCHANGED <<idpVars, cache, queue, want>>

\* Faulty variant: the buffer is added to the expiry instead of kept back.
SaveTokenBufferAdded(r) ==
    /\ pc[r] = "answered"
    /\ cache' = [cache EXCEPT ![want[r]] =
                    [token |-> got[r],
                     expires |-> now + Trusted(got[r]) + Buffer]]
    /\ Release(r)
    /\ Reply(r, "ok", got[r])
    /\ UNCHANGED <<idpVars, queue, want>>

\* The response arrives: expiread_at is computed from the clock as it is now,
\* the token is cached, the lock released and the token answered.
SaveToken(r) ==
    /\ pc[r] = "answered"
    /\ cache' = [cache EXCEPT ![want[r]] =
                    [token |-> got[r], expires |-> now + Trusted(got[r])]]
    /\ Release(r)
    /\ Reply(r, "ok", got[r])
    /\ UNCHANGED <<idpVars, queue, want>>

\* A response arrives within MaxDelay or the client has given up on it.
Tick ==
    /\ now < MaxTime
    /\ \A r \in Request :
         pc[r] = "answered" => now < issued[got[r]].at + MaxDelay
    /\ now' = now + 1
    /\ UNCHANGED <<issued, tmVars, reqVars>>

\* The process restarts: cache, locks and requests are gone.
Restart ==
    /\ cache' = [k \in Key |-> NoRecord]
    /\ holder' = [k \in Key |-> Free]
    /\ queue' = [k \in Key |-> <<>>]
    /\ pc' = [r \in Request |-> "idle"]
    /\ got' = [r \in Request |-> NoToken]
    /\ exact' = [r \in Request |-> TRUE]
    /\ reply' = [code |-> "none", token |-> NoToken]
    /\ UNCHANGED <<idpVars, want>>

Exchange(r) == IdpIssue(r) \/ ExchangeFails(r)

Next ==
    \/ \E r \in Request :
        \/ \E k \in Key, known \in BOOLEAN : Arrive(r, k, known)
        \/ RejectBlank(r)
        \/ LookUp(r)
        \/ Wake(r)
        \/ ReadConfig(r)
        \/ IdpIssue(r)
        \/ ExchangeFails(r)
        \/ SaveToken(r)
    \/ Tick
    \/ Restart

Spec == Init /\ [][Next]_vars

\* The event loop runs every handler that is ready, the database answers and
\* the client has a timeout of 20 seconds.
Fairness ==
    \A r \in Request :
        /\ WF_vars(LookUp(r))
        /\ WF_vars(Wake(r))
        /\ WF_vars(ReadConfig(r))
        /\ WF_vars(Exchange(r))
        /\ WF_vars(SaveToken(r))

FairSpec == Spec /\ Fairness

-----------------------------------------------------------------------------
(* Properties.                                                             *)

\* At most one request per key is between the lock and its release, and the
\* lock knows it: at most one token per key is being issued at a time
\* (auth_service.py:62).
SingleFlight ==
    /\ \A r \in Request : pc[r] \in InLock => holder[want[r]] = r
    /\ \A k \in Key : holder[k] # Free =>
          pc[holder[k]] \in InLock /\ want[holder[k]] = k

\* No token is asked of Microsoft while a valid one is cached: the second look
\* into the cache catches what was saved while a request waited for the lock
\* (auth_service.py:63-66).
NoIssueWhileCached ==
    \A r \in Request : pc[r] \in InLock => ~Valid(cache[want[r]])

\* Requests wait for a lock in one queue, once, and only while they wait.
QueueMatchesWaiters ==
    \A k \in Key :
        /\ \A i, j \in 1..Len(queue[k]) :
              queue[k][i] = queue[k][j] => i = j
        /\ \A r \in Request :
              (\E i \in 1..Len(queue[k]) : queue[k][i] = r)
                <=> (pc[r] = "lock" /\ want[r] = k)

\* A cached token belongs to its key, and the cache believes in it for at most
\* MaxDelay longer than its response said, or than the default where it said
\* nothing (auth_service.py:114-116).
CacheBacked ==
    \A k \in Key : cache[k] # NoRecord =>
        /\ issued[cache[k].token] # NoToken
        /\ issued[cache[k].token].key = k
        /\ cache[k].expires <=
              issued[cache[k].token].at + Trusted(cache[k].token) + MaxDelay

\* The response on its way to a handler was issued to it, and not too long ago.
InFlight ==
    \A r \in Request : pc[r] = "answered" =>
        /\ got[r] # NoToken
        /\ issued[got[r]] # NoToken
        /\ issued[got[r]].key = want[r]
        /\ now <= issued[got[r]].at + MaxDelay

\* A token answered out of the cache was issued for the key that was asked for
\* and Microsoft still accepts it, unless its response stated no lifetime and
\* the default is longer than the real one (token_manager.py:16, 32-39).
AnswersOnlyLiveTokens ==
    [][\A r \in Request :
         pc[r] \in {"arrived", "lock"} /\ pc'[r] = "idle" /\ reply'.code = "ok"
           => /\ issued[reply'.token].key = want[r]
              /\ Trusted(reply'.token) <= issued[reply'.token].life
                    => now < Expiry(reply'.token)]_vars

\* Requests for one key are served in the order in which they came to wait:
\* no request that arrives later is inside the lock before an earlier waiter.
NoOvertaking ==
    [][\A k \in Key :
         holder'[k] # holder[k] /\ holder'[k] # Free /\ queue[k] # <<>>
           => holder'[k] = Head(queue[k])]_vars

\* Every request is answered or dies with the process, whichever of the
\* requests before it fail and however.
EveryRequestAnswered ==
    \A r \in Request : pc[r] \in Waiting ~> pc[r] = "idle"

\* The service implements TokenCache: the keys being filled are those whose
\* lock is held, and a fill may take the default for its lifetime.
Cache == INSTANCE TokenCache WITH filling <- {k \in Key : holder[k] # Free},
                                  Life <- Life \cup {DefaultLife}

ImplementsTokenCache == Cache!Spec

=============================================================================
