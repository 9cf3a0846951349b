--------------------------- MODULE AppTokenProofs ---------------------------
(***************************************************************************)
(* Proofs about AppToken for every set of requests, keys and tokens, every *)
(* set of lifetimes, every default and every Buffer and MaxDelay with      *)
(* MaxDelay <= Buffer.                                                     *)
(*                                                                         *)
(* The inductive invariant is TypeOK, SingleFlight, NoIssueWhileCached,    *)
(* CacheBacked, InFlight and QueueMatchesWaiters, proved one after the     *)
(* other.                                                                  *)
(***************************************************************************)
EXTENDS AppToken, TLAPS

USE DEF InLock, Waiting, idpVars, tmVars, reqVars

\* The lifetime the service believes in is a number of seconds.
LEMMA TrustedType ==
  ASSUME NEW t \in Token, issued[t] \in Info
  PROVE  Trusted(t) \in Nat /\ Trusted(t) \in Life \cup {DefaultLife}
<1>1. issued[t].life \in Life /\ issued[t].stated \in BOOLEAN
  BY DEF Info
<1> QED BY <1>1, LifeAssumption DEF Trusted

\* The variables keep their types.
LEMMA TypeInit == Init => TypeOK
  BY NullAssumption DEF Init, TypeOK, Response

\* A reply is made of a code and a token of the right sets.
LEMMA ReplyType ==
  ASSUME NEW r \in Request, NEW c \in Codes, NEW t \in Token \cup {NoToken},
         TypeOK, Reply(r, c, t)
  PROVE  /\ pc' \in [Request -> Waiting \cup {"idle"}]
         /\ exact' \in [Request -> BOOLEAN]
         /\ got' \in [Request -> Token \cup {NoToken}]
         /\ reply' \in Response
  BY DEF TypeOK, Reply, Response

\* So does entering the lock.
LEMMA EnterType ==
  ASSUME NEW r \in Request, NEW k \in Key, TypeOK, EnterLock(r, k)
  PROVE  /\ pc' \in [Request -> Waiting \cup {"idle"}]
         /\ exact' \in [Request -> BOOLEAN]
         /\ got' \in [Request -> Token \cup {NoToken}]
         /\ reply' \in Response
         /\ holder' \in [Key -> Request \cup {Free}]
<1>1. CASE Valid(cache[k])
  <2>1. Reply(r, "ok", cache[k].token) /\ UNCHANGED holder
    BY <1>1 DEF EnterLock
  <2>2. cache[k].token \in Token
    BY <1>1 DEF TypeOK, Valid, Record
  <2> QED BY <2>1, <2>2, ReplyType DEF Codes, TypeOK
<1>2. CASE ~Valid(cache[k]) /\ exact[r]
  <2>1. Goto(r, "config") /\ holder' = [holder EXCEPT ![k] = r]
    BY <1>2 DEF EnterLock
  <2> QED BY <2>1 DEF Goto, TypeOK
<1>3. CASE ~Valid(cache[k]) /\ ~exact[r]
  <2>1. Reply(r, "error", NoToken) /\ UNCHANGED holder
    BY <1>3 DEF EnterLock
  <2> QED BY <2>1, ReplyType DEF Codes, TypeOK
<1> QED BY <1>1, <1>2, <1>3

\* Every step keeps the types.
LEMMA TypeStep == TypeOK /\ InFlight /\ [Next]_vars => TypeOK'
<1> SUFFICES ASSUME TypeOK, InFlight, [Next]_vars PROVE TypeOK'
  OBVIOUS
<1>1. ASSUME NEW r \in Request, NEW k \in Key, NEW known \in BOOLEAN,
             Arrive(r, k, known)
      PROVE  TypeOK'
  BY <1>1 DEF Arrive, TypeOK
<1>2. ASSUME NEW r \in Request, RejectBlank(r) PROVE TypeOK'
  BY <1>2, ReplyType DEF RejectBlank, TypeOK, Codes
<1>3. ASSUME NEW r \in Request, LookUp(r) PROVE TypeOK'
  <2> DEFINE k == want[r]
  <2>0. k \in Key
    BY DEF TypeOK
  <2>u. UNCHANGED <<idpVars, cache, want>>
    BY <1>3 DEF LookUp
  <2>1. CASE Valid(cache[k])
    <3>1. Reply(r, "ok", cache[k].token) /\ UNCHANGED <<holder, queue>>
      BY <1>3, <2>1 DEF LookUp
    <3>2. cache[k].token \in Token
      BY <2>0, <2>1 DEF TypeOK, Valid, Record
    <3> QED BY <2>u, <3>1, <3>2, ReplyType DEF TypeOK, Codes
  <2>2. CASE ~Valid(cache[k]) /\ Uncontended(k)
    <3>1. EnterLock(r, k) /\ UNCHANGED queue
      BY <1>3, <2>2 DEF LookUp
    <3> QED BY <2>0, <2>u, <3>1, EnterType DEF TypeOK
  <2>3. CASE ~Valid(cache[k]) /\ ~Uncontended(k)
    <3>1. /\ Goto(r, "lock")
          /\ queue' = [queue EXCEPT ![k] = Append(@, r)]
          /\ UNCHANGED holder
      BY <1>3, <2>3 DEF LookUp
    <3>2. queue' \in [Key -> Seq(Request)]
      BY <2>0, <3>1 DEF TypeOK
    <3> QED BY <2>u, <3>1, <3>2 DEF TypeOK, Goto
  <2> QED BY <2>1, <2>2, <2>3
<1>4. ASSUME NEW r \in Request, Wake(r) PROVE TypeOK'
  <2>0. want[r] \in Key
    BY DEF TypeOK
  <2>1. /\ queue[want[r]] # <<>>
        /\ queue' = [queue EXCEPT ![want[r]] = Tail(@)]
        /\ EnterLock(r, want[r])
        /\ UNCHANGED <<idpVars, cache, want>>
    BY <1>4 DEF Wake
  <2>2. queue' \in [Key -> Seq(Request)]
    BY <2>0, <2>1 DEF TypeOK
  <2> QED BY <2>0, <2>1, <2>2, EnterType DEF TypeOK
<1>5. ASSUME NEW r \in Request, ReadConfig(r) PROVE TypeOK'
  <2>1. CASE Goto(r, "post") /\ UNCHANGED holder
    BY <1>5, <2>1 DEF ReadConfig, Goto, TypeOK
  <2>2. ASSUME NEW c \in {"notFound", "error"}, Reply(r, c, NoToken), Release(r)
        PROVE  TypeOK'
    <3>1. c \in Codes
      BY <2>2 DEF Codes
    <3>2. /\ pc' \in [Request -> Waiting \cup {"idle"}]
          /\ exact' \in [Request -> BOOLEAN]
          /\ got' \in [Request -> Token \cup {NoToken}]
          /\ reply' \in Response
      BY <2>2, <3>1, ReplyType
    <3> QED BY <1>5, <2>2, <3>2 DEF ReadConfig, Release, TypeOK
  <2> QED BY <1>5, <2>1, <2>2 DEF ReadConfig
<1>6. ASSUME NEW r \in Request, IdpIssue(r) PROVE TypeOK'
  <2>1. PICK t \in Token, life \in Life, stated \in BOOLEAN :
           /\ issued' = [issued EXCEPT ![t] =
                  [key |-> want[r], at |-> now, life |-> life, stated |-> stated]]
           /\ got' = [got EXCEPT ![r] = t]
    BY <1>6 DEF IdpIssue
  <2>2. [key |-> want[r], at |-> now, life |-> life, stated |-> stated] \in Info
    BY DEF TypeOK, Info
  <2> QED BY <1>6, <2>1, <2>2 DEF IdpIssue, TypeOK
<1>7. ASSUME NEW r \in Request, ExchangeFails(r) PROVE TypeOK'
  <2>1. PICK c \in {"badGateway", "error"} : Reply(r, c, NoToken)
    BY <1>7 DEF ExchangeFails
  <2> QED BY <1>7, <2>1, ReplyType DEF ExchangeFails, Release, TypeOK, Codes
<1>8. ASSUME NEW r \in Request, SaveToken(r) PROVE TypeOK'
  <2>1. /\ pc[r] = "answered"
        /\ cache' = [cache EXCEPT ![want[r]] =
                       [token |-> got[r],
                        expires |-> now + Trusted(got[r])]]
        /\ Reply(r, "ok", got[r])
        /\ UNCHANGED <<idpVars, queue, want>>
    BY <1>8 DEF SaveToken
  <2>2. got[r] \in Token /\ issued[got[r]] \in Info
    BY <2>1 DEF TypeOK, InFlight
  <2>3. now + Trusted(got[r]) \in Nat
    <3>1. now \in Nat
      BY DEF TypeOK
    <3>2. Trusted(got[r]) \in Nat
      BY <2>2, TrustedType
    <3> QED BY <3>1, <3>2
  <2>4. cache' \in [Key -> Record \cup {NoRecord}]
    BY <2>1, <2>2, <2>3 DEF TypeOK, Record
  <2>5. holder' \in [Key -> Request \cup {Free}]
    BY <1>8 DEF SaveToken, Release, TypeOK
  <2>6. /\ pc' \in [Request -> Waiting \cup {"idle"}]
        /\ exact' \in [Request -> BOOLEAN]
        /\ got' \in [Request -> Token \cup {NoToken}]
        /\ reply' \in Response
    <3>1. "ok" \in Codes
      BY DEF Codes
    <3> QED BY <2>1, <2>2, <3>1, ReplyType
  <2>7. UNCHANGED <<idpVars, queue, want>>
    BY <2>1
  <2> QED BY <2>4, <2>5, <2>6, <2>7 DEF TypeOK
<1>9. CASE Tick
  BY <1>9 DEF Tick, TypeOK
<1>10. CASE Restart
  BY <1>10 DEF Restart, TypeOK, Response
<1>11. CASE UNCHANGED vars
  BY <1>11 DEF vars, TypeOK
<1> QED
  BY <1>1, <1>2, <1>3, <1>4, <1>5, <1>6, <1>7, <1>8, <1>9, <1>10, <1>11
  DEF Next

-----------------------------------------------------------------------------
\* A handler that is not moved to "answered" and keeps its key cannot break
\* InFlight as long as Microsoft's books and the clock stand still.
LEMMA InFlightKept ==
  ASSUME TypeOK, InFlight, UNCHANGED <<idpVars, want>>,
         \A r \in Request : pc'[r] = "answered" =>
            pc[r] = "answered" /\ got'[r] = got[r]
  PROVE  InFlight'
  BY DEF InFlight

\* The handler that replies is not in flight any more; the others stay.
LEMMA ReplyInFlight ==
  ASSUME TypeOK, InFlight, UNCHANGED <<idpVars, want>>,
         NEW r \in Request, NEW c, NEW t, Reply(r, c, t)
  PROVE  InFlight'
<1>1. \A q \in Request : pc'[q] = "answered" =>
         pc[q] = "answered" /\ got'[q] = got[q]
  BY DEF Reply, TypeOK
<1> QED BY <1>1, InFlightKept

\* A handler that goes to another await is not in flight there.
LEMMA GotoInFlight ==
  ASSUME TypeOK, InFlight, UNCHANGED <<idpVars, want>>,
         NEW r \in Request, NEW label \in {"config", "post", "lock"},
         Goto(r, label)
  PROVE  InFlight'
<1>1. \A q \in Request : pc'[q] = "answered" =>
         pc[q] = "answered" /\ got'[q] = got[q]
  BY DEF Goto, TypeOK
<1> QED BY <1>1, InFlightKept

\* The handler that enters a lock is not in flight there; the others stay.
LEMMA EnterInFlight ==
  ASSUME TypeOK, InFlight, UNCHANGED <<idpVars, want>>,
         NEW r \in Request, NEW k \in Key, EnterLock(r, k)
  PROVE  InFlight'
<1>1. \/ \E c, t : Reply(r, c, t)
      \/ Goto(r, "config")
  BY DEF EnterLock
<1> QED BY <1>1, ReplyInFlight, GotoInFlight

\* Every step keeps the responses in flight as they are described.
LEMMA InFlightStep == TypeOK /\ InFlight /\ [Next]_vars => InFlight'
<1> SUFFICES ASSUME TypeOK, InFlight, [Next]_vars PROVE InFlight'
  OBVIOUS
<1>1. ASSUME NEW r \in Request, NEW k \in Key, NEW known \in BOOLEAN,
             Arrive(r, k, known)
      PROVE  InFlight'
  BY <1>1 DEF Arrive, TypeOK, InFlight
<1>2. ASSUME NEW r \in Request, RejectBlank(r) PROVE InFlight'
  BY <1>2, ReplyInFlight DEF RejectBlank
<1>3. ASSUME NEW r \in Request, LookUp(r) PROVE InFlight'
  <2>1. want[r] \in Key
    BY DEF TypeOK
  <2>2. UNCHANGED <<idpVars, want>>
    BY <1>3 DEF LookUp
  <2>3. \/ \E c, t : Reply(r, c, t)
        \/ EnterLock(r, want[r])
        \/ Goto(r, "lock")
    BY <1>3 DEF LookUp
  <2> QED BY <2>1, <2>2, <2>3, ReplyInFlight, GotoInFlight, EnterInFlight
<1>4. ASSUME NEW r \in Request, Wake(r) PROVE InFlight'
  <2>1. want[r] \in Key
    BY DEF TypeOK
  <2> QED BY <1>4, <2>1, EnterInFlight DEF Wake
<1>5. ASSUME NEW r \in Request, ReadConfig(r) PROVE InFlight'
  <2>1. \/ \E c, t : Reply(r, c, t)
        \/ Goto(r, "post")
    BY <1>5 DEF ReadConfig
  <2>2. UNCHANGED <<idpVars, want>>
    BY <1>5 DEF ReadConfig
  <2> QED BY <2>1, <2>2, ReplyInFlight, GotoInFlight
<1>6. ASSUME NEW r \in Request, IdpIssue(r) PROVE InFlight'
  <2>1. PICK t \in Token, life \in Life, stated \in BOOLEAN :
           /\ issued[t] = NoToken
           /\ issued' = [issued EXCEPT ![t] =
                  [key |-> want[r], at |-> now, life |-> life, stated |-> stated]]
           /\ got' = [got EXCEPT ![r] = t]
    BY <1>6 DEF IdpIssue
  <2>2. pc' = [pc EXCEPT ![r] = "answered"] /\ UNCHANGED <<now, want>>
    BY <1>6 DEF IdpIssue
  <2> DEFINE i == [key |-> want[r], at |-> now, life |-> life, stated |-> stated]
  <2>3. i # NoToken /\ i.key = want[r] /\ i.at = now
    BY NullAssumption, LifeAssumption DEF TypeOK
  <2> SUFFICES ASSUME NEW q \in Request, pc'[q] = "answered"
               PROVE  /\ got'[q] # NoToken
                      /\ issued'[got'[q]] # NoToken
                      /\ issued'[got'[q]].key = want[q]
                      /\ now <= issued'[got'[q]].at + MaxDelay
    BY <2>2 DEF InFlight
  <2>4. CASE q = r
    <3>1. got'[q] = t /\ issued'[t] = i
      BY <2>1, <2>4 DEF TypeOK
    <3>2. now <= now + MaxDelay
      BY TimeAssumption DEF TypeOK
    <3> HIDE DEF i
    <3> QED BY <2>3, <2>4, <3>1, <3>2, NullAssumption
  <2>5. CASE q # r
    <3>1. pc[q] = "answered" /\ got'[q] = got[q]
      BY <2>1, <2>2, <2>5 DEF TypeOK
    <3>2. got[q] # t
      BY <2>1, <3>1 DEF InFlight
    <3>3. issued'[got[q]] = issued[got[q]]
      BY <2>1, <3>1, <3>2 DEF TypeOK, InFlight
    <3> QED BY <3>1, <3>3 DEF InFlight
  <2> QED BY <2>4, <2>5
<1>7. ASSUME NEW r \in Request, ExchangeFails(r) PROVE InFlight'
  BY <1>7, ReplyInFlight DEF ExchangeFails
<1>8. ASSUME NEW r \in Request, SaveToken(r) PROVE InFlight'
  BY <1>8, ReplyInFlight DEF SaveToken
<1>9. CASE Tick
  <2> SUFFICES ASSUME NEW q \in Request, pc[q] = "answered"
               PROVE  now + 1 <= issued[got[q]].at + MaxDelay
    BY <1>9 DEF Tick, InFlight
  <2>1. issued[got[q]] \in Info
    BY DEF TypeOK, InFlight
  <2> QED BY <1>9, <2>1, TimeAssumption DEF Tick, TypeOK, Info
<1>10. CASE Restart
  BY <1>10 DEF Restart, InFlight
<1>11. CASE UNCHANGED vars
  BY <1>11 DEF vars, InFlight
<1> QED
  BY <1>1, <1>2, <1>3, <1>4, <1>5, <1>6, <1>7, <1>8, <1>9, <1>10, <1>11
  DEF Next

\* The variables keep their types in every behaviour, and every response on
\* its way was issued for the key of the request that waits for it.
THEOREM TypeCorrect == Spec => [](TypeOK /\ InFlight)
<1>1. Init => TypeOK /\ InFlight
  BY TypeInit DEF Init, InFlight
<1>2. TypeOK /\ InFlight /\ [Next]_vars => TypeOK' /\ InFlight'
  BY TypeStep, InFlightStep
<1> QED BY <1>1, <1>2, PTL DEF Spec

-----------------------------------------------------------------------------
(* Mutual exclusion: SingleFlight is inductive together with the types.    *)

\* A handler outside the locks may reply or go to an await outside them.
LEMMA OutsideSingle ==
  ASSUME TypeOK, SingleFlight, NEW r \in Request, pc[r] \notin InLock,
         UNCHANGED <<holder, want>>,
         NEW label \in {"idle", "lock"}, pc' = [pc EXCEPT ![r] = label]
  PROVE  SingleFlight'
<1>1. pc'[r] \notin InLock /\ \A q \in Request \ {r} : pc'[q] = pc[q]
  BY DEF TypeOK
<1>2. \A k \in Key : holder[k] # r
  BY NullAssumption DEF SingleFlight
<1>3. ASSUME NEW q \in Request, pc'[q] \in InLock PROVE holder'[want'[q]] = q
  BY <1>1, <1>3 DEF SingleFlight
<1>4. ASSUME NEW k \in Key, holder'[k] # Free
      PROVE  pc'[holder'[k]] \in InLock /\ want'[holder'[k]] = k
  <2>1. holder[k] \in Request \ {r}
    BY <1>2, <1>4 DEF TypeOK
  <2> QED BY <1>1, <1>4, <2>1 DEF SingleFlight
<1> QED BY <1>3, <1>4 DEF SingleFlight

\* A handler inside a lock may go to another await inside it.
LEMMA InsideSingle ==
  ASSUME TypeOK, SingleFlight, NEW r \in Request, pc[r] \in InLock,
         UNCHANGED <<holder, want>>,
         NEW label \in InLock, pc' = [pc EXCEPT ![r] = label]
  PROVE  SingleFlight'
<1>1. \A q \in Request : pc'[q] \in InLock <=> pc[q] \in InLock
  BY DEF TypeOK
<1>2. \A k \in Key : holder[k] # Free => holder[k] \in Request
  BY DEF TypeOK
<1> QED BY <1>1, <1>2 DEF SingleFlight

\* Taking a free lock.
LEMMA EnterSingle ==
  ASSUME TypeOK, SingleFlight, NEW r \in Request, pc[r] \notin InLock,
         UNCHANGED want, holder[want[r]] = Free, EnterLock(r, want[r])
  PROVE  SingleFlight'
<1>0. want[r] \in Key
  BY DEF TypeOK
<1>1. CASE pc' = [pc EXCEPT ![r] = "idle"] /\ UNCHANGED holder
  BY <1>1, OutsideSingle
<1>2. CASE /\ pc' = [pc EXCEPT ![r] = "config"]
           /\ holder' = [holder EXCEPT ![want[r]] = r]
  <2>1. /\ pc'[r] \in InLock /\ \A q \in Request \ {r} : pc'[q] = pc[q]
        /\ holder'[want[r]] = r
        /\ \A k \in Key \ {want[r]} : holder'[k] = holder[k]
    BY <1>0, <1>2 DEF TypeOK
  <2>2. \A k \in Key : holder[k] # r
    BY NullAssumption DEF SingleFlight
  <2>3. ASSUME NEW q \in Request, pc'[q] \in InLock PROVE holder'[want'[q]] = q
    <3>1. CASE q = r
      BY <2>1, <3>1
    <3>2. CASE q # r
      <4>1. holder[want[q]] = q /\ want[q] \in Key
        BY <2>1, <2>3, <3>2 DEF SingleFlight, TypeOK
      <4>2. want[q] # want[r]
        BY <4>1, NullAssumption
      <4> QED BY <2>1, <4>1, <4>2
    <3> QED BY <3>1, <3>2
  <2>4. ASSUME NEW k \in Key, holder'[k] # Free
        PROVE  pc'[holder'[k]] \in InLock /\ want'[holder'[k]] = k
    <3>1. CASE k = want[r]
      BY <2>1, <3>1
    <3>2. CASE k # want[r]
      <4>1. holder'[k] = holder[k] /\ holder[k] \in Request \ {r}
        BY <2>1, <2>2, <2>4, <3>2 DEF TypeOK
      <4> QED BY <2>1, <2>4, <4>1 DEF SingleFlight
    <3> QED BY <3>1, <3>2
  <2> QED BY <2>3, <2>4 DEF SingleFlight
<1> QED BY <1>1, <1>2 DEF EnterLock, Reply, Goto

\* Replying from inside a lock, with its release.
LEMMA ReleaseSingle ==
  ASSUME TypeOK, SingleFlight, NEW r \in Request, pc[r] \in InLock,
         UNCHANGED want, Release(r), pc' = [pc EXCEPT ![r] = "idle"]
  PROVE  SingleFlight'
<1>0. want[r] \in Key /\ holder[want[r]] = r
  BY DEF TypeOK, SingleFlight
<1>1. /\ pc'[r] = "idle" /\ \A q \in Request \ {r} : pc'[q] = pc[q]
      /\ holder'[want[r]] = Free
      /\ \A k \in Key \ {want[r]} : holder'[k] = holder[k]
  BY <1>0 DEF Release, TypeOK
<1>2. ASSUME NEW q \in Request, pc'[q] \in InLock PROVE holder'[want'[q]] = q
  <2>1. q # r /\ holder[want[q]] = q /\ want[q] \in Key
    BY <1>1, <1>2 DEF SingleFlight, TypeOK
  <2> QED BY <1>0, <1>1, <2>1
<1>3. ASSUME NEW k \in Key, holder'[k] # Free
      PROVE  pc'[holder'[k]] \in InLock /\ want'[holder'[k]] = k
  <2>1. k # want[r] /\ holder'[k] = holder[k] /\ holder[k] \in Request
    BY <1>1, <1>3 DEF TypeOK
  <2>2. pc[holder[k]] \in InLock /\ want[holder[k]] = k
    BY <1>3, <2>1 DEF SingleFlight
  <2>3. holder[k] # r
    BY <2>1, <2>2
  <2> QED BY <1>1, <2>1, <2>2, <2>3
<1> QED BY <1>2, <1>3 DEF SingleFlight

\* Every step keeps the locks exclusive.
LEMMA SingleFlightStep ==
  TypeOK /\ SingleFlight /\ [Next]_vars => SingleFlight'
<1> SUFFICES ASSUME TypeOK, SingleFlight, [Next]_vars PROVE SingleFlight'
  OBVIOUS
<1>1. ASSUME NEW r \in Request, NEW k \in Key, NEW known \in BOOLEAN,
             Arrive(r, k, known)
      PROVE  SingleFlight'
  <2>1. /\ pc[r] \notin InLock /\ pc'[r] \notin InLock /\ UNCHANGED holder
        /\ \A q \in Request \ {r} : pc'[q] = pc[q] /\ want'[q] = want[q]
    BY <1>1 DEF Arrive, TypeOK
  <2>2. \A j \in Key : holder[j] # Free => holder[j] \in Request \ {r}
    BY <2>1 DEF SingleFlight, TypeOK
  <2>3. ASSUME NEW q \in Request, pc'[q] \in InLock PROVE holder'[want'[q]] = q
    BY <2>1, <2>3 DEF SingleFlight
  <2>4. ASSUME NEW j \in Key, holder'[j] # Free
        PROVE  pc'[holder'[j]] \in InLock /\ want'[holder'[j]] = j
    BY <2>1, <2>2, <2>4 DEF SingleFlight
  <2> QED BY <2>3, <2>4 DEF SingleFlight
<1>2. ASSUME NEW r \in Request, RejectBlank(r) PROVE SingleFlight'
  BY <1>2, OutsideSingle DEF RejectBlank, Reply
<1>3. ASSUME NEW r \in Request, LookUp(r) PROVE SingleFlight'
  <2>1. pc[r] \notin InLock /\ UNCHANGED want
    BY <1>3 DEF LookUp
  <2>2. \/ pc' = [pc EXCEPT ![r] = "idle"] /\ UNCHANGED holder
        \/ pc' = [pc EXCEPT ![r] = "lock"] /\ UNCHANGED holder
        \/ holder[want[r]] = Free /\ EnterLock(r, want[r])
    BY <1>3 DEF LookUp, Reply, Goto, Uncontended
  <2> QED BY <2>1, <2>2, OutsideSingle, EnterSingle
<1>4. ASSUME NEW r \in Request, Wake(r) PROVE SingleFlight'
  BY <1>4, EnterSingle DEF Wake
<1>5. ASSUME NEW r \in Request, ReadConfig(r) PROVE SingleFlight'
  BY <1>5, InsideSingle, ReleaseSingle DEF ReadConfig, Goto, Reply
<1>6. ASSUME NEW r \in Request, IdpIssue(r) PROVE SingleFlight'
  BY <1>6, InsideSingle DEF IdpIssue
<1>7. ASSUME NEW r \in Request, ExchangeFails(r) PROVE SingleFlight'
  BY <1>7, ReleaseSingle DEF ExchangeFails, Reply
<1>8. ASSUME NEW r \in Request, SaveToken(r) PROVE SingleFlight'
  BY <1>8, ReleaseSingle DEF SaveToken, Reply
<1>9. CASE Tick
  BY <1>9 DEF Tick, SingleFlight
<1>10. CASE Restart
  BY <1>10 DEF Restart, SingleFlight
<1>11. CASE UNCHANGED vars
  BY <1>11 DEF vars, SingleFlight
<1> QED
  BY <1>1, <1>2, <1>3, <1>4, <1>5, <1>6, <1>7, <1>8, <1>9, <1>10, <1>11
  DEF Next

\* At most one request per key is between the lock and its release, however
\* the requests interleave and fail (auth_service.py:62).
THEOREM MutualExclusion == Spec => []SingleFlight
<1>1. Init => SingleFlight
  BY DEF Init, SingleFlight
<1>2. TypeOK /\ SingleFlight /\ [Next]_vars => SingleFlight'
  BY SingleFlightStep
<1> QED BY <1>1, <1>2, TypeCorrect, PTL DEF Spec

-----------------------------------------------------------------------------
(* The second look into the cache.                                         *)

\* Inside a lock nothing changes what the holder found in the cache, as long
\* as only handlers enter that found no valid token themselves.
LEMMA IssueKept ==
  ASSUME TypeOK, NoIssueWhileCached, UNCHANGED <<now, cache>>,
         \A q \in Request : pc'[q] \in InLock =>
            /\ want'[q] = want[q]
            /\ pc[q] \in InLock \/ ~Valid(cache[want[q]])
  PROVE  NoIssueWhileCached'
  BY DEF NoIssueWhileCached, Valid

\* The lock holder that stores a token is out of the lock when it is stored,
\* and nobody else is in it.
LEMMA NoIssueStep ==
  TypeOK /\ SingleFlight /\ NoIssueWhileCached /\ [Next]_vars
    => NoIssueWhileCached'
<1> SUFFICES ASSUME TypeOK, SingleFlight, NoIssueWhileCached, [Next]_vars
             PROVE  NoIssueWhileCached'
  OBVIOUS
<1>1. ASSUME NEW r \in Request, NEW k \in Key, NEW known \in BOOLEAN,
             Arrive(r, k, known)
      PROVE  NoIssueWhileCached'
  <2>1. \A q \in Request : pc'[q] \in InLock => pc[q] \in InLock /\ q # r
    BY <1>1 DEF Arrive, TypeOK
  <2> QED BY <1>1, <2>1, IssueKept DEF Arrive, TypeOK
<1>2. ASSUME NEW r \in Request, RejectBlank(r) PROVE NoIssueWhileCached'
  BY <1>2, IssueKept DEF RejectBlank, Reply, TypeOK
<1>3. ASSUME NEW r \in Request, LookUp(r) PROVE NoIssueWhileCached'
  <2>1. UNCHANGED <<now, cache, want>>
    BY <1>3 DEF LookUp
  <2>2. \/ pc' = [pc EXCEPT ![r] = "idle"]
        \/ pc' = [pc EXCEPT ![r] = "lock"]
        \/ pc' = [pc EXCEPT ![r] = "config"] /\ ~Valid(cache[want[r]])
    BY <1>3 DEF LookUp, EnterLock, Reply, Goto
  <2>3. \A q \in Request : pc'[q] \in InLock =>
           pc[q] \in InLock \/ ~Valid(cache[want[q]])
    BY <2>2 DEF TypeOK
  <2> QED BY <2>1, <2>3, IssueKept
<1>4. ASSUME NEW r \in Request, Wake(r) PROVE NoIssueWhileCached'
  <2>1. UNCHANGED <<now, cache, want>>
    BY <1>4 DEF Wake
  <2>2. \/ pc' = [pc EXCEPT ![r] = "idle"]
        \/ pc' = [pc EXCEPT ![r] = "config"] /\ ~Valid(cache[want[r]])
    BY <1>4 DEF Wake, EnterLock, Reply, Goto
  <2>3. \A q \in Request : pc'[q] \in InLock =>
           pc[q] \in InLock \/ ~Valid(cache[want[q]])
    BY <2>2 DEF TypeOK
  <2> QED BY <2>1, <2>3, IssueKept
<1>5. ASSUME NEW r \in Request, ReadConfig(r) PROVE NoIssueWhileCached'
  <2>1. UNCHANGED <<now, cache, want>> /\ pc[r] \in InLock
    BY <1>5 DEF ReadConfig
  <2>2. \E label : pc' = [pc EXCEPT ![r] = label]
    BY <1>5 DEF ReadConfig, Reply, Goto
  <2>3. \A q \in Request : pc'[q] \in InLock => pc[q] \in InLock
    BY <2>1, <2>2 DEF TypeOK
  <2> QED BY <2>1, <2>3, IssueKept
<1>6. ASSUME NEW r \in Request, IdpIssue(r) PROVE NoIssueWhileCached'
  BY <1>6, IssueKept DEF IdpIssue, TypeOK
<1>7. ASSUME NEW r \in Request, ExchangeFails(r) PROVE NoIssueWhileCached'
  <2>1. UNCHANGED <<now, cache, want>> /\ pc' = [pc EXCEPT ![r] = "idle"]
    BY <1>7 DEF ExchangeFails, Reply
  <2>2. \A q \in Request : pc'[q] \in InLock => pc[q] \in InLock
    BY <2>1 DEF TypeOK
  <2> QED BY <2>1, <2>2, IssueKept
<1>8. ASSUME NEW r \in Request, SaveToken(r) PROVE NoIssueWhileCached'
  <2>1. /\ pc[r] \in InLock /\ pc' = [pc EXCEPT ![r] = "idle"]
        /\ UNCHANGED <<now, want>>
        /\ \A k \in Key \ {want[r]} : cache'[k] = cache[k]
    BY <1>8 DEF SaveToken, Reply, TypeOK
  <2> SUFFICES ASSUME NEW q \in Request, pc'[q] \in InLock
               PROVE  ~Valid(cache[want[q]])'
    BY DEF NoIssueWhileCached
  <2>2. q # r /\ pc[q] \in InLock
    BY <2>1 DEF TypeOK
  <2>3. want[q] # want[r] /\ want[q] \in Key
    BY <2>1, <2>2 DEF SingleFlight, TypeOK
  <2> QED BY <2>1, <2>2, <2>3 DEF NoIssueWhileCached, Valid
<1>9. CASE Tick
  <2> SUFFICES ASSUME NEW q \in Request, pc[q] \in InLock,
                      cache[want[q]] # NoRecord,
                      now + 1 + Buffer < cache[want[q]].expires
               PROVE  FALSE
    BY <1>9 DEF Tick, NoIssueWhileCached, Valid
  <2>1. cache[want[q]] \in Record
    BY DEF TypeOK
  <2>2. ~(now + Buffer < cache[want[q]].expires)
    BY DEF NoIssueWhileCached, Valid
  <2> QED BY <2>1, <2>2, TimeAssumption DEF TypeOK, Record
<1>10. CASE Restart
  BY <1>10 DEF Restart, NoIssueWhileCached
<1>11. CASE UNCHANGED vars
  BY <1>11 DEF vars, NoIssueWhileCached, Valid
<1> QED
  BY <1>1, <1>2, <1>3, <1>4, <1>5, <1>6, <1>7, <1>8, <1>9, <1>10, <1>11
  DEF Next

\* No token is asked of Microsoft while a valid one is cached, whatever
\* happened while the request waited for the lock (auth_service.py:63-66).
THEOREM NoRedundantIssue == Spec => []NoIssueWhileCached
<1>1. Init => NoIssueWhileCached
  BY DEF Init, NoIssueWhileCached
<1>2. TypeOK /\ SingleFlight /\ NoIssueWhileCached /\ [Next]_vars
        => NoIssueWhileCached'
  BY NoIssueStep
<1> QED BY <1>1, <1>2, TypeCorrect, MutualExclusion, PTL DEF Spec

-----------------------------------------------------------------------------
(* What the cache says about a token is true up to the delay of its answer.*)

\* How long the service may believe in token t.
BelievedUntil(t) == issued[t].at + Trusted(t) + MaxDelay

\* Microsoft's books about a cached token are not changed any more.
LEMMA BackedKept ==
  ASSUME TypeOK, CacheBacked, UNCHANGED cache,
         \A t \in Token : issued[t] # NoToken => issued'[t] = issued[t]
  PROVE  CacheBacked'
<1> SUFFICES ASSUME NEW k \in Key, cache[k] # NoRecord
             PROVE  /\ issued'[cache[k].token] # NoToken
                    /\ issued'[cache[k].token].key = k
                    /\ cache[k].expires <= BelievedUntil(cache[k].token)'
  BY DEF CacheBacked, BelievedUntil
<1>1. cache[k].token \in Token
  BY DEF TypeOK, Record
<1>2. issued'[cache[k].token] = issued[cache[k].token]
  BY <1>1 DEF CacheBacked
<1> QED BY <1>2 DEF CacheBacked, BelievedUntil, Trusted

\* Every step keeps the cache backed by what Microsoft issued.
LEMMA BackedStep ==
  TypeOK /\ InFlight /\ CacheBacked /\ [Next]_vars => CacheBacked'
<1> SUFFICES ASSUME TypeOK, InFlight, CacheBacked, [Next]_vars
             PROVE  CacheBacked'
  OBVIOUS
<1>1. ASSUME NEW r \in Request, SaveToken(r) PROVE CacheBacked'
  <2> DEFINE rec == [token |-> got[r], expires |-> now + Trusted(got[r])]
  <2>1. /\ pc[r] = "answered" /\ UNCHANGED issued
        /\ cache' = [cache EXCEPT ![want[r]] = rec]
    BY <1>1 DEF SaveToken
  <2>2. /\ got[r] \in Token /\ issued[got[r]] \in Info
        /\ issued[got[r]] # NoToken /\ issued[got[r]].key = want[r]
        /\ now <= issued[got[r]].at + MaxDelay
    BY <2>1 DEF InFlight, TypeOK
  <2>3. now + Trusted(got[r]) <= BelievedUntil(got[r])
    <3>1. issued[got[r]].at \in Nat /\ Trusted(got[r]) \in Nat
      BY <2>2, TrustedType DEF Info
    <3>2. now \in Nat /\ MaxDelay \in Nat
      BY TimeAssumption DEF TypeOK
    <3>3. now <= issued[got[r]].at + MaxDelay
      BY <2>2
    <3> QED BY <3>1, <3>2, <3>3 DEF BelievedUntil
  <2>4. rec.token = got[r] /\ rec.expires = now + Trusted(got[r])
    OBVIOUS
  <2> HIDE DEF rec
  <2> SUFFICES ASSUME NEW k \in Key, cache'[k] # NoRecord
               PROVE  /\ issued[cache'[k].token] # NoToken
                      /\ issued[cache'[k].token].key = k
                      /\ cache'[k].expires <= BelievedUntil(cache'[k].token)
    BY <2>1 DEF CacheBacked, BelievedUntil, Trusted
  <2>5. CASE k = want[r]
    <3>1. cache'[k] = rec
      BY <2>1, <2>5 DEF TypeOK
    <3> QED BY <2>2, <2>3, <2>4, <2>5, <3>1
  <2>6. CASE k # want[r]
    <3>1. cache'[k] = cache[k]
      BY <2>1, <2>6 DEF TypeOK
    <3> QED BY <3>1 DEF CacheBacked, BelievedUntil
  <2> QED BY <2>5, <2>6
<1>2. ASSUME NEW r \in Request, IdpIssue(r) PROVE CacheBacked'
  <2>1. \A t \in Token : issued[t] # NoToken => issued'[t] = issued[t]
    BY <1>2 DEF IdpIssue, TypeOK
  <2> QED BY <1>2, <2>1, BackedKept DEF IdpIssue
<1>3. CASE Restart
  BY <1>3 DEF Restart, CacheBacked
<1>4. CASE UNCHANGED <<issued, cache>>
  BY <1>4, BackedKept
<1> QED
  BY <1>1, <1>2, <1>3, <1>4
  DEF Next, vars, Arrive, RejectBlank, LookUp, Wake, ReadConfig, ExchangeFails,
      Tick

\* A cached token was issued for its key, and the cache believes in it for at
\* most MaxDelay longer than its response said, or than the default where it
\* said nothing (auth_service.py:114-116).
THEOREM CacheSound == Spec => []CacheBacked
<1>1. Init => CacheBacked
  BY DEF Init, CacheBacked
<1>2. TypeOK /\ InFlight /\ CacheBacked /\ [Next]_vars => CacheBacked'
  BY BackedStep
<1> QED BY <1>1, <1>2, TypeCorrect, PTL DEF Spec

\* A record that is valid with the buffer is one Microsoft still accepts, if the
\* lifetime the service believes in is not longer than the real one.
LEMMA ValidIsLive ==
  ASSUME TypeOK, CacheBacked, NEW k \in Key, Valid(cache[k])
  PROVE  /\ issued[cache[k].token].key = k
         /\ Trusted(cache[k].token) <= issued[cache[k].token].life
               => now < Expiry(cache[k].token)
<1>1. cache[k] \in Record /\ cache[k] # NoRecord
  BY DEF Valid, TypeOK
<1>2. issued[cache[k].token] \in Info
  BY <1>1 DEF CacheBacked, TypeOK, Record
<1>3. /\ issued[cache[k].token].at \in Nat /\ issued[cache[k].token].life \in Nat
      /\ Trusted(cache[k].token) \in Nat
  BY <1>1, <1>2, LifeAssumption, TrustedType DEF Info, Record
<1>4. cache[k].expires \in Nat /\ now \in Nat
  BY <1>1 DEF Record, TypeOK
<1>5. /\ now + Buffer < cache[k].expires
      /\ cache[k].expires <= BelievedUntil(cache[k].token)
  BY <1>1 DEF Valid, CacheBacked, BelievedUntil
<1>6. ASSUME Trusted(cache[k].token) <= issued[cache[k].token].life
      PROVE  now < Expiry(cache[k].token)
  BY <1>3, <1>4, <1>5, <1>6, TimeAssumption, DelayAssumption
  DEF Expiry, BelievedUntil
<1> QED BY <1>1, <1>6 DEF CacheBacked

\* The step from a wait to an answer, for one request.
LiveAnswer(r) ==
  pc[r] \in {"arrived", "lock"} /\ pc'[r] = "idle" /\ reply'.code = "ok"
    => /\ issued[reply'.token].key = want[r]
       /\ Trusted(reply'.token) <= issued[reply'.token].life
             => now < Expiry(reply'.token)

\* Only the two look-ups answer from the cache, with a record they found valid.
LEMMA LiveStep ==
  ASSUME TypeOK, CacheBacked, [Next]_vars, NEW r \in Request
  PROVE  LiveAnswer(r)
<1> SUFFICES ASSUME pc[r] \in {"arrived", "lock"}, pc'[r] = "idle",
                    reply'.code = "ok"
             PROVE  /\ issued[reply'.token].key = want[r]
                    /\ Trusted(reply'.token) <= issued[reply'.token].life
                          => now < Expiry(reply'.token)
  BY DEF LiveAnswer
<1>1. LookUp(r) \/ Wake(r)
  <2>1. ASSUME NEW q \in Request,
               \/ \E k \in Key, known \in BOOLEAN : Arrive(q, k, known)
               \/ RejectBlank(q) \/ LookUp(q) \/ Wake(q) \/ ReadConfig(q)
               \/ IdpIssue(q) \/ ExchangeFails(q) \/ SaveToken(q)
        PROVE  q = r
    <3>1. \E label : pc' = [pc EXCEPT ![q] = label]
      BY <2>1 DEF Arrive, RejectBlank, LookUp, Wake, ReadConfig, IdpIssue,
                  ExchangeFails, SaveToken, EnterLock, Reply, Goto
    <3> QED BY <3>1 DEF TypeOK
  <2>2. ~Tick /\ ~(UNCHANGED vars)
    BY DEF Tick, vars
  <2>3. ~Restart
    BY DEF Restart
  <2> QED BY <2>1, <2>2, <2>3
          DEF Next, Arrive, RejectBlank, ReadConfig, IdpIssue, ExchangeFails,
              SaveToken
<1>2. Valid(cache[want[r]]) /\ reply'.token = cache[want[r]].token
  <2>1. CASE LookUp(r)
    BY <2>1 DEF LookUp, EnterLock, Reply, Goto, TypeOK
  <2>2. CASE Wake(r)
    BY <2>2 DEF Wake, EnterLock, Reply, Goto, TypeOK
  <2> QED BY <1>1, <2>1, <2>2
<1>3. want[r] \in Key
  BY DEF TypeOK
<1> QED BY <1>2, <1>3, ValidIsLive

\* A token answered out of the cache was issued for the key that was asked for
\* and is accepted by Microsoft at that moment: the buffer outweighs the delay
\* with which expiread_at was computed (token_manager.py:16).  Only a default
\* that is longer than an unstated lifetime is beyond it (auth_service.py:115).
THEOREM CachedAnswersLive == Spec => AnswersOnlyLiveTokens
<1>1. TypeOK /\ CacheBacked /\ [Next]_vars
        => [\A r \in Request : LiveAnswer(r)]_vars
  BY LiveStep
<1>2. Spec => [][\A r \in Request : LiveAnswer(r)]_vars
  BY <1>1, TypeCorrect, CacheSound, PTL DEF Spec
<1> QED BY <1>2 DEF AnswersOnlyLiveTokens, LiveAnswer

-----------------------------------------------------------------------------
(* The order of the waiters.                                               *)

\* The step of one lock changing hands.
InTurn(k) ==
  holder'[k] # holder[k] /\ holder'[k] # Free /\ queue[k] # <<>>
    => holder'[k] = Head(queue[k])

\* Whatever takes a lock takes it for itself, and nothing else fills holder.
LEMMA EnterHolder ==
  ASSUME TypeOK, NEW r \in Request, NEW k \in Key, EnterLock(r, k)
  PROVE  \A j \in Key : holder'[j] # holder[j] => j = k /\ holder'[j] = r
  BY DEF EnterLock, TypeOK

\* Whoever takes a contended lock was the head of its queue.
LEMMA InTurnStep ==
  ASSUME TypeOK, [Next]_vars, NEW k \in Key
  PROVE  InTurn(k)
<1>1. ASSUME NEW r \in Request, LookUp(r) PROVE InTurn(k)
  <2>1. CASE UNCHANGED holder
    BY <2>1 DEF InTurn
  <2>2. CASE Uncontended(want[r]) /\ EnterLock(r, want[r])
    <3>1. want[r] \in Key
      BY DEF TypeOK
    <3>2. holder'[k] # holder[k] => k = want[r]
      BY <2>2, <3>1, EnterHolder
    <3> QED BY <2>2, <3>2 DEF InTurn, Uncontended
  <2> QED BY <1>1, <2>1, <2>2 DEF LookUp
<1>2. ASSUME NEW r \in Request, Wake(r) PROVE InTurn(k)
  <2>1. want[r] \in Key
    BY DEF TypeOK
  <2>2. holder'[k] # holder[k] => k = want[r] /\ holder'[k] = r
    BY <1>2, <2>1, EnterHolder DEF Wake
  <2> QED BY <1>2, <2>2 DEF InTurn, Wake
<1>3. ASSUME NEW r \in Request, UNCHANGED holder \/ Release(r) PROVE InTurn(k)
  BY <1>3 DEF InTurn, Release, TypeOK
<1>4. CASE Restart
  BY <1>4 DEF Restart, InTurn
<1>5. CASE UNCHANGED holder
  BY <1>5 DEF InTurn
<1> QED
  BY <1>1, <1>2, <1>3, <1>4, <1>5
  DEF Next, Arrive, RejectBlank, ReadConfig, IdpIssue, ExchangeFails, SaveToken,
      Tick, vars

\* A lock that somebody waits for goes to the one who waits longest, although
\* a release only schedules it and others arrive before it runs.
THEOREM ServedInOrder == Spec => NoOvertaking
<1>1. TypeOK /\ [Next]_vars => [\A k \in Key : InTurn(k)]_vars
  BY InTurnStep
<1>2. Spec => [][\A k \in Key : InTurn(k)]_vars
  BY <1>1, TypeCorrect, PTL DEF Spec
<1> QED BY <1>2 DEF NoOvertaking, InTurn

-----------------------------------------------------------------------------
(* The queues.                                                             *)

Distinct(q) == \A i, j \in 1 .. Len(q) : q[i] = q[j] => i = j

Queued(q, r) == \E i \in 1 .. Len(q) : q[i] = r

\* A request that queues up.
LEMMA Appended ==
  ASSUME NEW q \in Seq(Request), NEW r \in Request, Distinct(q), ~Queued(q, r)
  PROVE  /\ Distinct(Append(q, r))
         /\ \A x \in Request : Queued(Append(q, r), x) <=> Queued(q, x) \/ x = r
<1>1. /\ Len(Append(q, r)) = Len(q) + 1 /\ Len(q) \in Nat
      /\ Append(q, r)[Len(q) + 1] = r
      /\ \A i \in 1 .. Len(q) : Append(q, r)[i] = q[i]
  OBVIOUS
<1>. QED  BY <1>1 DEF Distinct, Queued

\* A request that leaves the head of a queue.
LEMMA Removed ==
  ASSUME NEW q \in Seq(Request), q # <<>>, Distinct(q)
  PROVE  /\ Distinct(Tail(q))
         /\ \A x \in Request : Queued(Tail(q), x) <=> Queued(q, x) /\ x # Head(q)
<1>1. /\ Len(Tail(q)) = Len(q) - 1 /\ Len(q) \in Nat \ {0} /\ Head(q) = q[1]
      /\ \A i \in 1 .. Len(q) - 1 : Tail(q)[i] = q[i + 1]
  OBVIOUS
<1>2. Distinct(Tail(q))
  <2>. SUFFICES ASSUME NEW i \in 1 .. Len(q) - 1, NEW j \in 1 .. Len(q) - 1,
                       q[i + 1] = q[j + 1]
                PROVE  i = j
    BY <1>1 DEF Distinct
  <2>1. i + 1 \in 1 .. Len(q) /\ j + 1 \in 1 .. Len(q)  BY <1>1
  <2>2. i + 1 = j + 1  BY <2>1 DEF Distinct
  <2>. QED  BY <2>2
<1>3. ASSUME NEW x \in Request, Queued(Tail(q), x) PROVE Queued(q, x) /\ x # Head(q)
  <2>1. PICK i \in 1 .. Len(q) - 1 : q[i + 1] = x  BY <1>1, <1>3 DEF Queued
  <2>2. i + 1 \in 1 .. Len(q) /\ i + 1 # 1 /\ 1 \in 1 .. Len(q)  BY <1>1
  <2>. QED  BY <1>1, <2>1, <2>2 DEF Queued, Distinct
<1>4. ASSUME NEW x \in Request, Queued(q, x), x # Head(q) PROVE Queued(Tail(q), x)
  <2>1. PICK i \in 1 .. Len(q) : q[i] = x  BY <1>4 DEF Queued
  <2>2. i # 1  BY <1>1, <1>4, <2>1
  <2>3. i - 1 \in 1 .. Len(q) - 1 /\ (i - 1) + 1 = i  BY <1>1, <2>2
  <2>4. Tail(q)[i - 1] = x  BY <1>1, <2>1, <2>3
  <2>. QED  BY <1>1, <2>3, <2>4 DEF Queued
<1>. QED  BY <1>2, <1>3, <1>4

\* The queues as QueueMatchesWaiters describes them.
LEMMA QueueSplit ==
  QueueMatchesWaiters <=>
    \A k \in Key :
      /\ Distinct(queue[k])
      /\ \A r \in Request : Queued(queue[k], r) <=> pc[r] = "lock" /\ want[r] = k
  BY DEF QueueMatchesWaiters, Distinct, Queued

\* A step of a request that neither comes to a lock nor waits for one.
LEMMA QueueKept ==
  ASSUME TypeOK, QueueMatchesWaiters, NEW r \in Request, pc[r] # "lock",
         UNCHANGED queue, pc'[r] # "lock",
         \A q \in Request \ {r} : pc'[q] = pc[q] /\ want'[q] = want[q]
  PROVE  QueueMatchesWaiters'
  BY DEF QueueMatchesWaiters

\* Entering the lock a request waits for no more.
LEMMA EnterLeaves ==
  ASSUME TypeOK, NEW r \in Request, NEW k \in Key, EnterLock(r, k)
  PROVE  pc'[r] # "lock" /\ \A q \in Request \ {r} : pc'[q] = pc[q]
  BY DEF EnterLock, Reply, Goto, TypeOK

\* Every step keeps the queues as QueueMatchesWaiters describes them.
LEMMA QueueStep ==
  TypeOK /\ QueueMatchesWaiters /\ [Next]_vars => QueueMatchesWaiters'
<1>. SUFFICES ASSUME TypeOK, QueueMatchesWaiters, [Next]_vars
              PROVE  QueueMatchesWaiters'
  OBVIOUS
<1>1. ASSUME NEW r \in Request,
             \/ \E k \in Key, known \in BOOLEAN : Arrive(r, k, known)
             \/ RejectBlank(r) \/ ReadConfig(r) \/ IdpIssue(r) \/ ExchangeFails(r)
             \/ SaveToken(r)
      PROVE  QueueMatchesWaiters'
  <2>1. /\ pc[r] # "lock" /\ UNCHANGED queue /\ pc'[r] # "lock"
        /\ \A q \in Request \ {r} : pc'[q] = pc[q] /\ want'[q] = want[q]
    BY <1>1 DEF Arrive, RejectBlank, ReadConfig, IdpIssue, ExchangeFails,
                SaveToken, Reply, Goto, TypeOK
  <2>. QED  BY <2>1, QueueKept
<1>2. ASSUME NEW r \in Request, LookUp(r) PROVE QueueMatchesWaiters'
  <2>. DEFINE k == want[r]
  <2>0. k \in Key /\ pc[r] = "arrived" /\ UNCHANGED want  BY <1>2 DEF LookUp, TypeOK
  <2>1. CASE UNCHANGED queue /\ ((\E c, t : Reply(r, c, t)) \/ EnterLock(r, k))
    <3>1. pc'[r] # "lock" /\ \A q \in Request \ {r} : pc'[q] = pc[q]
      BY <2>0, <2>1, EnterLeaves DEF Reply, TypeOK
    <3>. QED  BY <2>0, <2>1, <3>1, QueueKept
  <2>2. CASE Goto(r, "lock") /\ queue' = [queue EXCEPT ![k] = Append(@, r)]
    <3>1. /\ pc'[r] = "lock" /\ \A q \in Request \ {r} : pc'[q] = pc[q]
          /\ queue'[k] = Append(queue[k], r) /\ queue[k] \in Seq(Request)
          /\ \A j \in Key \ {k} : queue'[j] = queue[j]
      BY <2>0, <2>2 DEF Goto, TypeOK
    <3>2. \A j \in Key : Distinct(queue[j]) /\ ~Queued(queue[j], r)
      BY <2>0, QueueSplit
    <3>3. /\ Distinct(queue'[k])
          /\ \A x \in Request : Queued(queue'[k], x) <=> Queued(queue[k], x) \/ x = r
      BY <3>1, <3>2, <2>0, Appended
    <3>4. ASSUME NEW j \in Key
          PROVE  /\ Distinct(queue'[j])
                 /\ \A q \in Request :
                       Queued(queue'[j], q) <=> pc'[q] = "lock" /\ want'[q] = j
      <4>1. \A q \in Request : Queued(queue[j], q) <=> pc[q] = "lock" /\ want[q] = j
        BY QueueSplit
      <4>. QED  BY <2>0, <3>1, <3>2, <3>3, <4>1
    <3>. QED  BY <3>4 DEF QueueMatchesWaiters, Distinct, Queued
  <2>. QED  BY <1>2, <2>1, <2>2 DEF LookUp
<1>3. ASSUME NEW r \in Request, Wake(r) PROVE QueueMatchesWaiters'
  <2>. DEFINE k == want[r]
  <2>1. /\ k \in Key /\ pc[r] = "lock" /\ queue[k] # <<>> /\ r = Head(queue[k])
        /\ queue' = [queue EXCEPT ![k] = Tail(@)] /\ EnterLock(r, k) /\ UNCHANGED want
    BY <1>3 DEF Wake, TypeOK
  <2>2. pc'[r] # "lock" /\ \A q \in Request \ {r} : pc'[q] = pc[q]
    BY <2>1, EnterLeaves
  <2>3. /\ queue'[k] = Tail(queue[k]) /\ queue[k] \in Seq(Request)
        /\ \A j \in Key \ {k} : queue'[j] = queue[j]
    BY <2>1 DEF TypeOK
  <2>4. /\ Distinct(queue'[k])
        /\ \A x \in Request : Queued(queue'[k], x) <=> Queued(queue[k], x) /\ x # r
    BY <2>1, <2>3, QueueSplit, Removed
  <2>5. ASSUME NEW j \in Key
        PROVE  /\ Distinct(queue'[j])
               /\ \A q \in Request :
                     Queued(queue'[j], q) <=> pc'[q] = "lock" /\ want'[q] = j
    <3>1. /\ Distinct(queue[j])
          /\ \A q \in Request : Queued(queue[j], q) <=> pc[q] = "lock" /\ want[q] = j
      BY QueueSplit
    <3>. QED  BY <2>1, <2>2, <2>3, <2>4, <3>1
  <2>. QED  BY <2>5 DEF QueueMatchesWaiters, Distinct, Queued
<1>4. CASE Tick
  BY <1>4 DEF Tick, QueueMatchesWaiters
<1>5. CASE Restart
  BY <1>5 DEF Restart, QueueMatchesWaiters
<1>6. CASE UNCHANGED vars
  BY <1>6 DEF vars, QueueMatchesWaiters
<1>. QED  BY <1>1, <1>2, <1>3, <1>4, <1>5, <1>6 DEF Next

\* The queue of a lock holds the requests that wait for it, each of them once.
THEOREM QueuesExact == Spec => []QueueMatchesWaiters
<1>1. Init => QueueMatchesWaiters
  BY DEF Init, QueueMatchesWaiters
<1>2. TypeOK /\ QueueMatchesWaiters /\ [Next]_vars => QueueMatchesWaiters'
  BY QueueStep
<1> QED BY <1>1, <1>2, TypeCorrect, PTL DEF Spec

-----------------------------------------------------------------------------
(* The refinement of TokenCache, without its fairness.                     *)

\* The refinement mapping: the keys whose lock is held.
Filling == {k \in Key : holder[k] # Free}

\* The mapped initial states are initial states of the promise.
LEMMA RefinesInit == Init => Cache!Init
  BY DEF Init, Cache!Init

\* A step that leaves the clock, the cache and the locks alone is a stutter.
LEMMA RefinesStutter ==
  ASSUME UNCHANGED <<now, cache, holder>>
  PROVE  UNCHANGED Cache!vars
  BY DEF Cache!vars

\* Entering a lock begins a fill or stutters.
LEMMA RefinesEnter ==
  ASSUME TypeOK, NEW r \in Request, UNCHANGED <<now, cache, want>>,
         holder[want[r]] = Free, EnterLock(r, want[r])
  PROVE  [Cache!Next]_(Cache!vars)
<1>0. want[r] \in Key
  BY DEF TypeOK
<1>1. CASE UNCHANGED holder
  BY <1>1, RefinesStutter
<1>2. CASE /\ ~Valid(cache[want[r]])
           /\ holder' = [holder EXCEPT ![want[r]] = r]
  <2>1. Filling' = Filling \cup {want[r]} /\ want[r] \notin Filling
    BY <1>0, <1>2, NullAssumption DEF Filling, TypeOK
  <2>2. Cache!BeginFill(want[r])
    BY <1>2, <2>1 DEF Cache!BeginFill, Cache!Usable, Valid, Filling
  <2> QED BY <1>0, <2>2 DEF Cache!Next, Cache!BeginFill
<1> QED BY <1>1, <1>2 DEF EnterLock

\* A release empties the place of one filler.
LEMMA RefinesRelease ==
  ASSUME TypeOK, SingleFlight, NEW r \in Request, pc[r] \in InLock, Release(r)
  PROVE  /\ want[r] \in Key
         /\ want[r] \in Filling
         /\ Filling' = Filling \ {want[r]}
<1>1. want[r] \in Key /\ holder[want[r]] = r
  BY DEF TypeOK, SingleFlight
<1>2. want[r] \in Filling
  BY <1>1, NullAssumption DEF Filling
<1>3. Filling' = Filling \ {want[r]}
  BY <1>1 DEF Filling, Release, TypeOK
<1> QED BY <1>1, <1>2, <1>3

\* Every step is one of the promise, or a stutter.
LEMMA RefinesStep ==
  ASSUME TypeOK, InFlight, SingleFlight, [Next]_vars
  PROVE  [Cache!Next]_(Cache!vars)
<1>1. ASSUME NEW r \in Request, LookUp(r) PROVE [Cache!Next]_(Cache!vars)
  <2>1. UNCHANGED <<now, cache, want>>
    BY <1>1 DEF LookUp
  <2>2. \/ UNCHANGED holder
        \/ holder[want[r]] = Free /\ EnterLock(r, want[r])
    BY <1>1 DEF LookUp, Uncontended
  <2> QED BY <2>1, <2>2, RefinesStutter, RefinesEnter
<1>2. ASSUME NEW r \in Request, Wake(r) PROVE [Cache!Next]_(Cache!vars)
  BY <1>2, RefinesEnter DEF Wake
<1>3. ASSUME NEW r \in Request, ReadConfig(r) \/ ExchangeFails(r)
      PROVE  [Cache!Next]_(Cache!vars)
  <2>1. UNCHANGED <<now, cache>> /\ pc[r] \in InLock
    BY <1>3 DEF ReadConfig, ExchangeFails
  <2>2. CASE UNCHANGED holder
    BY <2>1, <2>2, RefinesStutter
  <2>3. CASE Release(r)
    <3>1. Cache!AbortFill(want[r]) /\ want[r] \in Key
      BY <2>1, <2>3, RefinesRelease DEF Cache!AbortFill, Filling
    <3> QED BY <3>1 DEF Cache!Next, Cache!AbortFill
  <2> QED BY <1>3, <2>2, <2>3 DEF ReadConfig, ExchangeFails
<1>4. ASSUME NEW r \in Request, SaveToken(r) PROVE [Cache!Next]_(Cache!vars)
  <2>1. pc[r] = "answered" /\ Release(r) /\ UNCHANGED now
    BY <1>4 DEF SaveToken
  <2>2. got[r] \in Token /\ Trusted(got[r]) \in Life \cup {DefaultLife}
    BY <2>1, TrustedType DEF InFlight, TypeOK
  <2>3. cache' = [cache EXCEPT ![want[r]] =
                    [token |-> got[r], expires |-> now + Trusted(got[r])]]
    BY <1>4 DEF SaveToken
  <2>4. Cache!CompleteFill(want[r]) /\ want[r] \in Key
    BY <2>1, <2>2, <2>3, RefinesRelease DEF Cache!CompleteFill, Filling
  <2> QED BY <2>4 DEF Cache!Next, Cache!CompleteFill
<1>5. CASE Tick
  <2>1. Cache!Pass
    BY <1>5 DEF Tick, Cache!Pass
  <2> QED BY <2>1 DEF Cache!Next
<1>6. CASE Restart
  <2>1. Filling' = {}
    BY <1>6 DEF Restart, Filling
  <2>2. Cache!Lose
    BY <1>6, <2>1 DEF Restart, Cache!Lose, Filling
  <2> QED BY <2>2 DEF Cache!Next
<1>7. CASE UNCHANGED <<now, cache, holder>>
  BY <1>7, RefinesStutter
<1> QED
  BY <1>1, <1>2, <1>3, <1>4, <1>5, <1>6, <1>7
  DEF Next, Arrive, RejectBlank, IdpIssue, vars

\* The cache of application tokens implements TokenCache: each key has one
\* filler at a time, which begins only without a usable token and stores a
\* token with the whole life it believes in ahead of it.
THEOREM Refinement == Spec => Cache!SafeSpec
<1>1. Init => Cache!Init
  BY RefinesInit
<1>2. TypeOK /\ InFlight /\ SingleFlight /\ [Next]_vars
        => [Cache!Next]_(Cache!vars)
  BY RefinesStep
<1> QED BY <1>1, <1>2, TypeCorrect, MutualExclusion, PTL DEF Spec, Cache!SafeSpec

=============================================================================
