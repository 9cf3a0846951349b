------------------------ MODULE DelegatedAuthProofs ------------------------
(***************************************************************************)
(* Proofs about DelegatedAuth for every set of handlers, accounts, grants  *)
(* and lifetimes and every Buffer and MaxDelay with MaxDelay <= Buffer.    *)
(*                                                                         *)
(* TypeOK is inductive only together with what a handler knows about the   *)
(* tokens it holds: Knowledge below.  Three facts are inductive relative   *)
(* to it and proved where they are needed: OneWriterPerRow, History (what  *)
(* `during` records) and InsertAlone (an INSERT waits alone).              *)
(***************************************************************************)
EXTENDS DelegatedAuth, TLAPS

USE DEF idpVars, dbVars, reqVars, Waiting, Token

-----------------------------------------------------------------------------
(* The inductive invariant.                                                *)

\* Microsoft issued the token t for account a.
Issued(a, t) == grants[t] # NoToken /\ grants[t].owner = a

\* A refresh token in a token response belongs to the account of the response.
GrantsLinked ==
    \A g \in Grant : grants[g] # NoToken /\ grants[g].refresh # NoToken =>
        Issued(grants[g].owner, grants[g].refresh)

\* Locals are empty between two requests; every token a handler holds was
\* issued for its account, its response is not too old, the expiry it
\* computed is late by at most the delay, and a row it has seen still exists.
Knows(r) ==
    /\ Available(r) => seen[r] = NoRow /\ redeem[r] = NoToken
    /\ redeem[r] # NoToken => Issued(acct[r], redeem[r])
    /\ pc[r] \in {"answered", "select", "flush", "commit"} =>
          got[r] # NoToken /\ Issued(acct[r], got[r])
    /\ pc[r] = "answered" => now <= grants[got[r]].issued + MaxDelay
    /\ pc[r] \in {"select", "flush", "commit"} =>
          expiresAt[r] <= Expiry(got[r]) + MaxDelay
    /\ seen[r] # NoRow => Backed(acct[r], seen[r]) /\ row[acct[r]] # NoRow

Knowledge == \A r \in Request : Knows(r)

IInv == TypeOK /\ GrantsLinked /\ RowBacked /\ Knowledge

-----------------------------------------------------------------------------
(* What every step does to the state that handlers share.                  *)

\* Microsoft's memory of a grant does not change.
Grow == \A g \in Grant : grants[g] # NoToken => grants'[g] = grants[g]

\* A row is never deleted.
RowsStay == \A a \in Account : row[a] # NoRow => row'[a] # NoRow

\* What request q holds is unchanged.
Same(q) ==
    /\ pc'[q] = pc[q]
    /\ acct'[q] = acct[q]
    /\ seen'[q] = seen[q]
    /\ redeem'[q] = redeem[q]
    /\ got'[q] = got[q]
    /\ expiresAt'[q] = expiresAt[q]

LEMMA BackedStays ==
  ASSUME NEW a \in Account, NEW w \in Row, TypeOK, Grow, Backed(a, w)
  PROVE  Backed(a, w)'
  BY DEF TypeOK, Grow, Backed, Expiry, Row

\* A handler that does not move keeps what it knows.
LEMMA KnowsStays ==
  ASSUME NEW q \in Request, TypeOK, Knows(q), Same(q), Grow, RowsStay,
         now' = now \/ (pc[q] # "answered")
  PROVE  Knows(q)'
<1>1. acct[q] \in Account /\ redeem[q] \in Grant \cup {NoToken}
         /\ got[q] \in Grant \cup {NoToken} /\ seen[q] \in Row \cup {NoRow}
  BY DEF TypeOK
<1>2. (Available(q) => seen[q] = NoRow /\ redeem[q] = NoToken)'
  BY DEF Knows, Same, Available
<1>3. (redeem[q] # NoToken => Issued(acct[q], redeem[q]))'
  BY <1>1 DEF Knows, Same, Issued, Grow
<1>4. (pc[q] \in {"answered", "select", "flush", "commit"} =>
          got[q] # NoToken /\ Issued(acct[q], got[q]))'
  BY <1>1 DEF Knows, Same, Issued, Grow
<1>5. (pc[q] = "answered" => now <= grants[got[q]].issued + MaxDelay)'
  BY <1>1 DEF Knows, Same, Issued, Grow
<1>6. (pc[q] \in {"select", "flush", "commit"} =>
          expiresAt[q] <= Expiry(got[q]) + MaxDelay)'
  BY <1>1 DEF Knows, Same, Issued, Grow, Expiry
<1>7. (seen[q] # NoRow => Backed(acct[q], seen[q]) /\ row[acct[q]] # NoRow)'
  <2> SUFFICES ASSUME seen[q] # NoRow
               PROVE  Backed(acct[q], seen[q])' /\ row'[acct'[q]] # NoRow
    BY DEF Same
  <2>1. Backed(acct[q], seen[q]) /\ row[acct[q]] # NoRow
    BY DEF Knows
  <2>2. PICK a \in Account, w \in Row : a = acct[q] /\ w = seen[q]
    BY <1>1
  <2>3. Backed(a, w)'
    BY <2>1, <2>2, BackedStays
  <2>4. acct'[q] = a /\ seen'[q] = w
    BY <2>2 DEF Same
  <2>5. Backed(acct[q], seen[q])'
    BY <2>3, <2>4 DEF Backed
  <2> QED BY <1>1, <2>1, <2>5 DEF RowsStay, Same
<1> QED BY <1>2, <1>3, <1>4, <1>5, <1>6, <1>7 DEF Knows

\* The shared part of the invariant.
LEMMA RowBackedStays ==
  ASSUME TypeOK, RowBacked, Grow, UNCHANGED row
  PROVE  RowBacked'
<1> SUFFICES ASSUME NEW a \in Account, row[a] # NoRow
             PROVE  Backed(a, row[a])'
  BY DEF RowBacked
<1>1. PICK w \in Row : w = row[a]
  BY DEF TypeOK
<1>2. Backed(a, w)'
  BY <1>1, BackedStays DEF RowBacked
<1>3. row'[a] = w
  BY <1>1
<1> QED BY <1>2, <1>3 DEF Backed

\* A handler that answers keeps the types.
LEMMA RespondType ==
  ASSUME NEW r \in Request, NEW c \in Codes, NEW t \in Token,
         TypeOK, Respond(r, c, t)
  PROVE  /\ pc' \in [Request -> Waiting \cup {"idle", "replied"}]
         /\ kind' \in [Request -> {"fetch", "callback"}]
         /\ acct' \in [Request -> Account]
         /\ seen' \in [Request -> Row \cup {NoRow}]
         /\ redeem' \in [Request -> Token]
         /\ got' \in [Request -> Token]
         /\ expiresAt' \in [Request -> Nat]
         /\ session' \in [Request -> BOOLEAN]
         /\ answer' \in [Request -> Answer]
  BY DEF TypeOK, Respond, Goto, Session, Answer

\* A handler that answers knows nothing any more; the others are not moved.
LEMMA RespondKnows ==
  ASSUME NEW r \in Request, NEW c, NEW t, IInv, Respond(r, c, t),
         Grow, RowsStay, now' = now
  PROVE  Knowledge'
<1>1. Knows(r)'
  BY DEF Respond, Goto, Knows, Available, IInv, TypeOK
<1>2. ASSUME NEW q \in Request, q # r PROVE Knows(q)'
  <2>1. Same(q)
    BY <1>2 DEF Respond, Goto, Same, IInv, TypeOK
  <2> QED BY <2>1, KnowsStays DEF IInv, Knowledge
<1> QED BY <1>1, <1>2 DEF Knowledge

\* Answering leaves the whole invariant intact if nothing shared is written.
LEMMA ReplyInv ==
  ASSUME NEW r \in Request, NEW c \in Codes, NEW t \in Token, IInv,
         Reply(r, c, t), UNCHANGED <<idpVars, row>>,
         lock' \in [Account -> Request \cup {Nobody}]
  PROVE  IInv'
<1>1. Respond(r, c, t) /\ during' = [during EXCEPT ![r] = {}]
  BY DEF Reply
<1>2. Grow /\ RowsStay
  BY DEF Grow, RowsStay
<1>3. TypeOK'
  <2>1. during' \in [Request -> SUBSET (Row \cup {NoRow})]
    BY <1>1 DEF IInv, TypeOK
  <2> QED BY <1>1, <2>1, RespondType DEF IInv, TypeOK
<1>4. GrantsLinked'
  BY DEF IInv, GrantsLinked, Issued
<1>5. RowBacked'
  BY <1>2, RowBackedStays DEF IInv
<1>6. Knowledge'
  BY <1>1, <1>2, RespondKnows
<1> QED BY <1>3, <1>4, <1>5, <1>6 DEF IInv

\* A handler that goes on without touching anything shared.
LEMMA OnlyOwn ==
  ASSUME NEW r \in Request, IInv, TypeOK', UNCHANGED <<idpVars, row>>,
         Knows(r)', \A q \in Request \ {r} : Same(q)
  PROVE  IInv'
<1>2. Grow /\ RowsStay
  BY DEF Grow, RowsStay
<1>4. GrantsLinked'
  BY DEF IInv, GrantsLinked, Issued
<1>5. RowBacked'
  BY <1>2, RowBackedStays DEF IInv
<1>6. ASSUME NEW q \in Request, q # r PROVE Knows(q)'
  BY <1>2, <1>6, KnowsStays DEF IInv, Knowledge
<1> QED BY <1>4, <1>5, <1>6 DEF IInv, Knowledge

-----------------------------------------------------------------------------
(* The invariant holds initially and every step keeps it.                  *)

LEMMA InvInit == Init => IInv
<1> SUFFICES ASSUME Init PROVE IInv
  OBVIOUS
<1>1. TypeOK
  BY NullAssumption DEF Init, TypeOK, Answer, NoAnswer
<1>2. GrantsLinked /\ RowBacked
  BY DEF Init, GrantsLinked, RowBacked
<1>3. Knowledge
  BY DEF Init, Knowledge, Knows, Available
<1> QED BY <1>1, <1>2, <1>3 DEF IInv

\* A request is accepted: the handler still holds nothing.
LEMMA AcceptInv ==
  ASSUME NEW r \in Request, NEW k \in {"fetch", "callback"}, NEW a \in Account,
         NEW label \in {"read", "config"}, IInv, Accept(r, k, a, label)
  PROVE  IInv'
<1>1. TypeOK'
  BY DEF IInv, TypeOK, Accept, Goto, Session, NoAnswer, Answer
<1>2. Knows(r)'
  BY DEF IInv, TypeOK, Accept, Goto, Knowledge, Knows, Available
<1>3. ASSUME NEW q \in Request \ {r} PROVE Same(q)
  BY DEF IInv, TypeOK, Accept, Goto, Same
<1> QED BY <1>1, <1>2, <1>3, OnlyOwn DEF Accept

LEMMA RejectInv ==
  ASSUME NEW r \in Request, IInv, Reject(r) PROVE IInv'
<1>1. PICK c \in {"badRequest", "error"} : Reply(r, c, NoToken)
  BY DEF Reject
<1> QED BY <1>1, ReplyInv DEF Reject, Codes, IInv, TypeOK

\* The row a handler reads is backed because the table is.
LEMMA SelectKnows ==
  ASSUME NEW r \in Request, IInv, UNCHANGED <<idpVars, row, acct>>,
         seen' = [seen EXCEPT ![r] = row[acct[r]]]
  PROVE  (seen[r] # NoRow => Backed(acct[r], seen[r]) /\ row[acct[r]] # NoRow)'
<1>1. acct[r] \in Account /\ seen'[r] = row[acct[r]]
  BY DEF IInv, TypeOK
<1>2. row[acct[r]] # NoRow => Backed(acct[r], row[acct[r]])
  BY <1>1 DEF IInv, RowBacked
<1> QED BY <1>1, <1>2 DEF Backed, Expiry

LEMMA ReadRowInv ==
  ASSUME NEW r \in Request, IInv, ReadRow(r) PROVE IInv'
<1>1. TypeOK'
  BY DEF IInv, TypeOK, ReadRow, Goto, Session
<1>2. Knows(r)'
  <2>1. (seen[r] # NoRow => Backed(acct[r], seen[r]) /\ row[acct[r]] # NoRow)'
    BY SelectKnows DEF ReadRow
  <2>2. pc'[r] = "check" /\ redeem'[r] = redeem[r] /\ UNCHANGED <<grants, acct>>
    BY DEF ReadRow, Goto, IInv, TypeOK
  <2>3. (redeem[r] # NoToken => Issued(acct[r], redeem[r]))'
    BY <2>2 DEF IInv, Knowledge, Knows, Issued
  <2> QED BY <2>1, <2>2, <2>3 DEF Knows, Available
<1>3. ASSUME NEW q \in Request \ {r} PROVE Same(q)
  BY DEF IInv, TypeOK, ReadRow, Goto, Same
<1> QED BY <1>1, <1>2, <1>3, OnlyOwn DEF ReadRow

LEMMA CheckTokenInv ==
  ASSUME NEW r \in Request, IInv, CheckToken(r) PROVE IInv'
<1>0. lock' \in [Account -> Request \cup {Nobody}]
  BY DEF CheckToken, IInv, TypeOK
<1>1. ASSUME NEW c \in Codes, NEW t \in Token, Reply(r, c, t) PROVE IInv'
  BY <1>0, <1>1, ReplyInv DEF CheckToken
<1>2. CASE seen[r] = NoRow
  BY <1>1, <1>2 DEF CheckToken, Codes
<1>3. CASE seen[r] # NoRow /\ Fresh(seen[r])
  <2>1. seen[r].access \in Token
    BY <1>3 DEF IInv, TypeOK, Row
  <2> QED BY <1>1, <1>3, <2>1 DEF CheckToken, Codes
<1>4. CASE seen[r] # NoRow /\ ~Fresh(seen[r]) /\ seen[r].refresh = NoToken
  BY <1>1, <1>4 DEF CheckToken, Codes
<1>5. CASE seen[r] # NoRow /\ ~Fresh(seen[r]) /\ seen[r].refresh # NoToken
  <2>1. /\ redeem' = [redeem EXCEPT ![r] = seen[r].refresh]
        /\ seen' = [seen EXCEPT ![r] = NoRow]
        /\ Goto(r, "config")
        /\ Session(r, TRUE)
        /\ UNCHANGED <<idpVars, dbVars, kind, acct, got, expiresAt, answer,
                       during>>
    BY <1>5 DEF CheckToken
  <2>2. seen[r] \in Row /\ seen[r].refresh \in Grant
    BY <1>5 DEF IInv, TypeOK, Row
  <2>3. TypeOK'
    BY <2>1, <2>2 DEF IInv, TypeOK, Goto, Session
  <2>4. Knows(r)'
    <3>1. Issued(acct[r], seen[r].refresh)
      BY <1>5 DEF IInv, Knowledge, Knows, Backed, Issued
    <3>2. pc'[r] = "config" /\ redeem'[r] = seen[r].refresh /\ seen'[r] = NoRow
      BY <2>1 DEF IInv, TypeOK, Goto
    <3> QED BY <2>1, <3>1, <3>2 DEF Knows, Available, Issued
  <2>5. ASSUME NEW q \in Request \ {r} PROVE Same(q)
    BY <2>1 DEF IInv, TypeOK, Goto, Same
  <2> QED BY <2>1, <2>3, <2>4, <2>5, OnlyOwn
<1> QED BY <1>2, <1>3, <1>4, <1>5

LEMMA ReadConfigInv ==
  ASSUME NEW r \in Request, IInv, ReadConfig(r) PROVE IInv'
<1>1. CASE Reply(r, "error", NoToken)
  BY <1>1, ReplyInv DEF ReadConfig, Codes, IInv, TypeOK
<1>2. CASE /\ Goto(r, "post")
           /\ Session(r, FALSE)
           /\ UNCHANGED <<kind, acct, seen, redeem, got, expiresAt, answer,
                          during>>
  <2>1. TypeOK'
    BY <1>2 DEF ReadConfig, IInv, TypeOK, Goto, Session
  <2>2. Knows(r)'
    <3>1. pc[r] = "config" /\ pc'[r] = "post" /\ UNCHANGED <<idpVars, row>>
      BY <1>2 DEF ReadConfig, Goto, IInv, TypeOK
    <3> QED BY <1>2, <3>1
            DEF IInv, Knowledge, Knows, Available, Issued, Backed, Expiry
  <2>3. ASSUME NEW q \in Request \ {r} PROVE Same(q)
    BY <1>2 DEF IInv, TypeOK, Goto, Same
  <2> QED BY <2>1, <2>2, <2>3, OnlyOwn DEF ReadConfig
<1> QED BY <1>1, <1>2 DEF ReadConfig

\* A new grant: whatever was known about the earlier ones stays true.
LEMMA IdpIssueInv ==
  ASSUME NEW r \in Request, IInv, IdpIssue(r) PROVE IInv'
<1> PICK g \in Grant, life \in Life : \E refresh \in {g, NoToken, redeem[r]} :
      /\ grants[g] = NoToken
      /\ grants' = [grants EXCEPT ![g] =
                      [owner |-> acct[r], issued |-> now,
                       life |-> life, refresh |-> refresh]]
      /\ got' = [got EXCEPT ![r] = g]
  BY DEF IdpIssue
<1> PICK refresh \in {g, NoToken, redeem[r]} :
      /\ grants[g] = NoToken
      /\ grants' = [grants EXCEPT ![g] =
                      [owner |-> acct[r], issued |-> now,
                       life |-> life, refresh |-> refresh]]
      /\ got' = [got EXCEPT ![r] = g]
  OBVIOUS
<1> DEFINE info == [owner |-> acct[r], issued |-> now,
                    life |-> life, refresh |-> refresh]
<1>0. /\ pc[r] = "post"
      /\ Goto(r, "answered")
      /\ UNCHANGED <<now, dbVars, kind, acct, seen, redeem, expiresAt, session,
                     answer, during>>
  BY DEF IdpIssue
<1>1. info \in GrantInfo /\ info # NoToken
  <2>1. acct[r] \in Account /\ now \in Nat /\ refresh \in Token
    BY DEF IInv, TypeOK
  <2>2. life \in Nat
    BY LifeAssumption
  <2>3. info \in GrantInfo
    BY <2>1 DEF GrantInfo
  <2> QED BY <2>3, NullAssumption DEF GrantInfo
<1>2. grants'[g] = info
  BY DEF IInv, TypeOK
<1>3. Grow /\ RowsStay
  BY <1>0 DEF Grow, RowsStay, IInv, TypeOK
<1>4. TypeOK'
  <2>1. grants' \in [Grant -> GrantInfo \cup {NoToken}]
    BY <1>1 DEF IInv, TypeOK
  <2>2. /\ got' \in [Request -> Token]
        /\ pc' \in [Request -> Waiting \cup {"idle", "replied"}]
    BY <1>0 DEF IInv, TypeOK, Goto
  <2> QED BY <1>0, <2>1, <2>2 DEF IInv, TypeOK
<1>5. GrantsLinked'
  <2> SUFFICES ASSUME NEW h \in Grant, grants'[h] # NoToken,
                      grants'[h].refresh # NoToken
               PROVE  Issued(grants[h].owner, grants[h].refresh)'
    BY DEF GrantsLinked
  <2>1. CASE h # g
    <3>1. grants'[h] = grants[h]
      BY <2>1 DEF IInv, TypeOK
    <3>2. Issued(grants[h].owner, grants[h].refresh)
      BY <3>1 DEF IInv, GrantsLinked
    <3>3. grants[h].refresh \in Grant
      BY <3>1 DEF IInv, TypeOK, GrantInfo
    <3> QED BY <1>3, <3>1, <3>2, <3>3 DEF Issued, Grow
  <2>2. CASE h = g /\ refresh = g
    BY <1>1, <1>2, <2>2 DEF Issued
  <2>3. CASE h = g /\ refresh = redeem[r] /\ refresh # NoToken
    <3>1. Issued(acct[r], redeem[r]) /\ redeem[r] \in Grant
      BY <2>3 DEF IInv, Knowledge, Knows, TypeOK
    <3>2. grants'[redeem[r]] = grants[redeem[r]]
      BY <1>3, <3>1 DEF Grow, Issued
    <3> QED BY <1>1, <1>2, <2>3, <3>1, <3>2 DEF Issued
  <2> QED BY <1>2, <2>1, <2>2, <2>3
<1>6. RowBacked'
  BY <1>0, <1>3, RowBackedStays DEF IInv
<1>7. Knows(r)'
  <2>1. pc'[r] = "answered" /\ got'[r] = g
    BY <1>0 DEF IInv, TypeOK, Goto
  <2>2. Issued(acct[r], got[r])' /\ got'[r] # NoToken
    BY <1>0, <1>1, <1>2, <2>1, NullAssumption DEF Issued
  <2>3. now' <= grants'[got'[r]].issued + MaxDelay
    <3>1. grants'[got'[r]].issued = now /\ now' = now
      BY <1>0, <1>2, <2>1
    <3>2. now \in Nat /\ MaxDelay \in Nat
      BY TimeAssumption DEF IInv, TypeOK
    <3> QED BY <3>1, <3>2
  <2>4. (redeem[r] # NoToken => Issued(acct[r], redeem[r]))'
    <3>1. redeem[r] # NoToken => Issued(acct[r], redeem[r])
      BY DEF IInv, Knowledge, Knows
    <3>2. redeem[r] \in Token
      BY DEF IInv, TypeOK
    <3> QED BY <1>0, <1>3, <3>1, <3>2 DEF Issued, Grow
  <2>5. (seen[r] # NoRow => Backed(acct[r], seen[r]) /\ row[acct[r]] # NoRow)'
    <3> SUFFICES ASSUME seen[r] # NoRow
                 PROVE  Backed(acct[r], seen[r])' /\ row[acct[r]] # NoRow
      BY <1>0
    <3>1. PICK a \in Account, w \in Row : a = acct[r] /\ w = seen[r]
      BY DEF IInv, TypeOK
    <3>2. Backed(a, w) /\ row[acct[r]] # NoRow
      BY <3>1 DEF IInv, Knowledge, Knows
    <3>3. Backed(a, w)'
      BY <1>3, <3>2, BackedStays DEF IInv
    <3> QED BY <1>0, <3>1, <3>2, <3>3 DEF Backed
  <2> QED BY <2>1, <2>2, <2>3, <2>4, <2>5 DEF Knows, Available
<1>8. ASSUME NEW q \in Request, q # r PROVE Knows(q)'
  <2>1. Same(q)
    BY <1>0, <1>8 DEF Same, Goto, IInv, TypeOK
  <2> QED BY <1>0, <1>3, <2>1, KnowsStays DEF IInv, Knowledge
<1> QED BY <1>4, <1>5, <1>6, <1>7, <1>8 DEF IInv, Knowledge

LEMMA ExchangeFailsInv ==
  ASSUME NEW r \in Request, IInv, ExchangeFails(r) PROVE IInv'
<1>1. PICK c \in {"badGateway", "badRequest", "error"} : Reply(r, c, NoToken)
  BY DEF ExchangeFails
<1> QED BY <1>1, ReplyInv DEF ExchangeFails, Codes, IInv, TypeOK

\* expires_at is computed when the response is here, at most MaxDelay late.
LEMMA ReceiveTokenInv ==
  ASSUME NEW r \in Request, IInv, ReceiveToken(r) PROVE IInv'
<1>0. /\ pc[r] = "answered"
      /\ expiresAt' = [expiresAt EXCEPT ![r] = now + grants[got[r]].life]
      /\ Goto(r, "select")
      /\ Session(r, TRUE)
      /\ UNCHANGED <<idpVars, dbVars, kind, acct, seen, redeem, got, answer,
                     during>>
  BY DEF ReceiveToken
<1>1. /\ got[r] \in Grant
      /\ Issued(acct[r], got[r])
      /\ now <= grants[got[r]].issued + MaxDelay
  BY <1>0 DEF IInv, Knowledge, Knows, TypeOK
<1>2. grants[got[r]] \in GrantInfo
  BY <1>1 DEF IInv, TypeOK, Issued
<1>3. /\ now \in Nat
      /\ MaxDelay \in Nat
      /\ grants[got[r]].life \in Nat
      /\ grants[got[r]].issued \in Nat
  BY <1>2, LifeAssumption, TimeAssumption DEF IInv, TypeOK, GrantInfo
<1>4. TypeOK'
  <2>1. now + grants[got[r]].life \in Nat
    BY <1>3
  <2> QED BY <1>0, <2>1 DEF IInv, TypeOK, Goto, Session
<1>5. Knows(r)'
  <2>1. pc'[r] = "select" /\ expiresAt'[r] = now + grants[got[r]].life
    BY <1>0 DEF IInv, TypeOK, Goto
  <2>2. (expiresAt[r] <= Expiry(got[r]) + MaxDelay)'
    <3>1. now + grants[got[r]].life
            <= (grants[got[r]].issued + grants[got[r]].life) + MaxDelay
      BY <1>1, <1>3
    <3> QED BY <1>0, <2>1, <3>1 DEF Expiry
  <2>3. got[r] # NoToken
    BY <1>0 DEF IInv, Knowledge, Knows
  <2>4. (seen[r] # NoRow => Backed(acct[r], seen[r]) /\ row[acct[r]] # NoRow)'
    BY <1>0 DEF IInv, Knowledge, Knows, Backed, Expiry
  <2>5. (redeem[r] # NoToken => Issued(acct[r], redeem[r]))'
    BY <1>0 DEF IInv, Knowledge, Knows, Issued
  <2> QED BY <1>0, <1>1, <2>1, <2>2, <2>3, <2>4, <2>5
          DEF Knows, Available, Issued
<1>6. ASSUME NEW q \in Request \ {r} PROVE Same(q)
  BY <1>0 DEF IInv, TypeOK, Goto, Same
<1> QED BY <1>0, <1>4, <1>5, <1>6, OnlyOwn

LEMMA SaveSelectInv ==
  ASSUME NEW r \in Request, IInv, SaveSelect(r) PROVE IInv'
<1>1. TypeOK'
  BY DEF IInv, TypeOK, SaveSelect, Goto
<1>2. Knows(r)'
  <2>1. (seen[r] # NoRow => Backed(acct[r], seen[r]) /\ row[acct[r]] # NoRow)'
    BY SelectKnows DEF SaveSelect
  <2>2. /\ pc[r] = "select"
        /\ pc'[r] = "flush"
        /\ UNCHANGED <<now, grants, acct, redeem, got, expiresAt>>
    BY DEF SaveSelect, Goto, IInv, TypeOK
  <2> QED BY <2>1, <2>2
          DEF IInv, Knowledge, Knows, Available, Issued, Expiry
<1>3. ASSUME NEW q \in Request \ {r} PROVE Same(q)
  BY DEF IInv, TypeOK, SaveSelect, Goto, Same
<1> QED BY <1>1, <1>2, <1>3, OnlyOwn DEF SaveSelect

LEMMA SaveFlushInv ==
  ASSUME NEW r \in Request, IInv, SaveFlush(r) PROVE IInv'
<1>1. CASE Reply(r, "error", NoToken) /\ UNCHANGED lock
  BY <1>1, ReplyInv DEF SaveFlush, Codes, IInv, TypeOK
<1>2. CASE /\ lock' = [lock EXCEPT ![acct[r]] = r]
           /\ Goto(r, "commit")
           /\ UNCHANGED <<kind, acct, seen, redeem, got, expiresAt, session,
                          answer, during>>
  <2>1. TypeOK'
    BY <1>2 DEF SaveFlush, IInv, TypeOK, Goto
  <2>2. Knows(r)'
    <3>1. pc[r] = "flush" /\ pc'[r] = "commit" /\ UNCHANGED <<idpVars, row>>
      BY <1>2 DEF SaveFlush, Goto, IInv, TypeOK
    <3> QED BY <1>2, <3>1
            DEF IInv, Knowledge, Knows, Available, Issued, Backed, Expiry
  <2>3. ASSUME NEW q \in Request \ {r} PROVE Same(q)
    BY <1>2 DEF IInv, TypeOK, Goto, Same
  <2> QED BY <2>1, <2>2, <2>3, OnlyOwn DEF SaveFlush
<1> QED BY <1>1, <1>2 DEF SaveFlush

\* Whatever the columns of an UPDATE are mixed from, the row is backed.
LEMMA WrittenBacked ==
  ASSUME NEW r \in Request, IInv, pc[r] = "commit"
  PROVE  /\ Written(r) \in Row
         /\ Written(r) # NoRow
         /\ Written(r).access = got[r]
         /\ Backed(acct[r], Written(r))
<1>1. /\ acct[r] \in Account
      /\ got[r] \in Grant
      /\ expiresAt[r] \in Nat
      /\ seen[r] \in Row \cup {NoRow}
      /\ row[acct[r]] \in Row \cup {NoRow}
  BY DEF IInv, Knowledge, Knows, TypeOK
<1>2. /\ Issued(acct[r], got[r])
      /\ expiresAt[r] <= Expiry(got[r]) + MaxDelay
      /\ seen[r] # NoRow => row[acct[r]] # NoRow
  BY DEF IInv, Knowledge, Knows
<1>3. grants[got[r]] \in GrantInfo
  BY <1>1, <1>2 DEF IInv, TypeOK, Issued
<1>4. /\ NewRefresh(r) \in Grant \cup {NoToken}
      /\ NewRefresh(r) # NoToken => Issued(acct[r], NewRefresh(r))
  BY <1>1, <1>2, <1>3
     DEF IInv, GrantsLinked, NewRefresh, GrantInfo, Issued
<1>5. row[acct[r]] # NoRow =>
        /\ row[acct[r]].refresh \in Grant \cup {NoToken}
        /\ row[acct[r]].refresh # NoToken =>
              Issued(acct[r], row[acct[r]].refresh)
  BY <1>1 DEF IInv, RowBacked, Backed, Issued, Row
<1>6. \E rt \in Grant \cup {NoToken} :
        /\ Written(r) = [access |-> got[r], refresh |-> rt,
                         expires |-> expiresAt[r]]
        /\ rt # NoToken => Issued(acct[r], rt)
  <2>1. CASE seen[r] = NoRow
    BY <1>4, <2>1 DEF Written
  <2>2. CASE seen[r] # NoRow /\ NewRefresh(r) = seen[r].refresh
    BY <1>2, <1>5, <2>2 DEF Written
  <2>3. CASE seen[r] # NoRow /\ NewRefresh(r) # seen[r].refresh
    BY <1>4, <2>3 DEF Written
  <2> QED BY <2>1, <2>2, <2>3
<1>7. Written(r) \in Row
  BY <1>1, <1>6 DEF Row
<1>8. Written(r) # NoRow
  BY <1>7, NullAssumption DEF Row
<1> QED BY <1>1, <1>2, <1>6, <1>7, <1>8 DEF Backed, Issued

LEMMA SaveCommitInv ==
  ASSUME NEW r \in Request, IInv, SaveCommit(r) PROVE IInv'
<1>0. /\ pc[r] = "commit"
      /\ row' = [row EXCEPT ![acct[r]] = Written(r)]
      /\ lock' = [lock EXCEPT ![acct[r]] = Nobody]
      /\ UNCHANGED idpVars
  BY DEF SaveCommit
<1>1. /\ Written(r) \in Row
      /\ Written(r) # NoRow
      /\ Backed(acct[r], Written(r))
  BY <1>0, WrittenBacked
<1>2. Grow /\ RowsStay
  BY <1>0, <1>1 DEF Grow, RowsStay, IInv, TypeOK
<1>3. PICK c \in Codes, t \in Token : Respond(r, c, t)
  BY DEF SaveCommit, Codes, IInv, TypeOK
<1>4. TypeOK'
  <2>1. row' \in [Account -> Row \cup {NoRow}]
    BY <1>0, <1>1 DEF IInv, TypeOK
  <2>2. lock' \in [Account -> Request \cup {Nobody}]
    BY <1>0 DEF IInv, TypeOK
  <2>3. during' \in [Request -> SUBSET (Row \cup {NoRow})]
    BY <1>1 DEF SaveCommit, IInv, TypeOK
  <2> QED BY <1>0, <1>3, <2>1, <2>2, <2>3, RespondType DEF IInv, TypeOK
<1>5. GrantsLinked'
  BY <1>0 DEF IInv, GrantsLinked, Issued
<1>6. RowBacked'
  <2> SUFFICES ASSUME NEW a \in Account, row'[a] # NoRow
               PROVE  Backed(a, row[a])'
    BY DEF RowBacked
  <2>1. CASE a = acct[r]
    <3>1. row'[a] = Written(r)
      BY <1>0, <2>1 DEF IInv, TypeOK
    <3> QED BY <1>0, <1>1, <2>1, <3>1 DEF Backed, Expiry
  <2>2. CASE a # acct[r]
    <3>1. row'[a] = row[a]
      BY <1>0, <2>2 DEF IInv, TypeOK
    <3> QED BY <1>0, <3>1 DEF IInv, RowBacked, Backed, Expiry
  <2> QED BY <2>1, <2>2
<1>7. Knowledge'
  BY <1>0, <1>2, <1>3, RespondKnows
<1> QED BY <1>4, <1>5, <1>6, <1>7 DEF IInv

LEMMA DatabaseFailsInv ==
  ASSUME NEW r \in Request, IInv, DatabaseFails(r) PROVE IInv'
<1>1. lock' \in [Account -> Request \cup {Nobody}]
  BY DEF DatabaseFails, IInv, TypeOK
<1> QED BY <1>1, ReplyInv DEF DatabaseFails, Codes

LEMMA TickInv ==
  ASSUME IInv, Tick PROVE IInv'
<1>1. now' = now + 1 /\ UNCHANGED <<grants, dbVars, reqVars, during>>
  BY DEF Tick
<1>2. TypeOK'
  <2>1. now' \in Nat
    BY <1>1 DEF IInv, TypeOK
  <2> QED BY <1>1, <2>1 DEF IInv, TypeOK
<1>3. Grow /\ RowsStay
  BY <1>1 DEF Grow, RowsStay
<1>4. GrantsLinked'
  BY <1>1 DEF IInv, GrantsLinked, Issued
<1>5. RowBacked'
  BY <1>1, <1>3, RowBackedStays DEF IInv
<1>6. ASSUME NEW q \in Request PROVE Knows(q)'
  <2>1. Same(q)
    BY <1>1 DEF Same
  <2>2. CASE pc[q] # "answered"
    BY <1>3, <2>1, <2>2, KnowsStays DEF IInv, Knowledge
  <2>3. CASE pc[q] = "answered"
    <3>1. got[q] \in Grant /\ grants[got[q]] \in GrantInfo
      BY <2>3 DEF IInv, Knowledge, Knows, Issued, TypeOK
    <3>2. now < grants[got[q]].issued + MaxDelay
      BY <2>3 DEF Tick
    <3>3. /\ now \in Nat
          /\ MaxDelay \in Nat
          /\ grants[got[q]].issued \in Nat
      BY <3>1, TimeAssumption DEF IInv, TypeOK, GrantInfo
    <3>4. now + 1 <= grants[got[q]].issued + MaxDelay
      BY <3>2, <3>3
    <3>5. (now <= grants[got[q]].issued + MaxDelay)'
      BY <1>1, <3>4
    <3>6. Knows(q)
      BY DEF IInv, Knowledge
    <3> QED BY <1>1, <2>3, <3>5, <3>6
            DEF Knows, Available, Issued, Backed, Expiry
  <2> QED BY <2>2, <2>3
<1> QED BY <1>2, <1>4, <1>5, <1>6 DEF IInv, Knowledge

LEMMA CrashInv ==
  ASSUME IInv, Crash PROVE IInv'
<1>1. TypeOK'
  BY DEF Crash, IInv, TypeOK
<1>2. GrantsLinked' /\ RowBacked'
  BY DEF Crash, IInv, GrantsLinked, RowBacked, Issued, Backed, Expiry
<1>3. ASSUME NEW q \in Request PROVE Knows(q)'
  <2>1. pc'[q] \in {"idle", "replied"} /\ seen'[q] = NoRow
          /\ redeem'[q] = NoToken
    BY DEF Crash, IInv, TypeOK
  <2> QED BY <2>1 DEF Knows, Available
<1> QED BY <1>1, <1>2, <1>3 DEF IInv, Knowledge

LEMMA InvNext == IInv /\ [Next]_vars => IInv'
<1> SUFFICES ASSUME IInv, [Next]_vars PROVE IInv'
  OBVIOUS
<1>1. ASSUME NEW r \in Request, Reject(r) PROVE IInv'
  BY <1>1, RejectInv
<1>2. ASSUME NEW r \in Request, NEW a \in Account, StartFetch(r, a) PROVE IInv'
  BY <1>2, AcceptInv DEF StartFetch
<1>3. ASSUME NEW r \in Request, NEW a \in Account, StartCallback(r, a)
      PROVE  IInv'
  BY <1>3, AcceptInv DEF StartCallback
<1>4. ASSUME NEW r \in Request, ReadRow(r) PROVE IInv'
  BY <1>4, ReadRowInv
<1>5. ASSUME NEW r \in Request, CheckToken(r) PROVE IInv'
  BY <1>5, CheckTokenInv
<1>6. ASSUME NEW r \in Request, ReadConfig(r) PROVE IInv'
  BY <1>6, ReadConfigInv
<1>7. ASSUME NEW r \in Request, IdpIssue(r) PROVE IInv'
  BY <1>7, IdpIssueInv
<1>8. ASSUME NEW r \in Request, ExchangeFails(r) PROVE IInv'
  BY <1>8, ExchangeFailsInv
<1>9. ASSUME NEW r \in Request, ReceiveToken(r) PROVE IInv'
  BY <1>9, ReceiveTokenInv
<1>10. ASSUME NEW r \in Request, SaveSelect(r) PROVE IInv'
  BY <1>10, SaveSelectInv
<1>11. ASSUME NEW r \in Request, SaveFlush(r) PROVE IInv'
  BY <1>11, SaveFlushInv
<1>12. ASSUME NEW r \in Request, SaveCommit(r) PROVE IInv'
  BY <1>12, SaveCommitInv
<1>13. ASSUME NEW r \in Request, DatabaseFails(r) PROVE IInv'
  BY <1>13, DatabaseFailsInv
<1>14. CASE Tick
  BY <1>14, TickInv
<1>15. CASE Crash
  BY <1>15, CrashInv
<1>16. CASE UNCHANGED vars
  BY <1>16 DEF vars, IInv, TypeOK, GrantsLinked, RowBacked, Knowledge, Knows,
               Available, Issued, Backed, Expiry
<1> QED BY <1>1, <1>2, <1>3, <1>4, <1>5, <1>6, <1>7, <1>8, <1>9, <1>10,
           <1>11, <1>12, <1>13, <1>14, <1>15, <1>16 DEF Next

\* The variables keep their types.
THEOREM TypeCorrect == Spec => []TypeOK
<1>1. IInv => TypeOK
  BY DEF IInv
<1> QED BY <1>1, InvInit, InvNext, PTL DEF Spec

\* What a row says is backed by Microsoft, however many handlers have written
\* columns of it (auth_repository.py:40-44).
THEOREM RowsAreBacked == Spec => []RowBacked
<1>1. IInv => RowBacked
  BY DEF IInv
<1> QED BY <1>1, InvInit, InvNext, PTL DEF Spec

-----------------------------------------------------------------------------
(* The row lock.                                                           *)

\* A handler that neither takes nor holds a row lock.
LEMMA LockUntouched ==
  ASSUME NEW r \in Request, TypeOK, OneWriterPerRow, lock' = lock,
         pc[r] # "commit", pc'[r] # "commit",
         \A q \in Request \ {r} : pc'[q] = pc[q] /\ acct'[q] = acct[q]
  PROVE  OneWriterPerRow'
  BY DEF TypeOK, OneWriterPerRow

\* A handler that answers while it holds no row lock.
LEMMA ReplyLock ==
  ASSUME NEW r \in Request, NEW c, NEW t, TypeOK, OneWriterPerRow,
         lock' = lock, pc[r] # "commit", Reply(r, c, t)
  PROVE  OneWriterPerRow'
<1>1. pc'[r] # "commit"
  BY DEF Reply, Respond, Goto, TypeOK
<1>2. \A q \in Request \ {r} : pc'[q] = pc[q] /\ acct'[q] = acct[q]
  BY DEF Reply, Respond, Goto, TypeOK
<1> QED BY <1>1, <1>2, LockUntouched

LEMMA OneWriterStep ==
  TypeOK /\ OneWriterPerRow /\ [Next]_vars => OneWriterPerRow'
<1> SUFFICES ASSUME TypeOK, OneWriterPerRow, [Next]_vars
             PROVE  OneWriterPerRow'
  OBVIOUS
<1>1. ASSUME NEW r \in Request, Reject(r) PROVE OneWriterPerRow'
  <2>1. PICK c \in {"badRequest", "error"} : Reply(r, c, NoToken)
    BY <1>1 DEF Reject
  <2> QED BY <1>1, <2>1, ReplyLock DEF Reject, Available
<1>2. ASSUME NEW r \in Request, NEW k, NEW a, NEW label \in {"read", "config"},
             Accept(r, k, a, label)
      PROVE  OneWriterPerRow'
  BY <1>2, LockUntouched DEF Accept, Available, Goto, TypeOK
<1>3. ASSUME NEW r \in Request,
             \/ ReadRow(r)
             \/ IdpIssue(r)
             \/ ReceiveToken(r)
             \/ SaveSelect(r)
      PROVE  OneWriterPerRow'
  BY <1>3, LockUntouched
     DEF ReadRow, IdpIssue, ReceiveToken, SaveSelect, Goto, TypeOK
<1>4. ASSUME NEW r \in Request, CheckToken(r) PROVE OneWriterPerRow'
  <2>1. pc[r] = "check" /\ lock' = lock
    BY <1>4 DEF CheckToken
  <2>2. \/ \E c \in Codes : \E t \in {NoToken, seen[r].access} : Reply(r, c, t)
        \/ Goto(r, "config") /\ UNCHANGED acct
    BY <1>4 DEF CheckToken, Codes
  <2>3. CASE Goto(r, "config") /\ UNCHANGED acct
    BY <2>1, <2>3, LockUntouched DEF Goto, TypeOK
  <2> QED BY <2>1, <2>2, <2>3, ReplyLock
<1>5. ASSUME NEW r \in Request, ReadConfig(r) PROVE OneWriterPerRow'
  <2>1. CASE Reply(r, "error", NoToken)
    BY <1>5, <2>1, ReplyLock DEF ReadConfig
  <2>2. CASE Goto(r, "post") /\ UNCHANGED acct
    BY <1>5, <2>2, LockUntouched DEF ReadConfig, Goto, TypeOK
  <2> QED BY <1>5, <2>1, <2>2 DEF ReadConfig
<1>6. ASSUME NEW r \in Request, ExchangeFails(r) PROVE OneWriterPerRow'
  <2>1. PICK c \in {"badGateway", "badRequest", "error"} : Reply(r, c, NoToken)
    BY <1>6 DEF ExchangeFails
  <2> QED BY <1>6, <2>1, ReplyLock DEF ExchangeFails
<1>7. ASSUME NEW r \in Request, SaveFlush(r) PROVE OneWriterPerRow'
  <2>1. CASE Reply(r, "error", NoToken) /\ UNCHANGED lock
    BY <1>7, <2>1, ReplyLock DEF SaveFlush
  <2>2. CASE /\ lock' = [lock EXCEPT ![acct[r]] = r]
             /\ Goto(r, "commit")
             /\ UNCHANGED acct
    <3>1. pc[r] = "flush" /\ lock[acct[r]] = Nobody
      BY <1>7 DEF SaveFlush
    <3>2. \A q \in Request : pc'[q] = "commit" => lock'[acct[q]] = q
      BY <2>2, <3>1, NullAssumption DEF Goto, TypeOK, OneWriterPerRow
    <3>3. \A a \in Account : lock'[a] # Nobody =>
              pc'[lock'[a]] = "commit" /\ acct[lock'[a]] = a
      BY <2>2, <3>1 DEF Goto, TypeOK, OneWriterPerRow
    <3> QED BY <2>2, <3>2, <3>3 DEF OneWriterPerRow
  <2> QED BY <1>7, <2>1, <2>2 DEF SaveFlush
<1>8. ASSUME NEW r \in Request, SaveCommit(r) PROVE OneWriterPerRow'
  <2>1. /\ pc[r] = "commit"
        /\ lock' = [lock EXCEPT ![acct[r]] = Nobody]
        /\ pc' = [pc EXCEPT ![r] = "replied"]
        /\ UNCHANGED acct
    BY <1>8 DEF SaveCommit, Respond, Goto
  <2>2. lock[acct[r]] = r
    BY <2>1 DEF OneWriterPerRow
  <2>3. \A q \in Request : pc'[q] = "commit" => lock'[acct[q]] = q
    BY <2>1, <2>2 DEF TypeOK, OneWriterPerRow
  <2>4. \A a \in Account : lock'[a] # Nobody =>
            pc'[lock'[a]] = "commit" /\ acct[lock'[a]] = a
    BY <2>1, <2>2 DEF TypeOK, OneWriterPerRow
  <2> QED BY <2>1, <2>3, <2>4 DEF OneWriterPerRow
<1>9. ASSUME NEW r \in Request, DatabaseFails(r) PROVE OneWriterPerRow'
  <2>1. /\ lock' = [a \in Account |-> IF lock[a] = r THEN Nobody ELSE lock[a]]
        /\ pc' = [pc EXCEPT ![r] = "replied"]
        /\ UNCHANGED acct
    BY <1>9 DEF DatabaseFails, Reply, Respond, Goto
  <2>2. \A q \in Request : pc'[q] = "commit" => lock'[acct[q]] = q
    BY <2>1 DEF TypeOK, OneWriterPerRow
  <2>3. \A a \in Account : lock'[a] # Nobody =>
            pc'[lock'[a]] = "commit" /\ acct[lock'[a]] = a
    BY <2>1 DEF TypeOK, OneWriterPerRow
  <2> QED BY <2>1, <2>2, <2>3 DEF OneWriterPerRow
<1>10. CASE Tick \/ UNCHANGED vars
  BY <1>10 DEF Tick, vars, OneWriterPerRow
<1>11. CASE Crash
  BY <1>11 DEF Crash, OneWriterPerRow, TypeOK
<1> QED BY <1>1, <1>2, <1>3, <1>4, <1>5, <1>6, <1>7, <1>8, <1>9, <1>10, <1>11
        DEF Next, StartFetch, StartCallback

\* Two transactions never both hold an uncommitted version of a row, and the
\* owner of a row lock is alive and about to commit (auth_repository.py:30-45).
THEOREM RowLocksAreOwned == Spec => []OneWriterPerRow
<1>1. Init => OneWriterPerRow
  BY DEF Init, OneWriterPerRow
<1> QED BY <1>1, OneWriterStep, TypeCorrect, PTL DEF Spec

-----------------------------------------------------------------------------
(* Sessions.                                                               *)

\* A handler that moves anywhere but into the exchange.
LEMMA SessionElsewhere ==
  ASSUME NEW r \in Request, TypeOK, NoSessionDuringExchange,
         pc'[r] \in {"post", "answered"} => ~session'[r],
         \A q \in Request \ {r} : pc'[q] = pc[q] /\ session'[q] = session[q]
  PROVE  NoSessionDuringExchange'
  BY DEF NoSessionDuringExchange

LEMMA ReplySession ==
  ASSUME NEW r \in Request, NEW c, NEW t, TypeOK, NoSessionDuringExchange,
         Respond(r, c, t)
  PROVE  NoSessionDuringExchange'
  BY SessionElsewhere DEF Respond, Goto, Session, TypeOK

LEMMA SessionStep ==
  TypeOK /\ NoSessionDuringExchange /\ [Next]_vars => NoSessionDuringExchange'
<1> SUFFICES ASSUME TypeOK, NoSessionDuringExchange, [Next]_vars
             PROVE  NoSessionDuringExchange'
  OBVIOUS
<1>1. ASSUME NEW r \in Request,
             \E c, t : Respond(r, c, t)
      PROVE  NoSessionDuringExchange'
  BY <1>1, ReplySession
<1>2. ASSUME NEW r \in Request, NEW k, NEW a, NEW label \in {"read", "config"},
             Accept(r, k, a, label)
      PROVE  NoSessionDuringExchange'
  BY <1>2, SessionElsewhere DEF Accept, Goto, Session, TypeOK
<1>3. ASSUME NEW r \in Request,
             ReadRow(r) \/ ReceiveToken(r) \/ SaveSelect(r)
      PROVE  NoSessionDuringExchange'
  BY <1>3, SessionElsewhere
     DEF ReadRow, ReceiveToken, SaveSelect, Goto, Session, TypeOK
<1>4. ASSUME NEW r \in Request, CheckToken(r) PROVE NoSessionDuringExchange'
  <2>1. CASE Goto(r, "config") /\ Session(r, TRUE)
    BY <2>1, SessionElsewhere DEF Goto, Session, TypeOK
  <2> QED BY <1>1, <1>4, <2>1 DEF CheckToken, Reply
<1>5. ASSUME NEW r \in Request, ReadConfig(r) PROVE NoSessionDuringExchange'
  <2>1. CASE Goto(r, "post") /\ Session(r, FALSE)
    BY <2>1, SessionElsewhere DEF Goto, Session, TypeOK
  <2> QED BY <1>1, <1>5, <2>1 DEF ReadConfig, Reply
<1>6. ASSUME NEW r \in Request, IdpIssue(r) PROVE NoSessionDuringExchange'
  BY <1>6, SessionElsewhere
     DEF IdpIssue, Goto, TypeOK, NoSessionDuringExchange
<1>7. ASSUME NEW r \in Request, SaveFlush(r) PROVE NoSessionDuringExchange'
  <2>1. CASE Goto(r, "commit") /\ UNCHANGED session
    BY <2>1, SessionElsewhere DEF Goto, TypeOK
  <2> QED BY <1>1, <1>7, <2>1 DEF SaveFlush, Reply
<1>8. CASE Tick \/ UNCHANGED vars
  BY <1>8 DEF Tick, vars, NoSessionDuringExchange
<1>9. CASE Crash
  BY <1>9 DEF Crash, NoSessionDuringExchange, TypeOK
<1> QED BY <1>1, <1>2, <1>3, <1>4, <1>5, <1>6, <1>7, <1>8, <1>9
        DEF Next, StartFetch, StartCallback, Reject, ExchangeFails, SaveCommit,
            DatabaseFails, Reply

\* No database session is open while Microsoft is being waited for
\* (database.py:89-90).
THEOREM SessionsAreShort == Spec => []NoSessionDuringExchange
<1>1. Init => NoSessionDuringExchange
  BY DEF Init, NoSessionDuringExchange
<1> QED BY <1>1, SessionStep, TypeCorrect, PTL DEF Spec

-----------------------------------------------------------------------------
(* Answers.                                                                *)

\* Only three kinds of step answer a running request: the decision on the row
\* that was read, the commit, and failures.
LEMMA Replies ==
  ASSUME TypeOK, [Next]_vars, NEW r \in Request,
         pc[r] \in Waiting, pc'[r] = "replied"
  PROVE  \/ CheckToken(r)
         \/ SaveCommit(r)
         \/ answer'[r].code \in {"badRequest", "badGateway", "error"}
<1>1. ASSUME NEW q \in Request, NEW c, NEW t, Reply(q, c, t),
             c \in {"badRequest", "badGateway", "error"}
      PROVE  answer'[r].code \in {"badRequest", "badGateway", "error"}
  <2>1. q = r
    BY <1>1 DEF Reply, Respond, Goto, TypeOK
  <2> QED BY <1>1, <2>1 DEF Reply, Respond, TypeOK
<1>2. ASSUME NEW q \in Request, NEW label \in Waiting, Goto(q, label)
      PROVE  FALSE
  BY <1>2 DEF Goto, TypeOK
<1>3. ASSUME NEW q \in Request, CheckToken(q) PROVE CheckToken(r)
  <2>1. CASE \E c, t : Reply(q, c, t)
    BY <1>3, <2>1 DEF Reply, Respond, Goto, TypeOK
  <2> QED BY <1>2, <1>3, <2>1 DEF CheckToken
<1>4. ASSUME NEW q \in Request, SaveCommit(q) PROVE SaveCommit(r)
  <2>1. pc' = [pc EXCEPT ![q] = "replied"]
    BY <1>4 DEF SaveCommit, Respond, Goto
  <2>2. q = r
    BY <2>1 DEF TypeOK
  <2> QED BY <1>4, <2>2
<1>5. ASSUME NEW q \in Request, Reject(q) \/ ExchangeFails(q)
      PROVE  answer'[r].code \in {"badRequest", "badGateway", "error"}
  BY <1>1, <1>5 DEF Reject, ExchangeFails
<1>6. ASSUME NEW q \in Request, ReadConfig(q) \/ SaveFlush(q) \/ DatabaseFails(q)
      PROVE  answer'[r].code \in {"badRequest", "badGateway", "error"}
  BY <1>1, <1>2, <1>6 DEF ReadConfig, SaveFlush, DatabaseFails
<1>7. ASSUME NEW q \in Request,
             \/ \E a \in Account : StartFetch(q, a) \/ StartCallback(q, a)
             \/ ReadRow(q)
             \/ IdpIssue(q)
             \/ ReceiveToken(q)
             \/ SaveSelect(q)
      PROVE  FALSE
  BY <1>2, <1>7 DEF StartFetch, StartCallback, Accept, ReadRow, IdpIssue,
                    ReceiveToken, SaveSelect
<1>8. CASE Tick \/ Crash \/ UNCHANGED vars
  BY <1>8 DEF Tick, Crash, vars, TypeOK
<1> QED BY <1>3, <1>4, <1>5, <1>6, <1>7, <1>8 DEF Next

\* A token answered from a row is still accepted by Microsoft.
LEMMA FreshIsLive ==
  ASSUME NEW r \in Request, IInv, seen[r] # NoRow, Fresh(seen[r])
  PROVE  now < Expiry(seen[r].access)
<1>1. /\ seen[r] \in Row
      /\ grants[seen[r].access] # NoToken
      /\ seen[r].expires <= Expiry(seen[r].access) + MaxDelay
  BY DEF IInv, TypeOK, Knowledge, Knows, Backed
<1>2. grants[seen[r].access] \in GrantInfo
  BY <1>1 DEF IInv, TypeOK, Row
<1>3. /\ Expiry(seen[r].access) \in Nat
      /\ seen[r].expires \in Nat
      /\ now \in Nat
      /\ Buffer \in Nat
      /\ MaxDelay \in Nat
  <2>1. grants[seen[r].access].issued \in Nat
    BY <1>2 DEF GrantInfo
  <2>2. grants[seen[r].access].life \in Nat
    BY <1>2, LifeAssumption DEF GrantInfo
  <2>3. Expiry(seen[r].access) \in Nat
    BY <2>1, <2>2 DEF Expiry
  <2> QED BY <1>1, <2>3, TimeAssumption DEF Row, IInv, TypeOK
<1>4. now + Buffer < seen[r].expires
  BY DEF Fresh
<1>5. MaxDelay <= Buffer
  BY DelayAssumption
<1> QED BY <1>1, <1>3, <1>4, <1>5

LEMMA LiveStep ==
  IInv /\ [Next]_vars =>
    \A r \in Request :
      pc[r] = "check" /\ pc'[r] = "replied" /\ answer'[r].code = "ok"
        => now < Expiry(answer'[r].token)
<1> SUFFICES ASSUME IInv, [Next]_vars, NEW r \in Request, pc[r] = "check",
                    pc'[r] = "replied", answer'[r].code = "ok"
             PROVE  now < Expiry(answer'[r].token)
  OBVIOUS
<1>1. CheckToken(r)
  BY Replies DEF IInv, SaveCommit
<1>2. ASSUME NEW c \in Codes, NEW t, Reply(r, c, t)
      PROVE  answer'[r].code = c /\ answer'[r].token = t
  BY <1>2 DEF Reply, Respond, IInv, TypeOK
<1>3. /\ seen[r] # NoRow
      /\ Fresh(seen[r])
      /\ Reply(r, "ok", seen[r].access)
  <2>1. ~ Goto(r, "config")
    BY DEF Goto, IInv, TypeOK
  <2>2. ~ Reply(r, "noConsent", NoToken) /\ ~ Reply(r, "noRefresh", NoToken)
    BY <1>2 DEF Codes
  <2> QED BY <1>1, <2>1, <2>2 DEF CheckToken
<1>4. answer'[r].token = seen[r].access
  BY <1>2, <1>3 DEF Codes
<1> QED BY <1>3, <1>4, FreshIsLive

\* A token answered out of the table is one Microsoft still accepts, although
\* its expires_at was computed late (delegated_auth_service.py:158, 279).
THEOREM AnsweredTokensLive == Spec => AnswersOnlyLiveTokens
<1>1. IInv /\ [Next]_vars =>
        [\A r \in Request :
           pc[r] = "check" /\ pc'[r] = "replied" /\ answer'[r].code = "ok"
             => now < Expiry(answer'[r].token)]_vars
  BY LiveStep
<1> QED BY <1>1, InvInit, InvNext, PTL DEF Spec, AnswersOnlyLiveTokens

-----------------------------------------------------------------------------
(* Answers and committed rows.                                             *)

\* The history holds the row as it is and the row a handler has read.
History ==
    \A r \in Request :
        /\ pc[r] \in Waiting => row[acct[r]] \in during[r]
        /\ pc[r] = "check" => seen[r] \in during[r]

\* A step of one handler that writes no row.
LEMMA HistoryLocal ==
  ASSUME NEW r \in Request, TypeOK, History, UNCHANGED row,
         pc'[r] \in Waiting => row[acct'[r]] \in during'[r],
         pc'[r] = "check" => seen'[r] \in during'[r],
         \A q \in Request \ {r} :
            /\ pc'[q] = pc[q]
            /\ acct'[q] = acct[q]
            /\ seen'[q] = seen[q]
            /\ during'[q] = during[q]
  PROVE  History'
<1>1. ASSUME NEW q \in Request
      PROVE  /\ pc'[q] \in Waiting => row'[acct'[q]] \in during'[q]
             /\ pc'[q] = "check" => seen'[q] \in during'[q]
  BY <1>1 DEF History
<1> QED BY <1>1 DEF History

LEMMA ReplyHistory ==
  ASSUME NEW r \in Request, NEW c, NEW t, TypeOK, History, Reply(r, c, t),
         UNCHANGED row
  PROVE  History'
<1>1. pc'[r] = "replied"
  BY DEF Reply, Respond, Goto, TypeOK
<1>2. \A q \in Request \ {r} :
        /\ pc'[q] = pc[q]
        /\ acct'[q] = acct[q]
        /\ seen'[q] = seen[q]
        /\ during'[q] = during[q]
  BY DEF Reply, Respond, Goto, TypeOK
<1> QED BY <1>1, <1>2, HistoryLocal

\* A handler that goes on and does not read the row.
LEMMA GotoHistory ==
  ASSUME NEW r \in Request, NEW label \in Waiting \ {"check"}, TypeOK, History,
         pc[r] \in Waiting, Goto(r, label), UNCHANGED <<row, acct, during>>,
         \A q \in Request \ {r} : seen'[q] = seen[q]
  PROVE  History'
<1>1. pc'[r] = label /\ \A q \in Request \ {r} : pc'[q] = pc[q]
  BY DEF Goto, TypeOK
<1>2. row[acct'[r]] \in during'[r]
  BY DEF History
<1> QED BY <1>1, <1>2, HistoryLocal

LEMMA HistoryStep == TypeOK /\ History /\ [Next]_vars => History'
<1> SUFFICES ASSUME TypeOK, History, [Next]_vars PROVE History'
  OBVIOUS
<1>1. ASSUME NEW r \in Request, UNCHANGED row, \E c, t : Reply(r, c, t)
      PROVE  History'
  BY <1>1, ReplyHistory
<1>2. ASSUME NEW r \in Request, NEW k, NEW a \in Account,
             NEW label \in {"read", "config"}, Accept(r, k, a, label)
      PROVE  History'
  <2>1. /\ pc' = [pc EXCEPT ![r] = label]
        /\ acct' = [acct EXCEPT ![r] = a]
        /\ during' = [during EXCEPT ![r] = {row[a]}]
        /\ UNCHANGED <<row, seen>>
    BY <1>2 DEF Accept, Goto
  <2>2. pc'[r] # "check" /\ row[acct'[r]] \in during'[r]
    BY <2>1 DEF TypeOK
  <2>3. \A q \in Request \ {r} :
          pc'[q] = pc[q] /\ acct'[q] = acct[q] /\ during'[q] = during[q]
    BY <2>1 DEF TypeOK
  <2> QED BY <2>1, <2>2, <2>3, HistoryLocal
<1>3. ASSUME NEW r \in Request, ReadRow(r) PROVE History'
  <2>1. /\ pc[r] = "read"
        /\ pc' = [pc EXCEPT ![r] = "check"]
        /\ seen' = [seen EXCEPT ![r] = row[acct[r]]]
        /\ UNCHANGED <<row, acct, during>>
    BY <1>3 DEF ReadRow, Goto
  <2>2. row[acct[r]] \in during[r] /\ seen'[r] = row[acct[r]]
    BY <2>1 DEF History, TypeOK
  <2>3. \A q \in Request \ {r} : pc'[q] = pc[q] /\ seen'[q] = seen[q]
    BY <2>1 DEF TypeOK
  <2> QED BY <2>1, <2>2, <2>3, HistoryLocal
<1>4. ASSUME NEW r \in Request, CheckToken(r) PROVE History'
  <2>1. CASE /\ seen' = [seen EXCEPT ![r] = NoRow]
             /\ Goto(r, "config")
             /\ UNCHANGED <<acct, during>>
    <3>1. \A q \in Request \ {r} : seen'[q] = seen[q]
      BY <2>1 DEF TypeOK
    <3> QED BY <1>4, <2>1, <3>1, GotoHistory DEF CheckToken
  <2> QED BY <1>1, <1>4, <2>1 DEF CheckToken
<1>5. ASSUME NEW r \in Request, ReadConfig(r) PROVE History'
  <2>1. CASE Goto(r, "post") /\ UNCHANGED <<acct, seen, during>>
    BY <1>5, <2>1, GotoHistory DEF ReadConfig
  <2> QED BY <1>1, <1>5, <2>1 DEF ReadConfig
<1>6. ASSUME NEW r \in Request, IdpIssue(r) \/ ReceiveToken(r) PROVE History'
  BY <1>6, GotoHistory DEF IdpIssue, ReceiveToken
<1>7. ASSUME NEW r \in Request, SaveSelect(r) PROVE History'
  <2>1. \A q \in Request \ {r} : seen'[q] = seen[q]
    BY <1>7 DEF SaveSelect, TypeOK
  <2> QED BY <1>7, <2>1, GotoHistory DEF SaveSelect
<1>8. ASSUME NEW r \in Request, SaveFlush(r) PROVE History'
  <2>1. CASE Goto(r, "commit") /\ UNCHANGED <<acct, seen, during>>
    BY <1>8, <2>1, GotoHistory DEF SaveFlush
  <2> QED BY <1>1, <1>8, <2>1 DEF SaveFlush
<1>9. ASSUME NEW r \in Request, SaveCommit(r) PROVE History'
  <2>1. /\ row' = [row EXCEPT ![acct[r]] = Written(r)]
        /\ pc' = [pc EXCEPT ![r] = "replied"]
        /\ seen' = [seen EXCEPT ![r] = NoRow]
        /\ UNCHANGED acct
        /\ during' = [q \in Request |->
                        IF q = r THEN {}
                        ELSE IF pc[q] \in Waiting /\ acct[q] = acct[r]
                        THEN during[q] \cup {Written(r)}
                        ELSE during[q]]
    BY <1>9 DEF SaveCommit, Respond, Goto
  <2>2. ASSUME NEW q \in Request, pc'[q] \in Waiting
        PROVE  row'[acct'[q]] \in during'[q]
    <3>1. q # r /\ pc[q] \in Waiting /\ row[acct[q]] \in during[q]
      BY <2>1, <2>2 DEF TypeOK, History
    <3>2. CASE acct[q] = acct[r]
      BY <2>1, <3>1, <3>2 DEF TypeOK
    <3>3. CASE acct[q] # acct[r]
      BY <2>1, <3>1, <3>3 DEF TypeOK
    <3> QED BY <3>2, <3>3
  <2>3. ASSUME NEW q \in Request, pc'[q] = "check"
        PROVE  seen'[q] \in during'[q]
    BY <2>1, <2>3 DEF TypeOK, History
  <2> QED BY <2>2, <2>3 DEF History
<1>10. CASE Tick \/ UNCHANGED vars
  BY <1>10 DEF Tick, vars, History
<1>11. CASE Crash
  BY <1>11 DEF Crash, TypeOK, History
<1>12. ASSUME NEW r \in Request, Reject(r) \/ ExchangeFails(r) \/ DatabaseFails(r)
       PROVE  History'
  BY <1>1, <1>12 DEF Reject, ExchangeFails, DatabaseFails
<1> QED BY <1>2, <1>3, <1>4, <1>5, <1>6, <1>7, <1>8, <1>9, <1>10, <1>11, <1>12
        DEF Next, StartFetch, StartCallback

LEMMA MatchStep ==
  IInv /\ History /\ [Next]_vars =>
    \A r \in Request :
      pc[r] \in Waiting /\ pc'[r] = "replied" => Justified(r, answer'[r])
<1> SUFFICES ASSUME IInv, History, [Next]_vars, NEW r \in Request,
                    pc[r] \in Waiting, pc'[r] = "replied"
             PROVE  Justified(r, answer'[r])
  OBVIOUS
<1>1. CASE answer'[r].code \in {"badRequest", "badGateway", "error"}
  BY <1>1 DEF Justified
<1>2. CASE CheckToken(r)
  <2>1. seen[r] \in Versions(r)
    BY <1>2 DEF CheckToken, History, Versions
  <2>2. ASSUME NEW c \in Codes, NEW t, Reply(r, c, t)
        PROVE  answer'[r].code = c /\ answer'[r].token = t
    BY <2>2 DEF Reply, Respond, IInv, TypeOK
  <2>3. ~ Goto(r, "config")
    BY DEF Goto, IInv, TypeOK
  <2>4. \/ seen[r] = NoRow /\ Reply(r, "noConsent", NoToken)
        \/ seen[r] # NoRow /\ Reply(r, "ok", seen[r].access)
        \/ seen[r] # NoRow /\ seen[r].refresh = NoToken
             /\ Reply(r, "noRefresh", NoToken)
    BY <1>2, <2>3 DEF CheckToken
  <2>5. CASE seen[r] = NoRow /\ Reply(r, "noConsent", NoToken)
    <3>1. answer'[r].code = "noConsent"
      BY <2>2, <2>5 DEF Codes
    <3> QED BY <2>1, <2>5, <3>1 DEF Justified
  <2>6. CASE seen[r] # NoRow /\ Reply(r, "ok", seen[r].access)
    <3>1. answer'[r].code = "ok" /\ answer'[r].token = seen[r].access
      BY <2>2, <2>6 DEF Codes
    <3> QED BY <2>1, <2>6, <3>1 DEF Justified
  <2>7. CASE seen[r] # NoRow /\ seen[r].refresh = NoToken
               /\ Reply(r, "noRefresh", NoToken)
    <3>1. answer'[r].code = "noRefresh"
      BY <2>2, <2>7 DEF Codes
    <3> QED BY <2>1, <2>7, <3>1 DEF Justified
  <2> QED BY <2>4, <2>5, <2>6, <2>7
<1>3. CASE SaveCommit(r)
  <2>1. pc[r] = "commit" /\ row' = [row EXCEPT ![acct[r]] = Written(r)]
    BY <1>3 DEF SaveCommit
  <2>2. Written(r) # NoRow /\ Written(r).access = got[r]
    BY <2>1, WrittenBacked
  <2>3. Written(r) \in Versions(r)
    BY <1>3, <2>1 DEF Versions, IInv, TypeOK, SaveCommit, Respond
  <2>4. \/ answer'[r].code = "ok" /\ answer'[r].token = got[r]
        \/ answer'[r].code = "error"
    <3>1. ASSUME NEW c \in Codes, NEW t, Respond(r, c, t)
          PROVE  answer'[r].code = c /\ answer'[r].token = t
      BY <3>1 DEF Respond, IInv, TypeOK
    <3> QED BY <1>3, <3>1 DEF SaveCommit, Codes
  <2> QED BY <2>2, <2>3, <2>4 DEF Justified
<1> QED BY <1>1, <1>2, <1>3, Replies DEF IInv

\* Every answer agrees with a version of the row that was committed between
\* the arrival of the request and its answer
\* (delegated_auth_service.py:186, 270-309).
THEOREM AnswersAgree == Spec => AnswersMatchRow
<1>1. Init => History
  BY DEF Init, History
<1>2. IInv /\ History /\ [Next]_vars =>
        [\A r \in Request :
           pc[r] \in Waiting /\ pc'[r] = "replied"
             => Justified(r, answer'[r])]_vars
  BY MatchStep
<1>3. IInv => TypeOK
  BY DEF IInv
<1> QED BY <1>1, <1>2, <1>3, HistoryStep, InvInit, InvNext, PTL
        DEF Spec, AnswersMatchRow

-----------------------------------------------------------------------------
(* An INSERT replaces nothing.                                             *)

\* While an INSERT is uncommitted nobody else commits a row of its account.
InsertAlone ==
    \A r \in Request :
        pc[r] = "commit" /\ seen[r] = NoRow => row[acct[r]] = NoRow

\* A step that writes no row and takes no row lock.
LEMMA InsertUntouched ==
  ASSUME NEW r \in Request, TypeOK, InsertAlone, UNCHANGED row,
         pc'[r] # "commit",
         \A q \in Request \ {r} :
            pc'[q] = pc[q] /\ acct'[q] = acct[q] /\ seen'[q] = seen[q]
  PROVE  InsertAlone'
  BY DEF InsertAlone

LEMMA RespondInsert ==
  ASSUME NEW r \in Request, NEW c, NEW t, TypeOK, InsertAlone, UNCHANGED row,
         Respond(r, c, t)
  PROVE  InsertAlone'
  BY InsertUntouched DEF Respond, Goto, TypeOK

LEMMA InsertStep ==
  TypeOK /\ OneWriterPerRow /\ InsertAlone /\ [Next]_vars => InsertAlone'
<1> SUFFICES ASSUME TypeOK, OneWriterPerRow, InsertAlone, [Next]_vars
             PROVE  InsertAlone'
  OBVIOUS
<1>1. ASSUME NEW r \in Request, UNCHANGED row, \E c, t : Reply(r, c, t)
      PROVE  InsertAlone'
  BY <1>1, RespondInsert DEF Reply
<1>2. ASSUME NEW r \in Request, NEW k, NEW a, NEW label \in {"read", "config"},
             Accept(r, k, a, label)
      PROVE  InsertAlone'
  BY <1>2, InsertUntouched DEF Accept, Goto, TypeOK
<1>3. ASSUME NEW r \in Request,
             \/ ReadRow(r)
             \/ IdpIssue(r)
             \/ ReceiveToken(r)
             \/ SaveSelect(r)
      PROVE  InsertAlone'
  BY <1>3, InsertUntouched
     DEF ReadRow, IdpIssue, ReceiveToken, SaveSelect, Goto, TypeOK
<1>4. ASSUME NEW r \in Request, CheckToken(r) PROVE InsertAlone'
  <2>1. CASE /\ seen' = [seen EXCEPT ![r] = NoRow]
             /\ Goto(r, "config")
             /\ UNCHANGED acct
    BY <1>4, <2>1, InsertUntouched DEF CheckToken, Goto, TypeOK
  <2> QED BY <1>1, <1>4, <2>1 DEF CheckToken
<1>5. ASSUME NEW r \in Request, ReadConfig(r) PROVE InsertAlone'
  <2>1. CASE Goto(r, "post") /\ UNCHANGED <<acct, seen>>
    BY <1>5, <2>1, InsertUntouched DEF ReadConfig, Goto, TypeOK
  <2> QED BY <1>1, <1>5, <2>1 DEF ReadConfig
<1>6. ASSUME NEW r \in Request, SaveFlush(r) PROVE InsertAlone'
  <2>1. CASE ~Conflict(r) /\ Goto(r, "commit") /\ UNCHANGED <<acct, seen>>
    BY <1>6, <2>1 DEF SaveFlush, Conflict, Goto, TypeOK, InsertAlone
  <2> QED BY <1>1, <1>6, <2>1 DEF SaveFlush
<1>7. ASSUME NEW r \in Request, SaveCommit(r) PROVE InsertAlone'
  <2>1. /\ pc[r] = "commit"
        /\ row' = [row EXCEPT ![acct[r]] = Written(r)]
        /\ pc' = [pc EXCEPT ![r] = "replied"]
        /\ seen' = [seen EXCEPT ![r] = NoRow]
        /\ UNCHANGED acct
    BY <1>7 DEF SaveCommit, Respond, Goto
  <2> SUFFICES ASSUME NEW q \in Request, pc'[q] = "commit", seen'[q] = NoRow
               PROVE  row'[acct'[q]] = NoRow
    BY DEF InsertAlone
  <2>2. q # r /\ pc[q] = "commit" /\ seen[q] = NoRow
    BY <2>1 DEF TypeOK
  <2>3. acct[q] # acct[r]
    BY <2>1, <2>2 DEF OneWriterPerRow
  <2> QED BY <2>1, <2>2, <2>3 DEF InsertAlone, TypeOK
<1>8. CASE Tick \/ UNCHANGED vars
  BY <1>8 DEF Tick, vars, InsertAlone
<1>9. CASE Crash
  BY <1>9 DEF Crash, TypeOK, InsertAlone
<1>10. ASSUME NEW r \in Request, Reject(r) \/ ExchangeFails(r) \/ DatabaseFails(r)
       PROVE  InsertAlone'
  BY <1>1, <1>10 DEF Reject, ExchangeFails, DatabaseFails
<1> QED BY <1>2, <1>3, <1>4, <1>5, <1>6, <1>7, <1>8, <1>9, <1>10
        DEF Next, StartFetch, StartCallback

LEMMA InsertNeverStep ==
  TypeOK /\ InsertAlone /\ [Next]_vars =>
    \A r \in Request, a \in Account :
      pc[r] = "commit" /\ pc'[r] = "replied" /\ acct[r] = a
        /\ row'[a] # row[a] /\ row[a] # NoRow
      => seen[r] # NoRow
  BY DEF InsertAlone

\* Of handlers that all found no row one inserts and the others fail
\* (auth_repository.py:31-35).
THEOREM InsertsReplaceNothing == Spec => InsertNeverReplaces
<1>1. Init => InsertAlone /\ OneWriterPerRow
  BY DEF Init, InsertAlone, OneWriterPerRow
<1>2. TypeOK /\ InsertAlone /\ [Next]_vars =>
        [\A r \in Request, a \in Account :
           pc[r] = "commit" /\ pc'[r] = "replied" /\ acct[r] = a
             /\ row'[a] # row[a] /\ row[a] # NoRow
           => seen[r] # NoRow]_vars
  BY InsertNeverStep
<1>3. IInv => TypeOK
  BY DEF IInv
<1> QED BY <1>1, <1>2, <1>3, InsertStep, OneWriterStep, InvInit, InvNext, PTL
        DEF Spec, InsertNeverReplaces

-----------------------------------------------------------------------------
(* The abstract store.                                                     *)

\* A committed row is mapped to a row of the store, and no row to none.
LEMMA StoredFacts ==
  ASSUME NEW w \in Row \cup {NoRow}
  PROVE  /\ w = NoRow <=> Stored(w) = NoRow
         /\ w # NoRow => /\ Stored(w) \in Store!Row
                        /\ Stored(w).access = w.access
                        /\ Stored(w).refresh = w.refresh
<1>1. ASSUME w # NoRow
      PROVE  /\ Stored(w) \in Store!Row
             /\ Stored(w).access = w.access
             /\ Stored(w).refresh = w.refresh
  BY <1>1 DEF Stored, Row, Store!Row
<1>2. NoRow \notin Store!Row
  BY NullAssumption DEF Store!Row
<1> QED BY <1>1, <1>2 DEF Stored

\* A step of one handler changes the phase and the view of that handler only.
LEMMA OneHandler ==
  ASSUME NEW r \in Request,
         \A q \in Request \ {r} : Phase(q)' = Phase(q) /\ View(q)' = View(q)
  PROVE  /\ [q \in Request |-> Phase(q)]' =
              [[q \in Request |-> Phase(q)] EXCEPT ![r] = Phase(r)']
         /\ [q \in Request |-> View(q)]' =
              [[q \in Request |-> View(q)] EXCEPT ![r] = View(r)']
  OBVIOUS

\* Where a handler goes on to, what is made of that by the mapping.
LEMMA GotoMapped ==
  ASSUME TypeOK, NEW r \in Request, NEW label, Goto(r, label),
         \A q \in Request \ {r} : seen'[q] = seen[q]
  PROVE  /\ pc'[r] = label
         /\ \A q \in Request \ {r} : Phase(q)' = Phase(q) /\ View(q)' = View(q)
  BY DEF TypeOK, Goto, Phase, View, Available, Stored

\* Two states with the same grants or rows are mapped to the same.
LEMMA SharedMapped ==
  /\ grants' = grants => [g \in Grant |-> Owner(g)]' = [g \in Grant |-> Owner(g)]
  /\ row' = row =>
        [a \in Account |-> Stored(row[a])]' = [a \in Account |-> Stored(row[a])]
  BY DEF Owner

\* A handler that answers ends the request of the store.
LEMMA RespondMapped ==
  ASSUME TypeOK, NEW r \in Request, NEW c, NEW t, Respond(r, c, t),
         grants' = grants
  PROVE  Store!Answer(r, c, t)
<1>1. Goto(r, "replied") /\ \A q \in Request \ {r} : seen'[q] = seen[q]
  BY DEF Respond, TypeOK
<1>2. Phase(r)' = "idle" /\ View(r)' = NoRow
  BY <1>1, GotoMapped DEF Phase, View, Available
<1>3. answer' = [answer EXCEPT ![r] = [code |-> c, token |-> t]] /\ acct' = acct
  BY DEF Respond
<1> QED BY <1>1, <1>2, <1>3, GotoMapped, OneHandler, SharedMapped
        DEF Store!Answer

\* A failure is a failure of the store.
LEMMA FailMapped ==
  ASSUME TypeOK, NEW r \in Request, NEW c \in {"badRequest", "badGateway", "error"},
         Reply(r, c, NoToken), grants' = grants, row' = row
  PROVE  Store!Fail(r)
<1>1. Store!Answer(r, c, NoToken)
  BY RespondMapped DEF Reply
<1>2. c \in Store!Failures
  BY DEF Store!Failures
<1> QED BY <1>1, <1>2, SharedMapped DEF Store!Fail

\* A handler that goes on from one await to the next without having looked at
\* its row to decide: nothing of it shows in the store.
LEMMA GoOnMapped ==
  ASSUME TypeOK, NEW r \in Request, NEW label, Goto(r, label),
         pc[r] \in Waiting \ {"check"}, label \in Waiting \ {"check"},
         \A q \in Request \ {r} : seen'[q] = seen[q],
         UNCHANGED <<grants, row, acct, answer>>
  PROVE  UNCHANGED Store!vars
<1>1. Phase(r)' = Phase(r) /\ View(r)' = View(r)
  BY GotoMapped DEF Phase, View, Available
<1>2. /\ [q \in Request |-> Phase(q)]' = [q \in Request |-> Phase(q)]
      /\ [q \in Request |-> View(q)]' = [q \in Request |-> View(q)]
  BY <1>1, GotoMapped
<1> QED BY <1>2, SharedMapped DEF Store!vars

LEMMA AcceptMapped ==
  ASSUME TypeOK, NEW r \in Request, NEW a \in Account, NEW k,
         NEW label \in {"read", "config"}, Accept(r, k, a, label)
  PROVE  Store!Ask(r, a)
<1>1. /\ Goto(r, label) /\ seen' = seen /\ Available(r)
      /\ grants' = grants /\ row' = row
      /\ acct' = [acct EXCEPT ![r] = a]
      /\ answer' = [answer EXCEPT ![r] = NoAnswer]
  BY DEF Accept
<1>2. /\ Phase(r) = "idle" /\ Phase(r)' = "asked"
      /\ View(r) = NoRow /\ View(r)' = NoRow
  BY <1>1, GotoMapped DEF Phase, View, Available
<1>3. [q \in Request |-> View(q)]' = [q \in Request |-> View(q)]
  BY <1>1, <1>2, GotoMapped
<1>4. Store!NoAnswer = NoAnswer
  BY DEF Store!NoAnswer, NoAnswer
<1> QED BY <1>1, <1>2, <1>3, <1>4, GotoMapped, OneHandler, SharedMapped
        DEF Store!Ask

LEMMA ReadRowMapped ==
  ASSUME TypeOK, NEW r \in Request, ReadRow(r) PROVE Store!Look(r)
<1>1. /\ pc[r] = "read" /\ Goto(r, "check")
      /\ seen' = [seen EXCEPT ![r] = row[acct[r]]]
      /\ UNCHANGED <<grants, row, acct, answer>>
  BY DEF ReadRow
<1>2. acct[r] \in Account /\ seen'[r] = row[acct[r]]
      /\ \A q \in Request \ {r} : seen'[q] = seen[q]
  BY <1>1 DEF TypeOK
<1>3. /\ Phase(r) = "asked" /\ Phase(r)' = "looked"
      /\ View(r)' = [a \in Account |-> Stored(row[a])][acct[r]]
  BY <1>1, <1>2, GotoMapped DEF Phase, View, Available, Stored
<1> QED BY <1>1, <1>2, <1>3, GotoMapped, OneHandler, SharedMapped
        DEF Store!Look

LEMMA CheckTokenMapped ==
  ASSUME TypeOK, NEW r \in Request, CheckToken(r)
  PROVE  Store!Tell(r) \/ Store!Renew(r)
<1>1. pc[r] = "check" /\ seen[r] \in Row \cup {NoRow}
      /\ UNCHANGED <<grants, row>>
  BY DEF CheckToken, TypeOK
<1>2. Phase(r) = "looked" /\ View(r) = Stored(seen[r])
  BY <1>1 DEF Phase, View, Available
<1>3. CASE seen[r] = NoRow /\ Reply(r, "noConsent", NoToken)
  <2>1. Store!Answer(r, "noConsent", NoToken)
    BY <1>1, <1>3, RespondMapped DEF Reply
  <2> QED BY <1>1, <1>2, <1>3, <2>1, StoredFacts, SharedMapped DEF Store!Tell
<1>4. CASE seen[r] # NoRow /\ Reply(r, "ok", seen[r].access)
  <2>1. Store!Answer(r, "ok", seen[r].access)
    BY <1>1, <1>4, RespondMapped DEF Reply
  <2> QED BY <1>1, <1>2, <1>4, <2>1, StoredFacts, SharedMapped DEF Store!Tell
<1>5. CASE /\ seen[r] # NoRow /\ seen[r].refresh = NoToken
           /\ Reply(r, "noRefresh", NoToken)
  <2>1. Store!Answer(r, "noRefresh", NoToken)
    BY <1>1, <1>5, RespondMapped DEF Reply
  <2> QED BY <1>1, <1>2, <1>5, <2>1, StoredFacts, SharedMapped DEF Store!Tell
<1>6. CASE /\ seen' = [seen EXCEPT ![r] = NoRow]
           /\ Goto(r, "config")
           /\ UNCHANGED <<acct, answer>>
  <2>1. \A q \in Request \ {r} : seen'[q] = seen[q]
    BY <1>6 DEF TypeOK
  <2>2. Phase(r)' = "asked" /\ View(r)' = NoRow
    BY <1>6, <2>1, GotoMapped DEF Phase, View, Available
  <2> QED BY <1>1, <1>2, <1>6, <2>1, <2>2, GotoMapped, OneHandler, SharedMapped
          DEF Store!Renew
<1> QED BY <1>3, <1>4, <1>5, <1>6 DEF CheckToken

LEMMA IdpIssueMapped ==
  ASSUME TypeOK, NEW r \in Request, IdpIssue(r)
  PROVE  \E g \in Grant, a \in Account : Store!Issue(g, a)
<1>1. /\ pc[r] = "post" /\ Goto(r, "answered") /\ seen' = seen
      /\ UNCHANGED <<row, acct, answer>> /\ acct[r] \in Account
  BY DEF IdpIssue, TypeOK
<1>2. PICK g \in Grant, life \in Life, refresh \in Token :
         /\ grants[g] = NoToken
         /\ grants' = [grants EXCEPT ![g] =
                         [owner |-> acct[r], issued |-> now,
                          life |-> life, refresh |-> refresh]]
  BY DEF IdpIssue, TypeOK
<1>3. Owner(g) = NoToken /\ Owner(g)' = acct[r]
  <2>1. grants'[g] = [owner |-> acct[r], issued |-> now,
                      life |-> life, refresh |-> refresh]
    BY <1>2 DEF TypeOK
  <2>2. grants'[g] \in GrantInfo
    BY <1>1, <2>1 DEF TypeOK, GrantInfo
  <2>3. grants'[g] # NoToken
    BY <2>2, NullAssumption DEF GrantInfo
  <2> QED BY <1>2, <2>1, <2>3 DEF Owner
<1>4. \A h \in Grant \ {g} : Owner(h)' = Owner(h)
  BY <1>2 DEF Owner, TypeOK
<1>5. [h \in Grant |-> Owner(h)]' = [[h \in Grant |-> Owner(h)] EXCEPT ![g] = acct[r]]
  BY <1>3, <1>4
<1>6. Phase(r)' = Phase(r) /\ View(r)' = View(r)
  BY <1>1, GotoMapped DEF Phase, View, Available
<1>7. /\ [q \in Request |-> Phase(q)]' = [q \in Request |-> Phase(q)]
      /\ [q \in Request |-> View(q)]' = [q \in Request |-> View(q)]
  BY <1>1, <1>6, GotoMapped
<1>8. Store!Issue(g, acct[r])
  BY <1>1, <1>3, <1>5, <1>7, SharedMapped DEF Store!Issue
<1> QED BY <1>1, <1>8

\* The row and the answer of a commit change together.
LEMMA SaveCommitMapped ==
  ASSUME IInv, NEW r \in Request, SaveCommit(r)
  PROVE  \E w \in Store!Row : Store!Replace(r, w)
<1> DEFINE w == Written(r)
<1>1. /\ pc[r] = "commit" /\ row' = [row EXCEPT ![acct[r]] = w]
      /\ grants' = grants /\ TypeOK /\ acct[r] \in Account
  BY DEF SaveCommit, IInv, TypeOK
<1>2. /\ w \in Row /\ w # NoRow
      /\ w.access = got[r]
      /\ Backed(acct[r], w)
  BY <1>1, WrittenBacked
<1>3. Respond(r, "ok", w.access) \/ Respond(r, "error", NoToken)
  BY <1>2 DEF SaveCommit
<1> HIDE DEF w
<1>4. /\ Stored(w) \in Store!Row
      /\ Stored(w).access = w.access /\ Stored(w).refresh = w.refresh
  BY <1>2, StoredFacts
<1>5. /\ Owner(w.access) = acct[r] /\ w.access \in Grant
      /\ w.refresh # NoToken => w.refresh \in Grant /\ Owner(w.refresh) = acct[r]
  BY <1>2 DEF Backed, Owner, Row
<1>6. Store!GrantedTo(acct[r], Stored(w))
  BY <1>4, <1>5 DEF Store!GrantedTo
<1>7. Phase(r) = "asked"
  BY <1>1 DEF Phase, Available
<1>8. [a \in Account |-> Stored(row[a])]' =
        [[a \in Account |-> Stored(row[a])] EXCEPT ![acct[r]] = Stored(w)]
  <2>1. \A a \in Account : row'[a] = IF a = acct[r] THEN w ELSE row[a]
    BY <1>1 DEF TypeOK
  <2>2. \A a \in Account :
           Stored(row'[a]) = IF a = acct[r] THEN Stored(w) ELSE Stored(row[a])
    BY <2>1
  <2> QED BY <2>2
<1>9. Store!Answer(r, "ok", Stored(w).access) \/ Store!Answer(r, "error", NoToken)
  BY <1>1, <1>3, <1>4, RespondMapped
<1>10. Store!Replace(r, Stored(w))
  BY <1>6, <1>7, <1>8, <1>9 DEF Store!Replace
<1> QED BY <1>4, <1>10

\* A crash forgets the requests and keeps the table.
LEMMA CrashMapped == TypeOK /\ Crash => Store!Restart
<1> SUFFICES ASSUME TypeOK, Crash PROVE Store!Restart
  OBVIOUS
<1>1. \A q \in Request : pc'[q] \in {"idle", "replied"}
  BY DEF Crash, TypeOK
<1>2. \A q \in Request : Phase(q)' = "idle" /\ View(q)' = NoRow
  BY <1>1 DEF Phase, View, Available
<1>3. grants' = grants /\ row' = row /\ acct' = acct /\ answer' = answer
  BY DEF Crash
<1> QED BY <1>2, <1>3, SharedMapped DEF Store!Restart

LEMMA InitMapped == Init => Store!Init
  BY DEF Init, Store!Init, Owner, Stored, Phase, View, Available, NoAnswer,
         Store!NoAnswer

\* Every step is a step of the store or does not show in it.
LEMMA StepMapped == IInv /\ [Next]_vars => [Store!Next]_(Store!vars)
<1> SUFFICES ASSUME IInv, [Next]_vars
             PROVE  Store!Next \/ UNCHANGED Store!vars
  OBVIOUS
<1>0. TypeOK
  BY DEF IInv
<1>1. ASSUME NEW r \in Request, Store!Fail(r) PROVE Store!Next
  BY <1>1 DEF Store!Next
<1>2. ASSUME NEW r \in Request, Reject(r) \/ ExchangeFails(r) \/ DatabaseFails(r)
      PROVE  Store!Next
  <2>1. PICK c \in {"badRequest", "badGateway", "error"} :
           Reply(r, c, NoToken) /\ grants' = grants /\ row' = row
    BY <1>2 DEF Reject, ExchangeFails, DatabaseFails
  <2> QED BY <1>0, <1>1, <2>1, FailMapped
<1>3. ASSUME NEW r \in Request, NEW a \in Account,
             StartFetch(r, a) \/ StartCallback(r, a)
      PROVE  Store!Next
  <2>1. Store!Ask(r, a)
    BY <1>0, <1>3, AcceptMapped DEF StartFetch, StartCallback
  <2> QED BY <2>1 DEF Store!Next
<1>4. ASSUME NEW r \in Request, ReadRow(r) PROVE Store!Next
  BY <1>0, <1>4, ReadRowMapped DEF Store!Next
<1>5. ASSUME NEW r \in Request, CheckToken(r) PROVE Store!Next
  BY <1>0, <1>5, CheckTokenMapped DEF Store!Next
<1>6. ASSUME NEW r \in Request, ReadConfig(r)
      PROVE  Store!Next \/ UNCHANGED Store!vars
  <2>1. CASE Reply(r, "error", NoToken)
    BY <1>0, <1>1, <1>6, <2>1, FailMapped DEF ReadConfig
  <2>2. CASE /\ Goto(r, "post")
             /\ UNCHANGED <<kind, acct, seen, redeem, got, expiresAt, answer, during>>
    BY <1>0, <1>6, <2>2, GoOnMapped DEF ReadConfig
  <2> QED BY <1>6, <2>1, <2>2 DEF ReadConfig
<1>7. ASSUME NEW r \in Request, IdpIssue(r) PROVE Store!Next
  BY <1>0, <1>7, IdpIssueMapped DEF Store!Next
<1>8. ASSUME NEW r \in Request, ReceiveToken(r) \/ SaveSelect(r)
      PROVE  UNCHANGED Store!vars
  <2>1. \A q \in Request \ {r} : seen'[q] = seen[q]
    BY <1>0, <1>8 DEF ReceiveToken, SaveSelect, TypeOK
  <2> QED BY <1>0, <1>8, <2>1, GoOnMapped DEF ReceiveToken, SaveSelect
<1>9. ASSUME NEW r \in Request, SaveFlush(r)
      PROVE  Store!Next \/ UNCHANGED Store!vars
  <2>1. CASE Reply(r, "error", NoToken)
    BY <1>0, <1>1, <1>9, <2>1, FailMapped DEF SaveFlush
  <2>2. CASE Goto(r, "commit") /\ UNCHANGED <<acct, seen, answer>>
    BY <1>0, <1>9, <2>2, GoOnMapped DEF SaveFlush
  <2> QED BY <1>9, <2>1, <2>2 DEF SaveFlush
<1>10. ASSUME NEW r \in Request, SaveCommit(r) PROVE Store!Next
  BY <1>10, SaveCommitMapped DEF Store!Next
<1>11. CASE Tick \/ UNCHANGED vars
  <2>1. UNCHANGED <<grants, row, pc, acct, seen, answer>>
    BY <1>11 DEF Tick, vars
  <2>2. \A q \in Request : Phase(q)' = Phase(q) /\ View(q)' = View(q)
    BY <2>1 DEF Phase, View, Available, Stored
  <2> QED BY <2>1, <2>2, SharedMapped DEF Store!vars
<1>12. CASE Crash
  BY <1>0, <1>12, CrashMapped DEF Store!Next
<1> QED BY <1>2, <1>3, <1>4, <1>5, <1>6, <1>7, <1>8, <1>9, <1>10, <1>11, <1>12
        DEF Next

\* Without any lock the token table behaves as a store in which every request
\* takes effect at one moment.
THEOREM Refinement == Spec => ImplementsTokenStore
<1>1. Spec => []IInv
  BY InvInit, InvNext, PTL DEF Spec
<1> QED BY <1>1, InitMapped, StepMapped, PTL DEF Spec, ImplementsTokenStore, Store!Spec

=============================================================================
