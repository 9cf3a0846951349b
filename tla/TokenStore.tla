----------------------------- MODULE TokenStore -----------------------------
(***************************************************************************)
(* What DelegatedAuth promises: a durable table of tokens per account, and *)
(* requests that each take effect at one moment.  A request either looks   *)
(* at its row once and answers from that version, or replaces the row and  *)
(* answers the token it has stored, or fails: then nothing has changed,    *)
(* unless the acknowledgement of its commit was lost.  A row only ever     *)
(* holds tokens granted to its own account and is never deleted; a restart *)
(* loses requests but no row.                                              *)
(*                                                                         *)
(* Left to the implementation: when a token is good enough, what Microsoft *)
(* is asked, sessions, locks, and which refresh token stays in a row that  *)
(* several requests replace.                                               *)
(***************************************************************************)
CONSTANTS Request, Account, Grant, NoToken, NoRow

\* When a token ends is the implementation's business.
Row == [access : Grant, refresh : Grant \cup {NoToken}]

VARIABLES
    owner,      \* the account a grant was issued to, NoToken before
    table,      \* the row of each account
    phase,      \* "idle", "asked", "looked"
    account,    \* whose token a request is about
    view,       \* the version a request has looked at
    answer      \* what it answered last

vars == <<owner, table, phase, account, view, answer>>

NoAnswer == [code |-> "none", token |-> NoToken]

Failures == {"badRequest", "badGateway", "error"}

Init ==
    /\ owner = [g \in Grant |-> NoToken]
    /\ table = [a \in Account |-> NoRow]
    /\ phase = [r \in Request |-> "idle"]
    /\ account \in [Request -> Account]
    /\ view = [r \in Request |-> NoRow]
    /\ answer = [r \in Request |-> NoAnswer]

\* Microsoft grants a token to an account.
Issue(g, a) ==
    /\ owner[g] = NoToken
    /\ owner' = [owner EXCEPT ![g] = a]
    /\ UNCHANGED <<table, phase, account, view, answer>>

Ask(r, a) ==
    /\ phase[r] = "idle"
    /\ phase' = [phase EXCEPT ![r] = "asked"]
    /\ account' = [account EXCEPT ![r] = a]
    /\ answer' = [answer EXCEPT ![r] = NoAnswer]
    /\ UNCHANGED <<owner, table, view>>

Look(r) ==
    /\ phase[r] = "asked"
    /\ phase' = [phase EXCEPT ![r] = "looked"]
    /\ view' = [view EXCEPT ![r] = table[account[r]]]
    /\ UNCHANGED <<owner, table, account, answer>>

\* The request is over.
Answer(r, code, token) ==
    /\ phase' = [phase EXCEPT ![r] = "idle"]
    /\ view' = [view EXCEPT ![r] = NoRow]
    /\ answer' = [answer EXCEPT ![r] = [code |-> code, token |-> token]]
    /\ UNCHANGED <<owner, account>>

\* What the version it has looked at says.
Tell(r) ==
    /\ phase[r] = "looked"
    /\ \/ view[r] = NoRow /\ Answer(r, "noConsent", NoToken)
       \/ view[r] # NoRow /\ Answer(r, "ok", view[r].access)
       \/ /\ view[r] # NoRow /\ view[r].refresh = NoToken
          /\ Answer(r, "noRefresh", NoToken)
    /\ UNCHANGED table

\* The version is not good enough: it is not looked at any more.
Renew(r) ==
    /\ phase[r] = "looked"
    /\ phase' = [phase EXCEPT ![r] = "asked"]
    /\ view' = [view EXCEPT ![r] = NoRow]
    /\ UNCHANGED <<owner, table, account, answer>>

GrantedTo(a, w) ==
    /\ owner[w.access] = a
    /\ w.refresh # NoToken => owner[w.refresh] = a

\* The row is replaced; the acknowledgement of the database may be lost.
Replace(r, w) ==
    /\ phase[r] = "asked"
    /\ GrantedTo(account[r], w)
    /\ table' = [table EXCEPT ![account[r]] = w]
    /\ Answer(r, "ok", w.access) \/ Answer(r, "error", NoToken)

\* A request is turned away or fails.
Fail(r) ==
    /\ \E code \in Failures : Answer(r, code, NoToken)
    /\ UNCHANGED table

Restart ==
    /\ phase' = [r \in Request |-> "idle"]
    /\ view' = [r \in Request |-> NoRow]
    /\ UNCHANGED <<owner, table, account, answer>>

Next ==
    \/ \E g \in Grant, a \in Account : Issue(g, a)
    \/ \E r \in Request :
        \/ \E a \in Account : Ask(r, a)
        \/ Look(r) \/ Tell(r) \/ Renew(r) \/ Fail(r)
        \/ \E w \in Row : Replace(r, w)
    \/ Restart

Spec == Init /\ [][Next]_vars

=============================================================================
