-------------------------- MODULE LogServiceProofs --------------------------
(* Proofs for LogService.  They hold for any number of searches and users,   *)
(* every life and size of the cache, every limit and any number of restarts. *)
EXTENDS LogService, FiniteSetTheorems, TLAPS

\* A cached user is kept under its own key and is no younger than the clock.
CacheKeyed ==
    \A p \in Person : cache[p] # None => cache[p].person = p /\ cache[p].at <= now

\* No row tells of the search.
Unlogged(s) == \A r \in rows : r.search # s

\* The user of a request is its token's and was read in time.
Owned(s) ==
    user[s] # None =>
        /\ user[s].person = token[s].person
        /\ user[s].at <= used[s] /\ used[s] < user[s].at + TTL

\* What is true of a search at each place.
Placed(s) ==
    /\ pc[s] = "idle" =>
          user[s] = None /\ verdict[s] = None /\ answer[s]["log"] = None
    /\ pc[s] # "idle" => token[s] # None
    /\ Serving(s) => user[s] # None
    /\ pc[s] # "done" => answer[s]["log"] = None /\ Unlogged(s)
    /\ Serving(s) /\ op[s] = "count" => verdict[s] = None
    /\ pc[s] = "graph" \/ (Serving(s) /\ op[s] = "log") =>
          verdict[s] = "admitted" /\ answer[s]["count"] = "200"

\* What the answers of a search tell of the table.
Told(s) ==
    /\ answer[s]["log"] = "200" => \E r \in rows : r.search = s
    /\ \A r \in rows : r.search = s =>
          /\ r.actor = token[s].person /\ r.company = token[s].person.company
          /\ verdict[s] = "admitted" /\ answer[s]["log"] # None
    /\ verdict[s] = "admitted" => answer[s]["count"] = "200"

Fine(s) == Owned(s) /\ Placed(s) /\ Told(s)

IInv == TypeOK /\ IsFiniteSet(rows) /\ CacheKeyed /\ \A s \in Search : Fine(s)

-----------------------------------------------------------------------------
(* Parts of the actions.                                                   *)

\* Company and id name a user.
LEMMA KeyIsPerson == ASSUME NEW p \in Person PROVE Key(p) = p
<1>1. ASSUME NEW q \in Person, q.company = p.company, q.id = p.id PROVE q = p
  <2>. DEFINE C == {x.company : x \in Person}  I == {x.id : x \in Person}
  <2>. HIDE DEF C, I
  <2>1. p \in [company : C, id : I] /\ q \in [company : C, id : I]
    BY PersonAssumption DEF C, I
  <2>. QED  BY <1>1, <2>1
<1>. QED  BY <1>1 DEF Key

\* What a request that is over changes.
LEMMA RespondFacts ==
    ASSUME TypeOK, NEW s \in Search, NEW o \in {"count", "log"},
           NEW status \in {"200", "500"}, Respond(s, o, status)
    PROVE  /\ pc' \in [Search -> {"idle", "open", "work", "commit", "graph", "done"}]
           /\ answer' \in [Search -> [{"count", "log"} -> Statuses \cup {None}]]
           /\ verdict' \in [Search -> {"admitted", "refused", "failed", None}]
           /\ \A d \in Search : d # s =>
                 pc'[d] = pc[d] /\ answer'[d] = answer[d] /\ verdict'[d] = verdict[d]
           /\ answer'[s][o] = status
           /\ \A other \in {"count", "log"} : other # o => answer'[s][other] = answer[s][other]
           /\ pc'[s] \in {"graph", "done"}
           /\ pc'[s] = "graph" => o = "count" /\ status = "200" /\ verdict'[s] = "admitted"
           /\ o = "log" => verdict'[s] = verdict[s] /\ pc'[s] = "done"
           /\ o = "count" /\ pc'[s] = "done" => verdict'[s] \in {"refused", "failed"}
<1>1. /\ answer' = [answer EXCEPT ![s] = [answer[s] EXCEPT ![o] = status]]
      /\ status \in Statuses \cup {None}
  BY DEF Respond, TypeOK, Statuses
<1>2. [answer[s] EXCEPT ![o] = status] \in [{"count", "log"} -> Statuses \cup {None}]
  BY <1>1 DEF TypeOK
<1>3. /\ answer' \in [Search -> [{"count", "log"} -> Statuses \cup {None}]]
      /\ answer'[s] = [answer[s] EXCEPT ![o] = status]
      /\ \A d \in Search : d # s => answer'[d] = answer[d]
  BY <1>1, <1>2 DEF TypeOK
<1>4. /\ answer'[s][o] = status
      /\ \A other \in {"count", "log"} : other # o => answer'[s][other] = answer[s][other]
  BY <1>3 DEF TypeOK
<1>5. /\ pc' \in [Search -> {"idle", "open", "work", "commit", "graph", "done"}]
      /\ verdict' \in [Search -> {"admitted", "refused", "failed", None}]
      /\ \A d \in Search : d # s => pc'[d] = pc[d] /\ verdict'[d] = verdict[d]
      /\ pc'[s] \in {"graph", "done"}
      /\ pc'[s] = "graph" => o = "count" /\ status = "200" /\ verdict'[s] = "admitted"
      /\ o = "log" => verdict'[s] = verdict[s] /\ pc'[s] = "done"
      /\ o = "count" /\ pc'[s] = "done" => verdict'[s] \in {"refused", "failed"}
  <2>1. CASE /\ o = "count" /\ status = "200"
             /\ verdict' = [verdict EXCEPT ![s] = "admitted"]
             /\ pc' = [pc EXCEPT ![s] = "graph"]
    BY <2>1 DEF TypeOK
  <2>2. ASSUME NEW v \in {"refused", "failed"}, o = "count",
               verdict' = [verdict EXCEPT ![s] = v],
               pc' = [pc EXCEPT ![s] = "done"]
        PROVE  <1>5!:
    BY <2>2 DEF TypeOK
  <2>3. CASE o = "log" /\ pc' = [pc EXCEPT ![s] = "done"] /\ UNCHANGED verdict
    BY <2>3 DEF TypeOK
  <2>. QED  BY <2>1, <2>2, <2>3 DEF Respond
<1>. QED  BY <1>3, <1>4, <1>5

\* Rows of a request.
LEMMA WrittenFacts ==
    ASSUME TypeOK, NEW s \in Search, user[s] # None, Owned(s)
    PROVE  /\ Written(s) \subseteq Row /\ IsFiniteSet(Written(s))
           /\ op[s] = "count" => Written(s) = {}
           /\ op[s] = "log" => Written(s) # {}
           /\ \A r \in Written(s) :
                 /\ r.search = s
                 /\ r.actor = token[s].person /\ r.company = token[s].person.company
<1>1. user[s] \in Users /\ user[s].person \in Person /\ began[s] \in Nat
  BY DEF TypeOK, Users
<1>2. CASE op[s] = "count"
  <2>1. Written(s) = {}  BY <1>2 DEF Written
  <2>. QED  BY <1>2, <2>1, FS_EmptySet
<1>3. CASE op[s] = "log"
  <2>. DEFINE r == [search |-> s, company |-> user[s].person.company,
                    actor |-> user[s].person, provider |-> MicrosoftGraph,
                    at |-> began[s]]
  <2>1. Written(s) = {r}  BY <1>3 DEF Written
  <2>2. r \in Row  BY <1>1 DEF Row
  <2>3. IsFiniteSet({r})  BY FS_Singleton
  <2>4. r.search = s /\ r.actor = token[s].person /\ r.company = token[s].person.company
    BY <1>1 DEF Owned
  <2>. HIDE DEF r
  <2>. QED  BY <1>3, <2>1, <2>2, <2>3, <2>4
<1>. QED  BY <1>2, <1>3 DEF TypeOK

-----------------------------------------------------------------------------
(* The actions.                                                            *)

\* A step of s leaves the other searches and their rows alone.
Others(s) ==
    /\ \A d \in Search : d # s =>
          /\ pc'[d] = pc[d] /\ op'[d] = op[d] /\ token'[d] = token[d]
          /\ user'[d] = user[d] /\ answer'[d] = answer[d]
          /\ verdict'[d] = verdict[d] /\ used'[d] = used[d]
    /\ rows \subseteq rows'
    /\ \A r \in rows' : r \in rows \/ r.search = s

\* What a step of s has to keep.
Keeps(s) ==
    TypeOK' /\ IsFiniteSet(rows') /\ CacheKeyed' /\ Others(s) /\ Fine(s)'

\* A step of s keeps what is true of the other searches.
LEMMA OthersFine ==
    ASSUME NEW s \in Search, NEW d \in Search, d # s, Others(s), Fine(d)
    PROVE  Fine(d)'
<1>1. /\ pc'[d] = pc[d] /\ op'[d] = op[d] /\ token'[d] = token[d]
      /\ user'[d] = user[d] /\ answer'[d] = answer[d]
      /\ verdict'[d] = verdict[d] /\ used'[d] = used[d]
      /\ rows \subseteq rows'
      /\ \A r \in rows' : r \in rows \/ r.search = s
  BY DEF Others
<1>2. Owned(d)'  BY <1>1 DEF Fine, Owned
<1>3. Placed(d)'  BY <1>1 DEF Fine, Placed, Serving, Unlogged
<1>4. Told(d)'  BY <1>1 DEF Fine, Told
<1>. QED  BY <1>2, <1>3, <1>4 DEF Fine

\* A request arrives, for the count or for the log.
LEMMA ArriveFine ==
    ASSUME IInv, NEW s \in Search, NEW t \in Token, NEW o \in {"count", "log"},
           Arrive(s, t, o),
           \/ pc[s] = "idle" /\ o = "count"
           \/ pc[s] = "graph" /\ o = "log" /\ t = token[s]
    PROVE  Keeps(s)
<1>1. TypeOK /\ CacheKeyed /\ Fine(s) /\ IsFiniteSet(rows)  BY DEF IInv
<1>2. /\ op' = [op EXCEPT ![s] = o] /\ token' = [token EXCEPT ![s] = t]
      /\ UNCHANGED <<now, began, counted, rows, restarts, seen>>
  BY DEF Arrive
<1>3. /\ op'[s] = o /\ token'[s] = t /\ t # None /\ t.person \in Person
      /\ op' \in [Search -> {"count", "log"}]
      /\ token' \in [Search -> Token \cup {None}]
      /\ \A d \in Search : d # s => op'[d] = op[d] /\ token'[d] = token[d]
  BY <1>1, <1>2, NoneAssumption DEF TypeOK, Token
<1>4. /\ answer[s]["log"] = None /\ Unlogged(s)
      /\ o = "count" => verdict[s] = None /\ user[s] = None
      /\ o = "log" => /\ verdict[s] = "admitted" /\ answer[s]["count"] = "200"
                      /\ t = token[s]
  BY <1>1 DEF Fine, Placed
<1>5. CASE Respond(s, o, "500") /\ UNCHANGED <<cache, user, used>>
  <2>1. /\ pc' \in [Search -> {"idle", "open", "work", "commit", "graph", "done"}]
        /\ answer' \in [Search -> [{"count", "log"} -> Statuses \cup {None}]]
        /\ verdict' \in [Search -> {"admitted", "refused", "failed", None}]
        /\ \A d \in Search : d # s =>
              pc'[d] = pc[d] /\ answer'[d] = answer[d] /\ verdict'[d] = verdict[d]
        /\ answer'[s][o] = "500" /\ pc'[s] = "done"
        /\ \A other \in {"count", "log"} : other # o => answer'[s][other] = answer[s][other]
        /\ o = "log" => verdict'[s] = verdict[s]
        /\ o = "count" => verdict'[s] \in {"refused", "failed"}
    BY <1>1, <1>5, RespondFacts
  <2>2. TypeOK'  BY <1>1, <1>2, <1>3, <1>5, <2>1 DEF TypeOK
  <2>3. CacheKeyed'  BY <1>1, <1>2, <1>5 DEF CacheKeyed
  <2>4. Others(s)  BY <1>2, <1>3, <1>5, <2>1 DEF Others
  <2>5. Owned(s)'  BY <1>1, <1>3, <1>4, <1>5 DEF Fine, Owned
  <2>6. Placed(s)'  BY <1>3, <2>1 DEF Placed, Serving
  <2>7. Told(s)'  BY <1>2, <1>4, <2>1, NoneAssumption DEF Told, Unlogged
  <2>. QED  BY <1>1, <1>2, <2>2, <2>3, <2>4, <2>5, <2>6, <2>7 DEF Keeps, Fine
<1>6. ASSUME NEW u \in Candidates(t), TakeCached(s, t, u) \/ TakeClaims(s, t, u),
             user' = [user EXCEPT ![s] = u], used' = [used EXCEPT ![s] = now],
             \/ /\ pc' = [pc EXCEPT ![s] = "open"]
                /\ UNCHANGED <<answer, verdict>>
             \/ Respond(s, o, "500")
      PROVE  Keeps(s)
  <2>1. Key(t.person) = t.person /\ t.person \in Person  BY <1>3, KeyIsPerson
  <2>2. now \in Nat /\ TTL \in Nat \ {0}  BY <1>1, TTLAssumption DEF TypeOK
  <2>3. /\ u \in Users /\ u.person = t.person /\ u.at <= now /\ now < u.at + TTL
        /\ cache' \in [Person -> Users \cup {None}] /\ CacheKeyed'
    <3>1. CASE TakeCached(s, t, u)
      <4>1. Live(t.person) /\ u = cache[t.person] /\ cache' = cache
        BY <2>1, <3>1 DEF TakeCached
      <4>2. u \in Users  BY <1>1, <2>1, <4>1 DEF TypeOK, Live
      <4>. QED  BY <1>1, <1>2, <2>1, <4>1, <4>2 DEF CacheKeyed, Live, TypeOK
    <3>2. CASE TakeClaims(s, t, u)
      <4>1. /\ u = [person |-> t.person, spelling |-> t.spelling, at |-> now]
            /\ Cached(t.person, u)
        BY <2>1, <3>2 DEF TakeClaims
      <4>2. u \in Users /\ u.person = t.person /\ u.at = now
        BY <2>1, <2>2, <4>1 DEF Users, Token
      <4>3. PICK kept : cache' = [q \in Person |->
                IF q = t.person THEN u ELSE IF q \in kept THEN cache[q] ELSE None]
        BY <4>1 DEF Cached
      <4>4. cache' \in [Person -> Users \cup {None}]
        BY <1>1, <4>2, <4>3 DEF TypeOK
      <4>5. \A p \in Person : cache'[p] # None => cache'[p].person = p /\ cache'[p].at <= now
        BY <1>1, <2>2, <4>2, <4>3 DEF CacheKeyed
      <4>6. CacheKeyed'  BY <1>2, <4>5 DEF CacheKeyed
      <4>. QED  BY <2>2, <4>2, <4>4, <4>6
    <3>. QED  BY <1>6, <3>1, <3>2
  <2>4. /\ user' \in [Search -> Users \cup {None}] /\ user'[s] = u /\ u # None
        /\ used' \in [Search -> Nat] /\ used'[s] = now
        /\ \A d \in Search : d # s => user'[d] = user[d] /\ used'[d] = used[d]
    BY <1>1, <1>6, <2>2, <2>3, NoneAssumption DEF TypeOK, Users
  <2>5. Owned(s)'  BY <1>3, <2>3, <2>4 DEF Owned
  <2>6. CASE pc' = [pc EXCEPT ![s] = "open"] /\ UNCHANGED <<answer, verdict>>
    <3>1. /\ pc' \in [Search -> {"idle", "open", "work", "commit", "graph", "done"}]
          /\ pc'[s] = "open" /\ \A d \in Search : d # s => pc'[d] = pc[d]
      BY <1>1, <2>6 DEF TypeOK
    <3>2. TypeOK'  BY <1>1, <1>2, <1>3, <2>3, <2>4, <2>6, <3>1 DEF TypeOK
    <3>3. Others(s)  BY <1>2, <1>3, <2>4, <2>6, <3>1 DEF Others
    <3>4. Placed(s)'  BY <1>2, <1>3, <1>4, <2>4, <2>6, <3>1 DEF Placed, Serving, Unlogged
    <3>5. Told(s)'
      BY <1>1, <1>2, <1>4, <2>6, NoneAssumption DEF Told, Unlogged, Fine
    <3>. QED  BY <1>1, <1>2, <2>3, <2>5, <3>2, <3>3, <3>4, <3>5 DEF Keeps, Fine
  <2>7. CASE Respond(s, o, "500")
    <3>1. /\ pc' \in [Search -> {"idle", "open", "work", "commit", "graph", "done"}]
          /\ answer' \in [Search -> [{"count", "log"} -> Statuses \cup {None}]]
          /\ verdict' \in [Search -> {"admitted", "refused", "failed", None}]
          /\ \A d \in Search : d # s =>
                pc'[d] = pc[d] /\ answer'[d] = answer[d] /\ verdict'[d] = verdict[d]
          /\ answer'[s][o] = "500" /\ pc'[s] = "done"
          /\ \A other \in {"count", "log"} : other # o => answer'[s][other] = answer[s][other]
          /\ o = "log" => verdict'[s] = verdict[s]
          /\ o = "count" => verdict'[s] \in {"refused", "failed"}
      BY <1>1, <2>7, RespondFacts
    <3>2. TypeOK'  BY <1>1, <1>2, <1>3, <2>3, <2>4, <3>1 DEF TypeOK
    <3>3. Others(s)  BY <1>2, <1>3, <2>4, <3>1 DEF Others
    <3>4. Placed(s)'  BY <1>3, <3>1 DEF Placed, Serving
    <3>5. Told(s)'  BY <1>2, <1>4, <3>1, NoneAssumption DEF Told, Unlogged
    <3>. QED  BY <1>1, <1>2, <2>3, <2>5, <3>2, <3>3, <3>4, <3>5 DEF Keeps, Fine
  <2>. QED  BY <1>6, <2>6, <2>7
<1>. QED  BY <1>5, <1>6 DEF Arrive

\* A request ends with its transaction.
LEMMA RequestEnds ==
    ASSUME IInv, NEW s \in Search, Serving(s), NEW status \in {"200", "500"},
           Respond(s, op[s], status),
           rows' = rows \/ rows' = rows \cup Written(s),
           status = "200" => rows' = rows \cup Written(s),
           UNCHANGED <<now, cache, op, token, user, began, counted, restarts, used, seen>>
    PROVE  Keeps(s)
<1>1. TypeOK /\ CacheKeyed /\ Fine(s) /\ IsFiniteSet(rows)  BY DEF IInv
<1>. DEFINE o == op[s]
<1>2. /\ o \in {"count", "log"} /\ user[s] # None /\ token[s] # None /\ Owned(s)
      /\ answer[s]["log"] = None /\ Unlogged(s)
      /\ o = "log" => verdict[s] = "admitted" /\ answer[s]["count"] = "200"
  BY <1>1 DEF Fine, Placed, Serving, TypeOK
<1>3. /\ Written(s) \subseteq Row /\ IsFiniteSet(Written(s))
      /\ o = "count" => Written(s) = {}
      /\ o = "log" => Written(s) # {}
      /\ \A r \in Written(s) :
            /\ r.search = s
            /\ r.actor = token[s].person /\ r.company = token[s].person.company
  BY <1>1, <1>2, WrittenFacts
<1>4. /\ rows' \subseteq Row /\ IsFiniteSet(rows') /\ rows \subseteq rows'
      /\ \A r \in rows' : r \in rows \/ r \in Written(s)
  <2>1. IsFiniteSet(rows \cup Written(s))  BY <1>1, <1>3, FS_Union
  <2>2. rows \cup Written(s) \subseteq Row  BY <1>1, <1>3 DEF TypeOK
  <2>3. CASE rows' = rows  BY <1>1, <2>2, <2>3
  <2>4. CASE rows' = rows \cup Written(s)  BY <2>1, <2>2, <2>4
  <2>. QED  BY <2>3, <2>4
<1>5. /\ pc' \in [Search -> {"idle", "open", "work", "commit", "graph", "done"}]
      /\ answer' \in [Search -> [{"count", "log"} -> Statuses \cup {None}]]
      /\ verdict' \in [Search -> {"admitted", "refused", "failed", None}]
      /\ \A d \in Search : d # s =>
            pc'[d] = pc[d] /\ answer'[d] = answer[d] /\ verdict'[d] = verdict[d]
      /\ answer'[s][o] = status
      /\ \A other \in {"count", "log"} : other # o => answer'[s][other] = answer[s][other]
      /\ pc'[s] \in {"graph", "done"}
      /\ pc'[s] = "graph" => o = "count" /\ status = "200" /\ verdict'[s] = "admitted"
      /\ o = "log" => verdict'[s] = verdict[s] /\ pc'[s] = "done"
      /\ o = "count" /\ pc'[s] = "done" => verdict'[s] \in {"refused", "failed"}
  BY <1>1, <1>2, RespondFacts
<1>6. TypeOK'  BY <1>1, <1>4, <1>5 DEF TypeOK
<1>7. CacheKeyed'  BY <1>1 DEF CacheKeyed
<1>8. Others(s)  BY <1>3, <1>4, <1>5 DEF Others
<1>9. Owned(s)'  BY <1>2 DEF Owned
<1>10. Placed(s)'  BY <1>2, <1>3, <1>4, <1>5 DEF Placed, Serving, Unlogged
<1>11. Told(s)'
  <2>1. CASE o = "count"
    <3>1. rows' = rows  BY <1>3, <2>1
    <3>. QED  BY <1>2, <1>5, <2>1, <3>1, NoneAssumption DEF Told, Unlogged
  <2>2. CASE o = "log"
    <3>1. status = "200" => \E r \in rows' : r.search = s  BY <1>3, <2>2
    <3>2. \A r \in rows' : r.search = s => r \in Written(s)  BY <1>2, <1>4 DEF Unlogged
    <3>3. status # None  BY NoneAssumption
    <3>. QED  BY <1>2, <1>3, <1>5, <2>2, <3>1, <3>2, <3>3 DEF Told
  <2>. QED  BY <1>2, <2>1, <2>2
<1>. QED  BY <1>4, <1>6, <1>7, <1>8, <1>9, <1>10, <1>11 DEF Keeps, Fine

\* The steps of a request up to its commit.
LEMMA WorkFine ==
    ASSUME IInv, NEW s \in Search, Open(s) \/ Count(s) \/ Insert(s) PROVE Keeps(s)
<1>1. TypeOK /\ CacheKeyed /\ Fine(s) /\ IsFiniteSet(rows)  BY DEF IInv
<1>2. /\ pc[s] \in {"open", "work"} /\ Serving(s)
      /\ pc' \in [Search -> {"idle", "open", "work", "commit", "graph", "done"}]
      /\ pc'[s] \in {"work", "commit"}
      /\ \A d \in Search : d # s => pc'[d] = pc[d]
      /\ UNCHANGED <<now, cache, op, token, user, answer, verdict, rows, restarts, used>>
  BY <1>1 DEF Open, Count, Insert, TypeOK, Serving
<1>3. /\ began' \in [Search -> Nat] /\ counted' \in [Search -> Nat]
      /\ seen' \in [Search -> Nat]
  <2>1. CASE Open(s) \/ Insert(s)  BY <1>1, <2>1 DEF Open, Insert, TypeOK
  <2>2. CASE Count(s)
    <3>1. ASSUME NEW T, T \subseteq rows PROVE Cardinality(T) \in Nat
      BY <1>1, <3>1, FS_Subset, FS_CardinalityType
    <3>2. /\ Cardinality({r \in Recent(s) : Counts(s, r)}) \in Nat
          /\ Cardinality({r \in Recent(s) : r.actor = token[s].person}) \in Nat
      <4>1. {r \in Recent(s) : Counts(s, r)} \subseteq rows  BY DEF Recent
      <4>2. {r \in Recent(s) : r.actor = token[s].person} \subseteq rows  BY DEF Recent
      <4>. QED  BY <3>1, <4>1, <4>2
    <3>. QED  BY <1>1, <2>2, <3>2 DEF Count, TypeOK
  <2>. QED  BY <2>1, <2>2
<1>4. TypeOK'  BY <1>1, <1>2, <1>3 DEF TypeOK
<1>5. CacheKeyed' /\ Others(s)  BY <1>1, <1>2 DEF CacheKeyed, Others
<1>6. Fine(s)'
  BY <1>1, <1>2 DEF Fine, Owned, Placed, Told, Serving, Unlogged
<1>. QED  BY <1>1, <1>2, <1>4, <1>5, <1>6 DEF Keeps

\* Time passes.
LEMMA TickFine == ASSUME IInv, Tick PROVE IInv'
<1>1. /\ now \in Nat /\ now' = now + 1
      /\ UNCHANGED <<cache, pc, op, token, user, began, counted, answer, verdict,
                     rows, restarts, used, seen>>
  BY DEF IInv, TypeOK, Tick
<1>2. TypeOK'  BY <1>1 DEF IInv, TypeOK
<1>3. CacheKeyed'
  <2>1. \A p \in Person : cache[p] # None => cache[p].at \in Nat
    BY DEF IInv, TypeOK, Users
  <2>. QED  BY <1>1, <2>1 DEF IInv, CacheKeyed
<1>4. ASSUME NEW s \in Search PROVE Fine(s)'
  BY <1>1 DEF IInv, Fine, Owned, Placed, Told, Serving, Unlogged
<1>. QED  BY <1>1, <1>2, <1>3, <1>4 DEF IInv

\* The common API restarts.
LEMMA RestartFine == ASSUME IInv, Restart PROVE IInv'
<1>1. TypeOK /\ IsFiniteSet(rows) /\ \A s \in Search : Fine(s)  BY DEF IInv
<1>2. PICK done \in SUBSET {s \in Search : pc[s] = "commit"} :
          rows' = rows \cup UNION {Written(s) : s \in done}
  BY DEF Restart
<1>3. /\ UNCHANGED <<now, op, token, user, began, counted, used, seen>>
      /\ restarts' = restarts + 1
      /\ cache' = [p \in Person |-> None]
      /\ pc' = [s \in Search |-> IF Serving(s) THEN "done" ELSE pc[s]]
      /\ answer' = [s \in Search |->
            IF Serving(s) THEN [answer[s] EXCEPT ![op[s]] = "broken"] ELSE answer[s]]
      /\ verdict' = [s \in Search |->
            IF Serving(s) /\ op[s] = "count" THEN "failed" ELSE verdict[s]]
  BY DEF Restart
<1>4. ASSUME NEW s \in done
      PROVE  /\ s \in Search /\ Serving(s)
             /\ Written(s) \subseteq Row /\ IsFiniteSet(Written(s))
             /\ op[s] = "count" => Written(s) = {}
             /\ \A r \in Written(s) :
                   /\ r.search = s
                   /\ r.actor = token[s].person /\ r.company = token[s].person.company
  <2>1. s \in Search /\ Serving(s)  BY DEF Serving
  <2>2. user[s] # None /\ Owned(s)  BY <1>1, <2>1 DEF Fine, Placed
  <2>. QED  BY <1>1, <2>1, <2>2, WrittenFacts
<1>5. rows' \subseteq Row /\ rows \subseteq rows'
  <2>1. UNION {Written(s) : s \in done} \subseteq Row  BY <1>4
  <2>. QED  BY <1>1, <1>2, <2>1 DEF TypeOK
<1>6. IsFiniteSet(rows')
  <2>. DEFINE W == {Written(s) : s \in done}  f == [s \in done |-> Written(s)]
  <2>1. IsFiniteSet(done)
    <3>1. done \subseteq Search  OBVIOUS
    <3>. QED  BY <3>1, SearchAssumption, FS_Subset
  <2>2. f \in Surjection(done, W)  BY DEF Surjection
  <2>. HIDE DEF f
  <2>3. IsFiniteSet(W)  BY <2>1, <2>2, FS_Surjection
  <2>4. \A T \in W : IsFiniteSet(T)  BY <1>4
  <2>. HIDE DEF W
  <2>5. IsFiniteSet(UNION W)  BY <2>3, <2>4, FS_UNION
  <2>6. IsFiniteSet(rows \cup UNION W)  BY <1>1, <2>5, FS_Union
  <2>. QED  BY <1>2, <2>6 DEF W
<1>7. \A r \in rows' : r \in rows \/ \E s \in done : r \in Written(s)  BY <1>2
<1>8. TypeOK'
  <2>1. answer' \in [Search -> [{"count", "log"} -> Statuses \cup {None}]]
    <3>1. ASSUME NEW s \in Search
          PROVE  [answer[s] EXCEPT ![op[s]] = "broken"]
                     \in [{"count", "log"} -> Statuses \cup {None}]
      <4>1. answer[s] \in [{"count", "log"} -> Statuses \cup {None}]  BY <1>1 DEF TypeOK
      <4>2. "broken" \in Statuses \cup {None}  BY DEF Statuses
      <4>. QED  BY <4>1, <4>2
    <3>. QED  BY <1>1, <1>3, <3>1 DEF TypeOK
  <2>2. pc' \in [Search -> {"idle", "open", "work", "commit", "graph", "done"}]
    BY <1>1, <1>3 DEF TypeOK
  <2>3. verdict' \in [Search -> {"admitted", "refused", "failed", None}]
    BY <1>1, <1>3 DEF TypeOK
  <2>4. cache' \in [Person -> Users \cup {None}] /\ restarts' \in Nat
    BY <1>1, <1>3 DEF TypeOK
  <2>. QED  BY <1>1, <1>3, <1>5, <2>1, <2>2, <2>3, <2>4 DEF TypeOK
<1>9. CacheKeyed'  BY <1>3 DEF CacheKeyed
<1>10. ASSUME NEW s \in Search PROVE Fine(s)'
  <2>1. Owned(s)'  BY <1>1, <1>3 DEF Fine, Owned
  <2>2. CASE ~Serving(s)
    <3>1. pc'[s] = pc[s] /\ answer'[s] = answer[s] /\ verdict'[s] = verdict[s]
      BY <1>3, <2>2
    <3>2. \A r \in rows' : r.search = s => r \in rows  BY <1>4, <1>7, <2>2
    <3>3. Placed(s)'
      BY <1>1, <1>3, <2>2, <3>1, <3>2 DEF Fine, Placed, Serving, Unlogged
    <3>4. Told(s)'  BY <1>1, <1>3, <1>5, <3>1, <3>2 DEF Fine, Told
    <3>. QED  BY <2>1, <3>3, <3>4 DEF Fine
  <2>3. CASE Serving(s)
    <3>1. /\ op[s] \in {"count", "log"} /\ pc'[s] = "done"
          /\ answer'[s] = [answer[s] EXCEPT ![op[s]] = "broken"]
          /\ answer[s] \in [{"count", "log"} -> Statuses \cup {None}]
          /\ verdict'[s] = IF op[s] = "count" THEN "failed" ELSE verdict[s]
      BY <1>1, <1>3, <2>3 DEF TypeOK
    <3>2. /\ Unlogged(s) /\ answer[s]["log"] = None /\ token[s] # None
          /\ op[s] = "log" => verdict[s] = "admitted" /\ answer[s]["count"] = "200"
      BY <1>1, <2>3 DEF Fine, Placed, Serving
    <3>3. Placed(s)'  BY <1>3, <3>1, <3>2 DEF Placed, Serving
    <3>4. \A r \in rows' : r.search = s =>
              /\ r.actor = token[s].person /\ r.company = token[s].person.company
              /\ op[s] = "log"
      BY <1>4, <1>7, <3>1, <3>2 DEF Unlogged
    <3>5. Told(s)'
      <4>1. CASE op[s] = "count"
        <5>1. verdict'[s] = "failed" /\ answer'[s]["log"] = None  BY <3>1, <3>2, <4>1
        <5>. QED  BY <1>3, <3>4, <4>1, <5>1, NoneAssumption DEF Told
      <4>2. CASE op[s] = "log"
        <5>1. /\ verdict'[s] = "admitted" /\ answer'[s]["log"] = "broken"
              /\ answer'[s]["count"] = "200"
          BY <3>1, <3>2, <4>2
        <5>. QED  BY <1>3, <3>4, <5>1, NoneAssumption DEF Told
      <4>. QED  BY <3>1, <4>1, <4>2
    <3>. QED  BY <2>1, <3>3, <3>5 DEF Fine
  <2>. QED  BY <2>2, <2>3
<1>. QED  BY <1>6, <1>8, <1>9, <1>10 DEF IInv

\* The first state.
LEMMA InitIInv == Init => IInv
<1>. SUFFICES ASSUME Init PROVE IInv  OBVIOUS
<1>1. TypeOK  BY DEF Init, TypeOK
<1>2. IsFiniteSet(rows)  BY FS_EmptySet DEF Init
<1>3. CacheKeyed  BY DEF Init, CacheKeyed
<1>4. ASSUME NEW s \in Search PROVE Fine(s)
  BY NoneAssumption DEF Init, Fine, Owned, Placed, Told, Serving, Unlogged
<1>. QED  BY <1>1, <1>2, <1>3, <1>4 DEF IInv

\* Every step keeps the invariant.
LEMMA NextIInv == IInv /\ [Next]_vars => IInv'
<1>. SUFFICES ASSUME IInv, [Next]_vars PROVE IInv'  OBVIOUS
<1>1. ASSUME NEW s \in Search, Keeps(s) PROVE IInv'
  BY <1>1, OthersFine DEF IInv, Keeps
<1>2. ASSUME NEW s \in Search, Begin(s) \/ CallLogged(s) PROVE Keeps(s)
  <2>1. CASE Begin(s)  BY <2>1, ArriveFine DEF Begin
  <2>2. CASE CallLogged(s)
    <3>1. token[s] \in Token
      <4>1. token[s] \in Token \cup {None} /\ token[s] # None
        BY <2>2 DEF IInv, TypeOK, Fine, Placed, CallLogged
      <4>. QED  BY <4>1
    <3>. QED  BY <2>2, <3>1, ArriveFine DEF CallLogged
  <2>. QED  BY <1>2, <2>1, <2>2
<1>3. ASSUME NEW s \in Search, Commit(s) PROVE Keeps(s)
  BY <1>3, RequestEnds DEF Commit, Serving
<1>4. ASSUME NEW s \in Search, DatabaseFails(s) PROVE Keeps(s)
  BY <1>4, RequestEnds DEF DatabaseFails, Serving
<1>5. CASE UNCHANGED vars
  BY <1>5 DEF vars, IInv, TypeOK, CacheKeyed, Fine, Owned, Placed, Told, Serving, Unlogged
<1>6. CASE Tick  BY <1>6, TickFine
<1>7. CASE Restart  BY <1>7, RestartFine
<1>8. ASSUME NEW s \in Search, Begin(s) \/ CallLogged(s) \/ Serve(s) PROVE IInv'
  BY <1>1, <1>2, <1>3, <1>4, <1>8, WorkFine DEF Serve
<1>. QED  BY <1>5, <1>6, <1>7, <1>8 DEF Next

-----------------------------------------------------------------------------
(* The theorems.                                                           *)

\* The invariant holds of every behaviour.
THEOREM Invariant == Spec => []IInv
BY InitIInv, NextIInv, PTL DEF Spec

\* Every value has its type: what is counted is a number.
THEOREM TypeCorrect == Spec => []TypeOK
<1>1. IInv => TypeOK  BY DEF IInv
<1>. QED  BY <1>1, Invariant, PTL

\* A request works for the user its token names, read less than TTL before
\* (user_cache.py:13-36).
THEOREM UsersFresh == Spec => []UserFresh
<1>1. IInv => UserFresh  BY DEF IInv, Fine, Owned, UserFresh
<1>. QED  BY <1>1, Invariant, PTL

\* The answers of the log endpoints tell the truth about the table, whatever
\* fails or restarts (dependencies.py:23-42, logs_router.py:46-76).
THEOREM AnswersHold == Spec => []AnswersMatchTable
<1>1. IInv => AnswersMatchTable  BY DEF IInv, Fine, Told, AnswersMatchTable
<1>. QED  BY <1>1, Invariant, PTL

=============================================================================
