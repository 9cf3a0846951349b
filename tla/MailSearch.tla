----------------------------- MODULE MailSearch -----------------------------
(***************************************************************************)
(* What the listing tools of app/tools/mail_tools.py ask of Graph, and what *)
(* search_emails and fetch_emails_folder of app/service/mail_service.py make *)
(* of its pages.  ToolCall models the checks before and how a call fails.  *)
(*                                                                         *)
(* Time is counted in hours from an origin at 0:00 UTC; day d of the KST   *)
(* calendar is 24 hours long and begins 9 hours earlier.                   *)
(***************************************************************************)
EXTENDS Integers, Sequences, SequencesExt, FiniteSetsExt

CONSTANTS
    Mail,           \* the mails there can be
    Box,            \* sequences of mails: what a mailbox may hold at the start
    Ask,            \* the calls of the tools
    Today,          \* the KST day of the call
    MaxListed,      \* most mails of a folder listing: 50 in the code
    MaxChanges,     \* bound: of mails that come or go during the search
    None            \* absent

\* What a search term can be about, as Graph finds it in a mail.
Terms == {"isRead:true", "isRead:false", "importance:high", "importance:normal",
          "isflagged:true", "hasattachment:true", "from", "cc", "category",
          "keywords", "to:me", "cc:me", "from:me"}

Tools == {"get_recent_emails", "get_unread_emails", "get_important_emails",
          "get_flagged_emails", "get_emails_sender", "get_emails_cc",
          "get_email_attachment", "search_recived_mails",
          "search_category_mails", "search_sent_mails", "get_emails_folder"}

ASSUME NoneAssumption == None \notin Int
ASSUME MailAssumption ==
    Mail \subseteq [id : Nat, conversation : Nat \cup {None}, received : Nat \cup {None},
                    sent : Nat \cup {None}, terms : SUBSET Terms]
ASSUME BoxAssumption == Box \subseteq Seq(Mail) /\ \A b \in Box : IsInjective(b)
ASSUME AskAssumption ==
    Ask \subseteq [tool : Tools, from : Int \cup {None}, to : Int \cup {None},
                   top_k : Int, flag : BOOLEAN, filled : BOOLEAN]
ASSUME BoundAssumption == MaxListed \in Nat \ {0} /\ MaxChanges \in Nat /\ Today \in Nat

VARIABLES
    pc,         \* "idle", "page", "folder", "done"
    ask,        \* the call
    box,        \* the mails of the mailbox in the order Graph finds them
    skip,       \* how many results the next link passes over
    list,       \* the results fetched so far
    answer,     \* what the tool returned
    changes     \* how often the mailbox changed since the call

vars == <<pc, ask, box, skip, list, answer, changes>>

-----------------------------------------------------------------------------
(* The tools: scope and terms of their search.                             *)

\* `mine`: how the mail must concern the user, in one of these ways at least.
Search(scope, terms) ==
    [scope |-> scope, terms |-> terms,
     mine |-> IF scope = "received" THEN {"to:me", "cc:me"} ELSE {"from:me"}]

When(condition, term) == IF condition THEN {term} ELSE {}

\* `filled`: the text argument is no empty string, which sets no term.
\* `flag`: the value of the boolean argument.
get_recent_emails(a)   == Search("received", {})
get_unread_emails(a)   == Search("received", {"isRead:false"})
get_important_emails(a) ==
    Search("received", {IF a.flag THEN "importance:high" ELSE "importance:normal"})
\* isflagged = False is no term either: all mails are found.
get_flagged_emails(a)  == Search("received", When(a.flag, "isflagged:true"))
get_emails_sender(a)   == Search("received", When(a.filled, "from"))
get_emails_cc(a)       == Search("received", When(a.filled, "cc"))
get_email_attachment(a) == Search("received", {"hasattachment:true"})
search_recived_mails(a) == Search("received", When(a.filled, "keywords"))
search_category_mails(a) == Search("received", When(a.filled, "category"))
search_sent_mails(a)   == Search("sent", When(a.filled, "keywords"))
\* The folder's real id never is "sentitems": the date is the one of receipt.
\* Nothing but the dates filters a folder, whomever its mails are to.
get_emails_folder(a)   == [scope |-> "received", terms |-> {}, mine |-> {}]

Query(a) ==
    CASE a.tool = "get_recent_emails"    -> get_recent_emails(a)
      [] a.tool = "get_unread_emails"    -> get_unread_emails(a)
      [] a.tool = "get_important_emails" -> get_important_emails(a)
      [] a.tool = "get_flagged_emails"   -> get_flagged_emails(a)
      [] a.tool = "get_emails_sender"    -> get_emails_sender(a)
      [] a.tool = "get_emails_cc"        -> get_emails_cc(a)
      [] a.tool = "get_email_attachment" -> get_email_attachment(a)
      [] a.tool = "search_recived_mails" -> search_recived_mails(a)
      [] a.tool = "search_category_mails" -> search_category_mails(a)
      [] a.tool = "search_sent_mails"    -> search_sent_mails(a)
      [] a.tool = "get_emails_folder"    -> get_emails_folder(a)

-----------------------------------------------------------------------------
(* Dates.                                                                  *)

\* Days that are not given are the last seven and today, in KST.
FromDay(a) == IF a.from = None THEN Today - 7 ELSE a.from
ToDay(a)   == IF a.to = None THEN Today ELSE a.to

StartHour(day) == 24 * day - 9

\* Faulty variant: the end of the period is not set to the end of its day.
EndHourAtMidnight(day) == 24 * day - 9

\* 23:59:59 of the day.
EndHour(day) == 24 * day + 23 - 9

\* convert_to_kst shifts the times of every mail that is read.
InKst(m) ==
    LET Shift(h) == IF h = None THEN None ELSE h + 9
    IN  [m EXCEPT !.received = Shift(@), !.sent = Shift(@)]

Validated(mails) == [i \in DOMAIN mails |-> InKst(mails[i])]

-----------------------------------------------------------------------------
(* Order.                                                                  *)

\* Mails as Graph sends them and as they are read.
Mails == Mail \cup {InKst(m) : m \in Mail}

\* The elements of s at these places, arranged by a total order of the places.
Arranged(s, places, UpTo(_, _)) ==
    [k \in 1 .. Cardinality(places) |->
        s[CHOOSE i \in places : Cardinality({j \in places : UpTo(j, i)}) = k]]

-----------------------------------------------------------------------------
(* Graph.                                                                  *)

\* What Graph finds; a date that it does not return it does not compare.
Finds(a, m) ==
    LET at == m[Query(a).scope] IN
    /\ Query(a).mine # {} => Query(a).mine \cap m.terms # {}
    /\ Query(a).terms \subseteq m.terms
    /\ at # None => at \in StartHour(FromDay(a)) .. EndHour(ToDay(a))

Found(a) ==
    LET hits == {i \in DOMAIN box : Finds(a, box[i])}
    IN  Arranged(box, hits, <=)

-----------------------------------------------------------------------------
(* What search_emails makes of the pages.                                  *)

\* A missing time is sorted as the empty string, before every other.
Stamp(scope, m) == IF m[scope] = None THEN -1 ELSE m[scope]

\* Python's sort keeps the order of what compares equal, in both directions.
\* (Functions, because TLC evaluates the argument of a function once.)
OldestFirst(scope) ==
    [s \in Seq(Mails) |->
        LET At(i) == Stamp(scope, s[i]) IN
        Arranged(s, DOMAIN s, LAMBDA j, i :
            At(j) < At(i) \/ (At(j) = At(i) /\ j <= i))]

NewestFirst(scope) ==
    [s \in Seq(Mails) |->
        LET At(i) == Stamp(scope, s[i]) IN
        Arranged(s, DOMAIN s, LAMBDA j, i :
            At(j) > At(i) \/ (At(j) = At(i) /\ j <= i))]

\* The key of a mail in unique_threads.
Thread(m) == IF m.conversation # None THEN <<"conversation", m.conversation>>
                                      ELSE <<"mail", m.id>>

\* Faulty variant: what a thread has first is kept.
PutFirst(threads, m) ==
    IF \E t \in Range(threads) : Thread(t) = Thread(m) THEN threads ELSE Append(threads, m)

\* A dict keeps the place of a key whose value is overwritten.
Put(threads, m) ==
    IF \E t \in Range(threads) : Thread(t) = Thread(m)
    THEN [i \in DOMAIN threads |-> IF Thread(threads[i]) = Thread(m) THEN m ELSE threads[i]]
    ELSE Append(threads, m)

\* unique_threads after the loop over the mails.
UniqueThreads ==
    [mails \in Seq(Mails) |->
        LET step[threads \in Seq(Mails)] == [m \in Mails |-> Put(threads, m)]
            after[n \in 0 .. Len(mails)] ==
                IF n = 0 THEN <<>> ELSE step[after[n - 1]][mails[n]]
        IN  after[Len(mails)]]

\* [:top_k], which counts from the end if top_k is negative.
Cut(s, top_k) ==
    SubSeq(s, 1, IF top_k >= 0 THEN Min({top_k, Len(s)}) ELSE Max({Len(s) + top_k, 0}))

Result(scope, mails, top_k) ==
    Cut(NewestFirst(scope)[UniqueThreads[OldestFirst(scope)[mails]]], top_k)

\* max(1, min(top_k, 50))
NormalizedTopK(top_k) == Max({1, Min({top_k, MaxListed})})

-----------------------------------------------------------------------------
Init ==
    /\ pc = "idle"
    /\ ask = None
    /\ box \in Box
    /\ skip = 0
    /\ list = <<>>
    /\ answer = None
    /\ changes = 0

Start(a) ==
    /\ pc = "idle"
    /\ ask' = a
    /\ pc' = IF a.tool = "get_emails_folder" THEN "folder" ELSE "page"
    /\ UNCHANGED <<box, skip, list, answer, changes>>

\* Faulty variant: the path is not cleared after the last page, whose next link
\* is then read again and again.
PageArrivesForever ==
    /\ pc = "page"
    /\ skip' = IF skip = 0 THEN 1 ELSE 0
    /\ UNCHANGED <<pc, ask, box, list, answer, changes>>

\* A page holds the next results, as many as Graph likes; while there are
\* more, its next link leads to them.
PageArrives ==
    /\ pc = "page"
    /\ LET found == Found(ask)
           rest  == Max({Len(found) - skip, 0})
           first == Min({skip, Len(found)})
       IN \E n \in Min({1, rest}) .. rest :
             /\ list' = list \o SubSeq(found, first + 1, first + n)
             /\ \/ /\ n < rest
                   /\ skip' = skip + n
                   /\ UNCHANGED <<pc, answer>>
                \/ /\ n = rest
                   /\ answer' = Result(Query(ask).scope, Validated(list'), ask.top_k)
                   /\ pc' = "done"
                   /\ UNCHANGED skip
    /\ UNCHANGED <<ask, box, changes>>

\* One page of the folder, newest first; the service adds nothing to it.
ListingArrives ==
    /\ pc = "folder"
    /\ LET found == NewestFirst("received")[Found(ask)]
           page  == SubSeq(found, 1, Min({NormalizedTopK(ask.top_k), Len(found)}))
       IN  /\ list' = page
           /\ answer' = Validated(page)
    /\ pc' = "done"
    /\ UNCHANGED <<ask, box, skip, changes>>

\* A request fails: the pages fetched so far are dropped (ToolCall).
RequestFails ==
    /\ pc \in {"page", "folder"}
    /\ pc' = "done"
    /\ UNCHANGED <<ask, box, skip, list, answer, changes>>

\* While the search awaits a page, a mail comes or goes: what the next link
\* leads to may repeat a result or pass over one.
MailboxChanges ==
    /\ pc = "page" /\ changes < MaxChanges
    /\ changes' = changes + 1
    /\ \/ \E m \in Mail \ Range(box) : box' = <<m>> \o box
       \/ \E i \in DOMAIN box : box' = RemoveAt(box, i)
    /\ UNCHANGED <<pc, ask, skip, list, answer>>

GraphAnswers == RequestFails \/ ListingArrives \/ PageArrives

Next ==
    \/ \E a \in Ask : Start(a)
    \/ GraphAnswers
    \/ MailboxChanges

Spec == Init /\ [][Next]_vars

\* Every request ends (GraphClient).
FairSpec == Spec /\ WF_vars(GraphAnswers)

-----------------------------------------------------------------------------
(* Properties.                                                             *)

Answered == pc = "done" /\ answer # None

\* A search answers, of what it has fetched in whatever pages and however
\* often, the newest mail of every thread, newest first and at most top_k of
\* them, and leaves out none that is newer (mail_service.py:379-403).
NewestOfEachThread ==
    (Answered /\ ask.tool # "get_emails_folder") =>
        LET scope   == Query(ask).scope
            mails   == {InKst(m) : m \in Range(list)}
            threads == {Thread(m) : m \in mails}
            Newer(m, n) == Stamp(scope, m) > Stamp(scope, n)
        IN  /\ Range(answer) \subseteq mails
            /\ \A i, j \in DOMAIN answer : i < j =>
                  Thread(answer[i]) # Thread(answer[j]) /\ ~Newer(answer[j], answer[i])
            /\ \A m \in mails, i \in DOMAIN answer :
                  Newer(m, answer[i]) =>
                      \E j \in 1 .. i - 1 : Thread(answer[j]) = Thread(m)
            /\ ask.top_k >= 0 => Len(answer) = Min({ask.top_k, Cardinality(threads)})

\* What a tool answers is what its description promises, by days of the KST
\* calendar: of a mailbox that did not change a search sees exactly the mails of
\* these days that are to the user or were sent by the user and are of the kind
\* asked for, and a folder listing is the newest of the folder's, at least one
\* of them and at most MaxListed whatever top_k says (mail_tools.py:25-350).
ForOrByTheUser(m) ==
    CASE ask.tool = "get_emails_folder" -> TRUE
      [] ask.tool = "search_sent_mails" -> "from:me" \in m.terms
      [] OTHER -> "to:me" \in m.terms \/ "cc:me" \in m.terms

OfTheKind(m) ==
    /\ ask.tool = "get_unread_emails" => "isRead:false" \in m.terms
    /\ ask.tool = "get_important_emails" =>
          IF ask.flag THEN "importance:high" \in m.terms ELSE "importance:normal" \in m.terms
    /\ ask.tool = "get_email_attachment" => "hasattachment:true" \in m.terms
    /\ (ask.tool = "get_flagged_emails" /\ ask.flag) => "isflagged:true" \in m.terms
    /\ ask.filled =>
          /\ ask.tool = "get_emails_sender" => "from" \in m.terms
          /\ ask.tool = "get_emails_cc" => "cc" \in m.terms
          /\ ask.tool = "search_category_mails" => "category" \in m.terms
          /\ ask.tool \in {"search_recived_mails", "search_sent_mails"} =>
                "keywords" \in m.terms

AskedFor(m) ==
    LET at == IF ask.tool = "search_sent_mails" THEN m.sent ELSE m.received IN
    /\ ForOrByTheUser(m)
    /\ OfTheKind(m)
    /\ at # None => (at + 9) \div 24 \in FromDay(ask) .. ToDay(ask)

AnswersAskedFor ==
    Answered =>
        LET wanted == {InKst(m) : m \in {x \in Range(box) : AskedFor(x)}} IN
        /\ ask.tool = "get_emails_folder" =>
              /\ Range(answer) \subseteq wanted
              /\ Len(answer) <= MaxListed
              /\ Len(answer) >= Min({1, Cardinality(wanted)})
              /\ \A m \in wanted \ Range(answer) : \A i \in DOMAIN answer :
                    Stamp("received", m) <= Stamp("received", answer[i])
        /\ (ask.tool # "get_emails_folder" /\ changes = 0) =>
              Range(list) = {x \in Range(box) : AskedFor(x)}

\* Every search comes to its end: no next link leads in a circle.
SearchEnds == pc \in {"page", "folder"} ~> pc = "done"

=============================================================================
