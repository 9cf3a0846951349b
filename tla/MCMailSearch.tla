---------------------------- MODULE MCMailSearch ----------------------------
(* A small instance of MailSearch for TLC: two threads and a mail of its own *)
(* around the first and the last hour of the KST days 1 and 2, in mailboxes  *)
(* of up to three mails in every order.                                      *)
EXTENDS MailSearch, TLC

Mk(id, conversation, received, sent, terms) ==
    [id |-> id, conversation |-> conversation, received |-> received,
     sent |-> sent, terms |-> terms]

\* Hours 15 to 38 are day 1 in KST.  The last mail came by a list: it has what
\* every tool looks for, but is neither to the user nor by the user.
MCMail == {
    Mk(1, 1, 15, 15, {"to:me", "isRead:false", "importance:high", "from", "category"}),
    Mk(2, 1, 38, 38, {"cc:me", "from:me", "isRead:true", "importance:normal", "cc",
                      "keywords"}),
    Mk(3, None, 38, 37, {"to:me", "from:me", "isRead:false", "hasattachment:true",
                         "keywords"}),
    Mk(4, 2, 39, 14, {"cc:me", "from:me", "isRead:true", "isflagged:true", "keywords"}),
    Mk(5, 1, None, None, {"to:me", "from:me", "isRead:false", "keywords"}),
    Mk(6, 2, 38, 38, {"isRead:false", "importance:high", "importance:normal",
                      "isflagged:true", "hasattachment:true", "from", "cc",
                      "category", "keywords"})}

MCBox == {b \in UNION {[1 .. n -> MCMail] : n \in 0 .. 3} : IsInjective(b)}

Call(tool, from, to, top_k, flag) ==
    [tool |-> tool, from |-> from, to |-> to, top_k |-> top_k, flag |-> flag,
     filled |-> flag]

MCAsk ==
    {Call("get_recent_emails", 1, None, k, TRUE) : k \in {-1, 0, 1, 10}}
    \cup {Call("get_recent_emails", None, t, 10, TRUE) : t \in {2, None}}
    \cup {Call("search_sent_mails", 1, 1, k, TRUE) : k \in {1, 10}}
    \cup {Call("get_emails_folder", 1, 1, k, TRUE) : k \in {-1, 1, 10}}
    \cup {Call(t, 1, 2, 10, TRUE) :
          t \in {"get_unread_emails", "get_important_emails",
                 "get_flagged_emails", "get_emails_sender", "get_emails_cc",
                 "get_email_attachment", "search_recived_mails",
                 "search_category_mails"}}
    \cup {Call(t, 1, 2, 10, FALSE) :
          t \in {"get_important_emails", "get_flagged_emails", "get_emails_sender"}}

=============================================================================
