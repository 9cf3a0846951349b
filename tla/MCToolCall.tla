----------------------------- MODULE MCToolCall -----------------------------
(* A small instance of ToolCall for TLC.  The first call is made with every  *)
(* kind of request; the second one is another user's search or folder        *)
(* listing that runs beside it.                                              *)
EXTENDS ToolCall, TLC

CONSTANTS c1, c2, alice, bob, company

MCCall == {c1, c2}
MCUser == {alice, bob}
MCKey  == {alice, bob, company}

\* Only alice works for the company.
MCKeysOf == [u \in MCUser |-> IF u = alice THEN {alice, company} ELSE {u}]

\* Nobody, the company in another case, and somebody else.
MCYellowLists == {{}, {[key |-> company, upper |-> TRUE]},
                  {[key |-> bob, upper |-> FALSE]}}

MCInputs ==
    (c1 :> {r \in Request :
        /\ r.user \in {alice, None}
        /\ r.args = "unconfirmed" => r.tool = "create_draft"
        /\ ~r.traced => r.tool = "search" /\ r.args = "good"
        \* Replying and forwarding have the shape of sending, the monthly
        \* report that of the weekly one.
        /\ r.tool \notin {"reply_email", "forward_email", "mail_monthly_report"}})
    @@
    (c2 :> {r \in Request :
        /\ r.user = bob /\ r.args = "good" /\ r.traced
        /\ r.tool \in {"search", "get_emails_folder"}})

=============================================================================
