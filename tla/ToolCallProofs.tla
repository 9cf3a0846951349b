--------------------------- MODULE ToolCallProofs ---------------------------
(* Proofs for ToolCall.  They hold for any number of calls, users, yellow    *)
(* lists and pages.                                                          *)
EXTENDS ToolCall, TLAPS

\* How a call is left, the places of a call, a request on its way.
Ends == {"ok", "CmnAuthError", "GraphClientError", "ToolError", "Exception",
         "CancelledError"}

Places == {"idle", "context", "guard", "graph", "done"}

\* A user's context that is not on its own yellow list.
Known(c) ==
    /\ state[c].token = request[c].user /\ state[c].user = request[c].user
    /\ ~Blocked(state[c])

\* What is true of a call that has sent a request to Graph.
Sent(c) ==
    /\ Known(c)
    /\ request[c] \in Request /\ request[c].user # None /\ request[c].traced
    /\ request[c].args # "bad"
    /\ request[c].tool = "create_draft" => request[c].args = "good"
    /\ request[c].args = "badDate" => \A i \in DOMAIN trail[c] : trail[c][i].op = "folders"
    /\ \A i \in DOMAIN trail[c] :
          trail[c][i].token = request[c].user /\ trail[c][i].actor = request[c].user

\* What a call knows at each place.
Asked(c) ==
    /\ pc[c] # "idle" => request[c] \in Request
    /\ pc[c] \in {"idle", "context", "guard"} => trail[c] = <<>>
    /\ pc[c] \in {"context", "guard", "graph"} =>
          request[c].traced /\ request[c].user # None
    /\ pc[c] = "context" => state[c] = Anybody
    /\ pc[c] \in {"guard", "graph"} => Known(c) /\ context[c] = state[c]
    /\ pc[c] = "guard" => request[c].tool = "search"
    /\ pc[c] = "graph" => trail[c] # <<>>
    /\ trail[c] # <<>> => Sent(c)

\* Answer and log of a call.
Logged(c) ==
    /\ answer[c] = None <=> pc[c] # "done"
    /\ log[c] # None <=> answer[c] # None /\ request[c].traced
    /\ log[c] # None =>
          /\ log[c].status = "success" <=> answer[c] = "ok"
          /\ log[c].status = None <=> answer[c] = "cancelled"
          /\ log[c].phase = "stored" => request[c].user # None

-----------------------------------------------------------------------------
(* Parts of the actions.                                                   *)

\* What an end of a call is answered with and logged as.
LEMMA EndFacts ==
    ASSUME NEW end \in Ends
    PROVE  /\ Answered[end] \in Answers
           /\ Answered[end] = "ok" <=> end = "ok"
           /\ Answered[end] = "cancelled" <=> end = "CancelledError"
           /\ Answered[end] = "graph" <=> end = "GraphClientError"
           /\ Answered[end] = "cmn" <=> end = "CmnAuthError"
           /\ LogStatus(end) \in {"success", "error", None}
           /\ LogStatus(end) = "success" <=> end = "ok"
           /\ LogStatus(end) = None <=> end = "CancelledError"
BY NoneAssumption DEF Ends, Answered, Answers, LogStatus

\* The end of a call.
LEMMA FinishFacts ==
    ASSUME TypeOK, NEW c \in Call, NEW end \in Ends, Finish(c, end)
    PROVE  /\ pc' \in [Call -> Places]
           /\ answer' \in [Call -> Answers \cup {None}]
           /\ log' \in [Call -> LogRecord \cup {None}]
           /\ pc'[c] = "done" /\ answer'[c] = Answered[end]
           /\ log'[c] = [status |-> LogStatus(end), phase |-> "ready"]
           /\ \A d \in Call : d # c =>
                 pc'[d] = pc[d] /\ answer'[d] = answer[d] /\ log'[d] = log[d]
BY EndFacts DEF TypeOK, Finish, Places, LogRecord

\* A request to Graph.
LEMMA SendFacts ==
    ASSUME TypeOK, NEW c \in Call, NEW ctx \in Context, NEW op \in Ops,
           Send(c, ctx, op)
    PROVE  /\ pc' \in [Call -> Places] /\ trail' \in [Call -> Seq(GraphRequest)]
           /\ pc'[c] = "graph" /\ trail'[c] = Append(trail[c], Sending(ctx, op))
           /\ UNCHANGED <<answer, log>>
           /\ \A d \in Call : d # c => pc'[d] = pc[d] /\ trail'[d] = trail[d]
<1>1. Sending(ctx, op) \in GraphRequest
  BY DEF Sending, GraphRequest, Context
<1>2. Append(trail[c], Sending(ctx, op)) \in Seq(GraphRequest)
  BY <1>1 DEF TypeOK
<1>3. trail' = [trail EXCEPT ![c] = Append(trail[c], Sending(ctx, op))]
  BY DEF Send, Sending, TypeOK
<1>. QED  BY <1>2, <1>3 DEF TypeOK, Send, Places

\* How often a request may have been carried out, told by its outcome.
LEMMA TimesFacts ==
    ASSUME NEW out \in Outcomes
    PROVE  /\ Graph!Times(Returned(out)) \subseteq {0, 1}
           /\ out = "ok" => Graph!Times(Returned(out)) = {1}
           /\ out = "GraphError" => Graph!Times(Returned(out)) = {0}
BY DEF Graph!Times, Returned, Outcomes

\* The last request of a trail is over.
LEMMA EndedFacts ==
    ASSUME NEW s \in Seq(GraphRequest), s # <<>>, NEW out \in Outcomes,
           NEW times \in {0, 1}
    PROVE  LET t == Ended(s, out, times) IN
           /\ t \in Seq(GraphRequest) /\ t # <<>> /\ Len(t) = Len(s)
           /\ t[Len(t)].outcome = out /\ t[Len(t)].times = times
           /\ \A i \in 1 .. Len(s) :
                 /\ t[i].op = s[i].op /\ t[i].token = s[i].token
                 /\ t[i].actor = s[i].actor
                 /\ i < Len(s) => t[i] = s[i]
<1>. DEFINE n == Len(s)
            g == [s[n] EXCEPT !.outcome = out, !.times = times]
            t == [s EXCEPT ![n] = g]
<1>1. n \in Nat /\ n \in 1 .. Len(s) /\ s[n] \in GraphRequest  OBVIOUS
<1>2. g \in GraphRequest /\ g.outcome = out /\ g.times = times
      /\ g.op = s[n].op /\ g.token = s[n].token /\ g.actor = s[n].actor
  BY <1>1 DEF GraphRequest
<1>. HIDE DEF g
<1>3. t \in Seq(GraphRequest) /\ Len(t) = n  BY <1>1, <1>2
<1>4. \A i \in 1 .. Len(s) : t[i] = IF i = n THEN g ELSE s[i]  BY <1>1
<1>. QED  BY <1>1, <1>2, <1>3, <1>4 DEF Ended, g

\* A request is over.
LEMMA OverFacts ==
    ASSUME TypeOK, NEW c \in Call, trail[c] # <<>>, NEW out \in Outcomes, Over(c, out)
    PROVE  \E times \in Graph!Times(Returned(out)) :
              /\ trail' \in [Call -> Seq(GraphRequest)]
              /\ trail'[c] = Ended(trail[c], out, times)
              /\ \A d \in Call : d # c => trail'[d] = trail[d]
<1>1. trail[c] \in Seq(GraphRequest)  BY DEF TypeOK
<1>2. PICK times \in Graph!Times(Returned(out)) :
          trail' = [trail EXCEPT ![c] = Ended(trail[c], out, times)]
  BY DEF Over, TypeOK
<1>3. Ended(trail[c], out, times) \in Seq(GraphRequest)
  BY <1>1, EndedFacts, TimesFacts
<1>. QED  BY <1>2, <1>3 DEF TypeOK

\* A request to Graph ends the call.
LEMMA ConcludeFacts ==
    ASSUME TypeOK, NEW c \in Call, trail[c] # <<>>, NEW out \in Outcomes,
           NEW end \in Ends, Conclude(c, out, end)
    PROVE  /\ pc[c] = "graph"
           /\ Finish(c, end)
           /\ \E times \in Graph!Times(Returned(out)) :
                 /\ trail' \in [Call -> Seq(GraphRequest)]
                 /\ trail'[c] = Ended(trail[c], out, times)
                 /\ \A d \in Call : d # c => trail'[d] = trail[d]
           /\ UNCHANGED <<request, state, context>>
BY OverFacts DEF Conclude

\* The first request of a tool.
LEMMA FirstOpFacts ==
    ASSUME NEW tool \in Tools \ (Broken \cup {"search"})
    PROVE  /\ FirstOp[tool] \in Ops
           /\ tool = "get_email_detail" => FirstOp[tool] = "detail"
           /\ tool = "get_emails_folder" => FirstOp[tool] = "folders"
           /\ tool \in WriteTools => FirstOp[tool] \in WriteOps
<1>1. tool \in WriteTools \cup {"get_email_detail", "get_emails_folder"}
  BY DEF Tools
<1>. QED  BY <1>1 DEF FirstOp, WriteTools, Ops, WriteOps

-----------------------------------------------------------------------------
(* The work of a tool.                                                     *)

\* How far a tool is that awaits the last request of t.
Underway(tool, t) ==
    /\ tool \notin Broken
    /\ tool = "search" =>
          \A i \in 1 .. Len(t) : t[i].op = "page" /\ (i < Len(t) => t[i].outcome = "more")
    /\ tool = "get_email_detail" =>
          \/ Len(t) = 1 /\ t[1].op = "detail"
          \/ Len(t) = 2 /\ t[1].op = "detail" /\ t[1].outcome = "ok" /\ t[2].op = "read"
    /\ tool = "get_emails_folder" =>
          \/ Len(t) = 1 /\ t[1].op = "folders"
          \/ /\ Len(t) = 2 /\ t[1].op = "folders" /\ t[1].outcome = "one"
             /\ t[2].op = "messages"
    /\ tool \in WriteTools => Len(t) = 1 /\ t[1].op = FirstOp[tool]

\* What a trail of a tool that succeeded looks like.
WorkDone(tool, t) ==
    LET ops  == [i \in DOMAIN t |-> t[i].op]
        outs == [i \in DOMAIN t |-> t[i].outcome]
    IN  /\ outs # <<>> /\ outs[Len(outs)] = "ok"
        /\ tool = "search" =>
              \A i \in DOMAIN ops : ops[i] = "page" /\ (i < Len(ops) => outs[i] = "more")
        /\ tool = "get_email_detail" => ops = <<"detail", "read">> /\ outs[1] = "ok"
        /\ tool = "get_emails_folder" => ops = <<"folders", "messages">> /\ outs[1] = "one"
        /\ tool \in WriteTools => ops = <<FirstOp[tool]>>

\* The last request of a tool's work has ended well.
LEMMA DoneFacts ==
    ASSUME NEW tool \in Tools, NEW s \in Seq(GraphRequest), s # <<>>,
           Underway(tool, s),
           s[Len(s)].op \in {"page", "read", "messages"} \cup WriteOps
    PROVE  WorkDone(tool, Ended(s, "ok", 1))
<1>. DEFINE t == Ended(s, "ok", 1)  n == Len(s)
            ops  == [i \in DOMAIN t |-> t[i].op]
            outs == [i \in DOMAIN t |-> t[i].outcome]
<1>1. /\ t \in Seq(GraphRequest) /\ Len(t) = n /\ t[n].outcome = "ok"
      /\ \A i \in 1 .. n : t[i].op = s[i].op /\ (i < n => t[i] = s[i])
  BY EndedFacts, "ok" \in Outcomes DEF Outcomes, Good
<1>2. n \in Nat \ {0} /\ DOMAIN t = 1 .. n  BY <1>1
<1>. HIDE DEF t
<1>3. /\ ops \in Seq(Ops) /\ Len(ops) = n
      /\ outs \in Seq(Outcomes \cup {None}) /\ Len(outs) = n
  <2>1. \A i \in 1 .. n : t[i] \in GraphRequest  BY <1>1, <1>2
  <2>2. \A i \in 1 .. n : t[i].op \in Ops /\ t[i].outcome \in Outcomes \cup {None}
    BY <2>1 DEF GraphRequest
  <2>3. ops = [i \in 1 .. n |-> t[i].op] /\ outs = [i \in 1 .. n |-> t[i].outcome]
    BY <1>2
  <2>. QED  BY <1>2, <2>2, <2>3
<1>4. outs # <<>> /\ outs[Len(outs)] = "ok"  BY <1>1, <1>2, <1>3
<1>5. \A i \in 1 .. n : /\ ops[i] = s[i].op
                        /\ i < n => outs[i] = s[i].outcome
  BY <1>1, <1>2
<1>6. tool = "search" =>
          \A i \in DOMAIN ops : ops[i] = "page" /\ (i < Len(ops) => outs[i] = "more")
  BY <1>2, <1>3, <1>5 DEF Underway
<1>7. ASSUME tool = "get_email_detail"
      PROVE  ops = <<"detail", "read">> /\ outs[1] = "ok"
  <2>1. n = 2 /\ s[1].op = "detail" /\ s[1].outcome = "ok" /\ s[2].op = "read"
    BY <1>7 DEF Underway, WriteOps
  <2>. QED  BY <1>2, <1>3, <1>5, <2>1
<1>8. ASSUME tool = "get_emails_folder"
      PROVE  ops = <<"folders", "messages">> /\ outs[1] = "one"
  <2>1. n = 2 /\ s[1].op = "folders" /\ s[1].outcome = "one" /\ s[2].op = "messages"
    BY <1>8 DEF Underway, WriteOps
  <2>. QED  BY <1>2, <1>3, <1>5, <2>1
<1>9. ASSUME tool \in WriteTools PROVE ops = <<FirstOp[tool]>>
  <2>1. n = 1 /\ s[1].op = FirstOp[tool]  BY <1>9 DEF Underway
  <2>. QED  BY <1>2, <1>3, <1>5, <2>1
<1>. QED  BY <1>4, <1>6, <1>7, <1>8, <1>9 DEF WorkDone, t

\* A request of a tool's work has ended well and the next one is sent.
LEMMA NextUnderway ==
    ASSUME NEW tool \in Tools, NEW s \in Seq(GraphRequest), s # <<>>,
           Underway(tool, s), NEW ctx \in Context, NEW out, NEW op, NEW times \in {0, 1},
           \/ s[Len(s)].op = "page" /\ out = "more" /\ op = "page"
           \/ s[Len(s)].op = "detail" /\ out = "ok" /\ op = "read"
           \/ s[Len(s)].op = "folders" /\ out = "one" /\ op = "messages"
    PROVE  Underway(tool, Append(Ended(s, out, times), Sending(ctx, op)))
<1>. SUFFICES ASSUME NEW t, t = Ended(s, out, times), NEW x, x = Sending(ctx, op),
                     NEW a, a = Append(t, x)
              PROVE  Underway(tool, a)
  OBVIOUS
<1>. DEFINE n == Len(s)
<1>0. out \in Outcomes /\ op \in Ops  BY DEF Outcomes, Good, Ops
<1>1. /\ t \in Seq(GraphRequest) /\ Len(t) = n /\ t[n].outcome = out
      /\ \A i \in 1 .. n : t[i].op = s[i].op /\ (i < n => t[i] = s[i])
  <2>1. \A u : u = Ended(s, out, times) =>
           /\ u \in Seq(GraphRequest) /\ Len(u) = n /\ u[Len(u)].outcome = out
           /\ \A i \in 1 .. n : u[i].op = s[i].op /\ (i < n => u[i] = s[i])
    BY <1>0, EndedFacts, SMTT(60)
  <2>. QED  BY <2>1, Zenon
<1>2. x \in GraphRequest /\ x.op = op
  BY <1>0 DEF Sending, GraphRequest, Context
<1>3. n \in Nat \ {0}  OBVIOUS
<1>4. /\ Len(a) = n + 1 /\ a[n + 1] = x
      /\ \A i \in 1 .. n : a[i] = t[i]
  BY <1>1, <1>2, <1>3
<1>5. tool \notin WriteTools
  <2>1. ASSUME tool \in WriteTools PROVE FALSE
    <3>1. tool \in Tools \ (Broken \cup {"search"})  BY <2>1 DEF Tools, WriteTools, Broken
    <3>2. FirstOp[tool] \in WriteOps  BY <2>1, <3>1, FirstOpFacts
    <3>3. s[Len(s)].op = FirstOp[tool]  BY <2>1 DEF Underway
    <3>. QED  BY <3>2, <3>3 DEF WriteOps
  <2>. QED  BY <2>1
<1>6. CASE tool = "search"
  <2>1. s[n].op = "page"  BY <1>3, <1>6 DEF Underway
  <2>2. op = "page" /\ out = "more"  BY <2>1
  <2>3. \A i \in 1 .. n : a[i].op = "page" /\ a[i].outcome = "more"
    <3>. SUFFICES ASSUME NEW i \in 1 .. n
                  PROVE  a[i].op = "page" /\ a[i].outcome = "more"
      OBVIOUS
    <3>1. s[i].op = "page" /\ (i < n => s[i].outcome = "more")  BY <1>6 DEF Underway
    <3>. QED  BY <1>1, <1>3, <1>4, <2>2, <3>1
  <2>. QED  BY <1>2, <1>3, <1>4, <1>6, <2>2, <2>3 DEF Underway, Broken, WriteTools
<1>7. CASE tool = "get_email_detail"
  <2>1. n = 1 /\ s[1].op = "detail" /\ out = "ok" /\ op = "read"  BY <1>7 DEF Underway
  <2>. QED  BY <1>1, <1>2, <1>4, <1>7, <2>1 DEF Underway, Broken, WriteTools
<1>8. CASE tool = "get_emails_folder"
  <2>1. n = 1 /\ s[1].op = "folders" /\ out = "one" /\ op = "messages"
    BY <1>8 DEF Underway
  <2>. QED  BY <1>1, <1>2, <1>4, <1>8, <2>1 DEF Underway, Broken, WriteTools
<1>. QED  BY <1>5, <1>6, <1>7, <1>8 DEF Tools, Underway

\* The first request of a tool is on its way.
LEMMA FirstUnderway ==
    ASSUME NEW tool \in Tools \ Broken, NEW ctx \in Context, NEW op,
           op = IF tool = "search" THEN "page" ELSE FirstOp[tool]
    PROVE  Underway(tool, Append(<<>>, Sending(ctx, op)))
<1>. SUFFICES ASSUME NEW x, x = Sending(ctx, op), NEW a, a = Append(<<>>, x)
              PROVE  Underway(tool, a)
  OBVIOUS
<1>1. x.op = op  BY DEF Sending
<1>2. Len(a) = 1 /\ a[1] = x  OBVIOUS
<1>3. CASE tool = "search"
  BY <1>1, <1>2, <1>3 DEF Underway, WriteTools
<1>4. CASE tool # "search"
  <2>1. /\ tool = "get_email_detail" => op = "detail"
        /\ tool = "get_emails_folder" => op = "folders"
        /\ op = FirstOp[tool]
    BY <1>4, FirstOpFacts
  <2>. QED  BY <1>1, <1>2, <1>4, <2>1 DEF Underway
<1>. QED  BY <1>3, <1>4

\* A write is the only request of its call.
OneWrite(t) == \A i \in DOMAIN t : t[i].op \in WriteOps => Len(t) = 1

\* Nothing was sent.
LEMMA EmptyOneWrite == OneWrite(<<>>)
BY DEF OneWrite

\* A tool under way writes once.
LEMMA UnderwayOneWrite ==
    ASSUME NEW tool \in Tools, NEW t \in Seq(GraphRequest), Underway(tool, t)
    PROVE  OneWrite(t)
<1>. SUFFICES ASSUME NEW i \in 1 .. Len(t), t[i].op \in WriteOps
              PROVE  Len(t) = 1
  BY DEF OneWrite
<1>1. t[i].op \notin {"page", "detail", "read", "folders", "messages"}
  BY DEF WriteOps
<1>2. CASE tool = "search"
  BY <1>1, <1>2 DEF Underway
<1>3. CASE tool \in {"get_email_detail", "get_emails_folder"}
  BY <1>1, <1>3 DEF Underway
<1>4. CASE tool \in WriteTools
  BY <1>4 DEF Underway
<1>. QED  BY <1>2, <1>3, <1>4 DEF Tools, Underway

\* It is one whether it is over or not.
LEMMA EndedOneWrite ==
    ASSUME NEW s \in Seq(GraphRequest), s # <<>>, NEW out \in Outcomes,
           NEW times \in {0, 1}, OneWrite(s)
    PROVE  OneWrite(Ended(s, out, times))
<1>. SUFFICES ASSUME NEW t, t = Ended(s, out, times)
              PROVE  OneWrite(t)
  OBVIOUS
<1>1. t \in Seq(GraphRequest) /\ Len(t) = Len(s)
      /\ \A i \in 1 .. Len(s) : t[i].op = s[i].op
  BY EndedFacts
<1>. QED  BY <1>1 DEF OneWrite

-----------------------------------------------------------------------------
(* The invariant.                                                          *)

\* What a call has done, told by its answer.
Working(c) ==
    /\ pc[c] = "graph" => Underway(request[c].tool, trail[c])
    /\ answer[c] = "ok" =>
          WorkDone(request[c].tool, trail[c]) /\ trail[c][Len(trail[c])].times = 1
    /\ answer[c] = "graph" =>
          \/ trail[c] = <<>> /\ Blocked(state[c])
          \/ /\ trail[c] # <<>> /\ trail[c][Len(trail[c])].outcome = "GraphError"
             /\ trail[c][Len(trail[c])].times = 0
    /\ OneWrite(trail[c])
    /\ answer[c] = "cmn" => trail[c] = <<>> /\ state[c].user = None

Fine(c) == Asked(c) /\ Logged(c) /\ Working(c)

IInv == TypeOK /\ \A c \in Call : Fine(c)

\* A step of c leaves the other calls alone.
Others(c) ==
    \A d \in Call : d # c =>
        /\ pc'[d] = pc[d] /\ request'[d] = request[d] /\ state'[d] = state[d]
        /\ context'[d] = context[d] /\ trail'[d] = trail[d]
        /\ answer'[d] = answer[d] /\ log'[d] = log[d]

\* What a step of c has to keep.
Keeps(c) == TypeOK' /\ Others(c) /\ Fine(c)'

\* A step of c keeps what is true of the other calls.
LEMMA OthersFine ==
    ASSUME NEW c \in Call, NEW d \in Call, d # c, Others(c), Fine(d)
    PROVE  Fine(d)'
<1>1. /\ pc'[d] = pc[d] /\ request'[d] = request[d] /\ state'[d] = state[d]
      /\ context'[d] = context[d] /\ trail'[d] = trail[d]
      /\ answer'[d] = answer[d] /\ log'[d] = log[d]
  BY DEF Others
<1>2. Asked(d)'  BY <1>1 DEF Fine, Asked, Sent, Known, Blocked
<1>3. Logged(d)'  BY <1>1 DEF Fine, Logged
<1>4. Working(d)'  BY <1>1 DEF Fine, Working, Blocked
<1>. QED  BY <1>2, <1>3, <1>4 DEF Fine

\* The types that no end of a call changes.
Typed ==
    /\ request' \in [Call -> Request \cup {None}]
    /\ state' \in [Call -> Context]
    /\ context' \in [Call -> Context]
    /\ trail' \in [Call -> Seq(GraphRequest)]

\* The other calls' requests, states, contexts and trails are left alone.
OthersData(c) ==
    \A d \in Call : d # c =>
        /\ request'[d] = request[d] /\ state'[d] = state[d]
        /\ context'[d] = context[d] /\ trail'[d] = trail[d]

\* A call that ends keeps the invariant, if its end fits its trail.
LEMMA FinishFine ==
    ASSUME TypeOK, NEW c \in Call, NEW end \in Ends, Finish(c, end),
           Typed, OthersData(c),
           request'[c] \in Request, request'[c].traced,
           trail'[c] # <<>> => Sent(c)',
           OneWrite(trail'[c]),
           end = "ok" => /\ WorkDone(request[c].tool, trail[c])'
                         /\ trail'[c][Len(trail'[c])].times = 1,
           end = "GraphClientError" =>
               \/ trail'[c] = <<>> /\ Blocked(state'[c])
               \/ /\ trail'[c] # <<>> /\ trail'[c][Len(trail'[c])].outcome = "GraphError"
                  /\ trail'[c][Len(trail'[c])].times = 0,
           end = "CmnAuthError" => trail'[c] = <<>> /\ state'[c].user = None
    PROVE  Keeps(c)
<1>1. /\ pc' \in [Call -> Places]
      /\ answer' \in [Call -> Answers \cup {None}]
      /\ log' \in [Call -> LogRecord \cup {None}]
      /\ pc'[c] = "done" /\ answer'[c] = Answered[end]
      /\ log'[c] = [status |-> LogStatus(end), phase |-> "ready"]
      /\ \A d \in Call : d # c =>
            pc'[d] = pc[d] /\ answer'[d] = answer[d] /\ log'[d] = log[d]
  BY FinishFacts
<1>2. TypeOK'  BY <1>1 DEF TypeOK, Typed, Places
<1>3. Others(c)  BY <1>1 DEF Others, OthersData
<1>4. Asked(c)'  BY <1>1 DEF Asked
<1>5. Logged(c)'
  <2>1. Answered[end] \in Answers /\ LogStatus(end) \in {"success", "error", None}
    BY EndFacts
  <2>2. answer'[c] # None /\ log'[c] # None
    BY <1>1, <2>1, NoneAssumption DEF Answers
  <2>. QED  BY <1>1, <2>2, EndFacts DEF Logged
<1>6. Working(c)'  BY <1>1, EndFacts DEF Working
<1>. QED  BY <1>2, <1>3, <1>4, <1>5, <1>6 DEF Keeps, Fine

\* A call that has sent something has sent it as before when a request ends.
LEMMA SentEnded ==
    ASSUME TypeOK, NEW c \in Call, Sent(c), trail[c] # <<>>, NEW out \in Outcomes,
           NEW times \in {0, 1}, trail'[c] = Ended(trail[c], out, times),
           UNCHANGED <<request, state>>
    PROVE  Sent(c)'
<1>1. trail[c] \in Seq(GraphRequest)  BY DEF TypeOK
<1>2. ASSUME NEW s \in Seq(GraphRequest), s # <<>>, NEW t, t = Ended(s, out, times)
      PROVE  /\ t \in Seq(GraphRequest) /\ Len(t) = Len(s)
             /\ \A i \in 1 .. Len(s) :
                   t[i].token = s[i].token /\ t[i].actor = s[i].actor /\ t[i].op = s[i].op
  <2>1. /\ Ended(s, out, times) \in Seq(GraphRequest) /\ Len(Ended(s, out, times)) = Len(s)
        /\ \A i \in 1 .. Len(s) :
              /\ Ended(s, out, times)[i].token = s[i].token
              /\ Ended(s, out, times)[i].actor = s[i].actor
              /\ Ended(s, out, times)[i].op = s[i].op
    BY <1>2, EndedFacts
  <2>. QED  BY <1>2, <2>1
<1>3. /\ trail'[c] \in Seq(GraphRequest) /\ Len(trail'[c]) = Len(trail[c])
      /\ \A i \in 1 .. Len(trail[c]) :
            /\ trail'[c][i].token = trail[c][i].token
            /\ trail'[c][i].actor = trail[c][i].actor
            /\ trail'[c][i].op = trail[c][i].op
  BY <1>1, <1>2
<1>. QED  BY <1>1, <1>3 DEF Sent, Known, Blocked

\* A request that ends the call keeps the invariant.
LEMMA ConcludeFine ==
    ASSUME IInv, NEW c \in Call, NEW out \in Outcomes,
           NEW end \in {"ok", "GraphClientError", "ToolError", "Exception", "CancelledError"},
           Conclude(c, out, end),
           end = "ok" =>
               /\ out = "ok"
               /\ trail[c][Len(trail[c])].op \in {"page", "read", "messages"} \cup WriteOps,
           end = "GraphClientError" => out = "GraphError"
    PROVE  Keeps(c)
<1>1. TypeOK /\ Fine(c) /\ pc[c] = "graph"  BY DEF IInv, Conclude
<1>2. trail[c] # <<>> /\ Sent(c)  BY <1>1 DEF Fine, Asked
<1>3. Finish(c, end) /\ UNCHANGED <<request, state, context>>
  BY <1>1, <1>2, ConcludeFacts DEF Ends
<1>4. PICK times \in Graph!Times(Returned(out)) :
         /\ trail' \in [Call -> Seq(GraphRequest)]
         /\ trail'[c] = Ended(trail[c], out, times)
         /\ \A d \in Call : d # c => trail'[d] = trail[d]
  BY <1>1, <1>2, ConcludeFacts DEF Ends
<1>5. times \in {0, 1} /\ (out = "ok" => times = 1) /\ (out = "GraphError" => times = 0)
  BY TimesFacts
<1>6. Typed /\ OthersData(c)  BY <1>1, <1>3, <1>4 DEF Typed, OthersData, TypeOK
<1>7. Sent(c)'  BY <1>1, <1>2, <1>3, <1>4, <1>5, SentEnded
<1>8. request'[c] \in Request /\ request'[c].traced /\ request'[c].tool \in Tools
  BY <1>2, <1>3 DEF Sent, Request
<1>9. trail[c] \in Seq(GraphRequest)  BY <1>1 DEF TypeOK
<1>10. /\ trail'[c] # <<>> /\ trail'[c][Len(trail'[c])].outcome = out
       /\ trail'[c][Len(trail'[c])].times = times
  <2>. SUFFICES ASSUME NEW t, t = Ended(trail[c], out, times)
                PROVE  t # <<>> /\ t[Len(t)].outcome = out /\ t[Len(t)].times = times
    BY <1>4
  <2>. QED  BY <1>2, <1>5, <1>9, EndedFacts
<1>11. OneWrite(trail'[c])
  BY <1>1, <1>2, <1>4, <1>5, <1>9, EndedOneWrite DEF Fine, Working
<1>12. end = "ok" => WorkDone(request[c].tool, trail[c])'
  BY <1>1, <1>2, <1>3, <1>4, <1>5, <1>8, <1>9, DoneFacts DEF Fine, Working
<1>. QED  BY <1>1, <1>3, <1>5, <1>6, <1>7, <1>8, <1>10, <1>11, <1>12, FinishFine DEF Ends

\* A request that is followed by the next one keeps the invariant.
LEMMA ContinueFine ==
    ASSUME IInv, NEW c \in Call, pc[c] = "graph", request[c].args # "badDate",
           NEW out, NEW op, NEW times \in {0, 1},
           \/ trail[c][Len(trail[c])].op = "page" /\ out = "more" /\ op = "page"
           \/ trail[c][Len(trail[c])].op = "detail" /\ out = "ok" /\ op = "read"
           \/ trail[c][Len(trail[c])].op = "folders" /\ out = "one" /\ op = "messages",
           trail' = [trail EXCEPT ![c] =
                        Append(Ended(trail[c], out, times), Sending(state[c], op))],
           UNCHANGED <<pc, request, state, context, answer, log>>
    PROVE  Keeps(c)
<1>1. TypeOK /\ Fine(c)  BY DEF IInv
<1>2. /\ trail[c] # <<>> /\ Sent(c) /\ trail[c] \in Seq(GraphRequest)
      /\ state[c] \in Context
  BY <1>1 DEF Fine, Asked, TypeOK
<1>3. out \in Outcomes /\ op \in Ops  BY DEF Outcomes, Good, Ops
<1>. DEFINE e == Ended(trail[c], out, times)  x == Sending(state[c], op)
<1>4. /\ e \in Seq(GraphRequest) /\ Len(e) = Len(trail[c])
      /\ \A i \in 1 .. Len(trail[c]) :
            e[i].token = trail[c][i].token /\ e[i].actor = trail[c][i].actor
  BY <1>2, <1>3, EndedFacts
<1>5. x \in GraphRequest /\ x.token = state[c].token /\ x.actor = state[c].user
  BY <1>2, <1>3 DEF Sending, GraphRequest, Context
<1>6. request[c].tool \in Tools  BY <1>2 DEF Sent, Request
<1>7. Underway(request[c].tool, Append(e, x))
  BY <1>1, <1>2, <1>6, NextUnderway DEF Fine, Working
<1>. HIDE DEF e, x
<1>8. Append(e, x) \in Seq(GraphRequest) /\ Append(e, x) # <<>>
  <2>. SUFFICES ASSUME NEW R, NEW f \in Seq(R), NEW y \in R
                PROVE  Append(f, y) \in Seq(R) /\ Append(f, y) # <<>>
    BY <1>4, <1>5
  <2>. QED  OBVIOUS
<1>9. trail'[c] = Append(e, x) /\ trail' \in [Call -> Seq(GraphRequest)]
      /\ \A d \in Call : d # c => trail'[d] = trail[d]
  BY <1>1, <1>8 DEF TypeOK, e, x
<1>10. TypeOK'  BY <1>1, <1>9 DEF TypeOK
<1>11. Others(c)  BY <1>9 DEF Others
<1>12. Sent(c)'
  <2>1. \A i \in DOMAIN trail'[c] :
            trail'[c][i].token = request[c].user /\ trail'[c][i].actor = request[c].user
    <3>. SUFFICES ASSUME NEW i \in DOMAIN Append(e, x)
                  PROVE  /\ Append(e, x)[i].token = request[c].user
                         /\ Append(e, x)[i].actor = request[c].user
      BY <1>9
    <3>1. i \in 1 .. Len(e) + 1  BY <1>4, <1>5
    <3>2. CASE i \in 1 .. Len(e)
      <4>1. Append(e, x)[i] = e[i]  BY <1>4, <1>5, <3>2
      <4>. QED  BY <1>2, <1>4, <3>2, <4>1 DEF Sent
    <3>3. CASE i = Len(e) + 1
      <4>1. Append(e, x)[i] = x  BY <1>4, <1>5, <3>3
      <4>. QED  BY <1>2, <1>5, <4>1 DEF Sent, Known
    <3>. QED  BY <1>4, <3>1, <3>2, <3>3
  <2>. QED  BY <1>2, <2>1 DEF Sent, Known, Blocked
<1>13. Asked(c)'  BY <1>1, <1>8, <1>9, <1>12 DEF Fine, Asked, Known, Blocked
<1>14. Logged(c)'  BY <1>1 DEF Fine, Logged
<1>15. Working(c)'
  <2>1. OneWrite(Append(e, x))  BY <1>6, <1>7, <1>8, UnderwayOneWrite
  <2>. QED  BY <1>1, <1>7, <1>9, <2>1, NoneAssumption DEF Fine, Working, Logged, x
<1>. QED  BY <1>10, <1>11, <1>13, <1>14, <1>15 DEF Keeps, Fine

\* The first request of a call keeps the invariant.
LEMMA SendFine ==
    ASSUME TypeOK, NEW c \in Call, NEW r \in Request, NEW st \in Context, NEW op,
           trail[c] = <<>>, answer[c] = None, log[c] = None,
           r.traced, r.user # None, r.args # "bad", r.tool \notin Broken,
           r.tool = "create_draft" => r.args = "good",
           r.args = "badDate" => r.tool = "get_emails_folder",
           st.token = r.user, st.user = r.user, ~Blocked(st),
           op = IF r.tool = "search" THEN "page" ELSE FirstOp[r.tool],
           Send(c, st, op),
           request' \in [Call -> Request \cup {None}], request'[c] = r,
           state' \in [Call -> Context], state'[c] = st,
           context' \in [Call -> Context], context'[c] = st,
           \A d \in Call : d # c =>
              /\ request'[d] = request[d] /\ state'[d] = state[d]
              /\ context'[d] = context[d]
    PROVE  Keeps(c)
<1>1. r.tool \in Tools  BY DEF Request
<1>2. op \in Ops  BY <1>1, FirstOpFacts DEF Ops
<1>3. /\ pc' \in [Call -> Places] /\ trail' \in [Call -> Seq(GraphRequest)]
      /\ pc'[c] = "graph" /\ trail'[c] = Append(<<>>, Sending(st, op))
      /\ UNCHANGED <<answer, log>>
      /\ \A d \in Call : d # c => pc'[d] = pc[d] /\ trail'[d] = trail[d]
  BY <1>2, SendFacts
<1>4. Underway(r.tool, Append(<<>>, Sending(st, op)))  BY <1>1, FirstUnderway
<1>5. TypeOK'  BY <1>3 DEF TypeOK, Places
<1>6. Others(c)  BY <1>3 DEF Others
<1>7. Known(c)'  BY DEF Known, Blocked
<1>8. trail'[c] # <<>> /\ Sent(c)'
  <2>. SUFFICES ASSUME NEW x, x = Sending(st, op), NEW t, t = Append(<<>>, x), trail'[c] = t
                PROVE  trail'[c] # <<>> /\ Sent(c)'
    BY <1>3
  <2>1. Len(t) = 1 /\ t[1] = x /\ DOMAIN t = {1} /\ t # <<>>  OBVIOUS
  <2>2. x.token = r.user /\ x.actor = r.user /\ x.op = op  BY DEF Sending
  <2>3. r.args = "badDate" => op = "folders"  BY <1>1, FirstOpFacts DEF Broken
  <2>. QED  BY <1>7, <2>1, <2>2, <2>3 DEF Sent
<1>9. Asked(c)'  BY <1>3, <1>7, <1>8 DEF Asked
<1>10. Logged(c)'  BY <1>3 DEF Logged
<1>11. OneWrite(trail'[c])
  BY <1>1, <1>3, <1>4, UnderwayOneWrite
<1>12. Working(c)'  BY <1>3, <1>4, <1>11, NoneAssumption DEF Working
<1>. QED  BY <1>5, <1>6, <1>9, <1>10, <1>12 DEF Keeps, Fine

\* Entering a tool keeps the invariant.
LEMMA EnterFine ==
    ASSUME TypeOK, NEW c \in Call, NEW r \in Request, NEW st \in Context,
           trail[c] = <<>>, answer[c] = None, log[c] = None,
           r.traced, st.token = r.user, st.user = r.user, Enter(c, r, st),
           request' \in [Call -> Request \cup {None}], request'[c] = r,
           state' \in [Call -> Context], state'[c] = st,
           \A d \in Call : d # c => request'[d] = request[d] /\ state'[d] = state[d]
    PROVE  Keeps(c)
<1>0. \/ /\ Finish(c, "ToolError") /\ UNCHANGED trail
         /\ UNCHANGED context \/ context' = [context EXCEPT ![c] = st]
      \/ /\ context' = [context EXCEPT ![c] = st]
         /\ Finish(c, "GraphClientError") /\ Blocked(st) /\ UNCHANGED trail
      \/ /\ context' = [context EXCEPT ![c] = st]
         /\ r.tool = "search" /\ st.user # None /\ ~Blocked(st)
         /\ pc' = [pc EXCEPT ![c] = "guard"]
         /\ UNCHANGED <<trail, answer, log>>
      \/ /\ context' = [context EXCEPT ![c] = st]
         /\ r.args # "bad" /\ st.user # None /\ ~Blocked(st)
         /\ r.tool \notin Broken /\ r.tool # "search"
         /\ r.tool = "create_draft" => r.args = "good"
         /\ r.args = "badDate" => r.tool = "get_emails_folder"
         /\ Send(c, st, FirstOp[r.tool])
  BY DEF Enter, Misbuilt, Unconfirmed, CheckedFirst, Request, Dated
<1>1. CASE /\ Finish(c, "ToolError") /\ UNCHANGED trail
           /\ UNCHANGED context \/ context' = [context EXCEPT ![c] = st]
  <2>1. Typed /\ OthersData(c)  BY <1>1 DEF Typed, OthersData, TypeOK
  <2>. QED  BY <1>1, <2>1, EmptyOneWrite, FinishFine DEF Ends
<1>2. CASE /\ context' = [context EXCEPT ![c] = st]
           /\ Finish(c, "GraphClientError") /\ Blocked(st) /\ UNCHANGED trail
  <2>1. Typed /\ OthersData(c)  BY <1>2 DEF Typed, OthersData, TypeOK
  <2>. QED  BY <1>2, <2>1, EmptyOneWrite, FinishFine DEF Ends
<1>3. CASE /\ context' = [context EXCEPT ![c] = st]
           /\ r.tool = "search" /\ st.user # None /\ ~Blocked(st)
           /\ pc' = [pc EXCEPT ![c] = "guard"]
           /\ UNCHANGED <<trail, answer, log>>
  <2>1. TypeOK' /\ Others(c)  BY <1>3 DEF TypeOK, Others
  <2>2. pc'[c] = "guard" /\ context'[c] = st  BY <1>3 DEF TypeOK
  <2>3. Asked(c)'  BY <1>3, <2>2 DEF Asked, Known, Blocked
  <2>4. Logged(c)'  BY <1>3, <2>2 DEF Logged
  <2>5. Working(c)'  BY <1>3, <2>2, EmptyOneWrite, NoneAssumption DEF Working
  <2>. QED  BY <2>1, <2>3, <2>4, <2>5 DEF Keeps, Fine
<1>4. CASE /\ context' = [context EXCEPT ![c] = st]
           /\ r.args # "bad" /\ st.user # None /\ ~Blocked(st)
           /\ r.tool \notin Broken /\ r.tool # "search"
           /\ r.tool = "create_draft" => r.args = "good"
           /\ r.args = "badDate" => r.tool = "get_emails_folder"
           /\ Send(c, st, FirstOp[r.tool])
  <2>1. /\ context' \in [Call -> Context] /\ context'[c] = st
        /\ \A d \in Call : d # c => context'[d] = context[d]
    BY <1>4 DEF TypeOK
  <2>2. FirstOp[r.tool] = IF r.tool = "search" THEN "page" ELSE FirstOp[r.tool]
    BY <1>4
  <2>3. r.user # None  BY <1>4
  <2>4. ASSUME NEW op, op = FirstOp[r.tool] PROVE Keeps(c)
    <3>1. op = IF r.tool = "search" THEN "page" ELSE FirstOp[r.tool]  BY <2>2, <2>4
    <3>2. Send(c, st, op)  BY <1>4, <2>4
    <3>. QED  BY <1>4, <2>1, <2>3, <3>1, <3>2, SendFine
  <2>. QED  BY <2>4
<1>. QED  BY <1>0, <1>1, <1>2, <1>3, <1>4

-----------------------------------------------------------------------------
(* The actions.                                                            *)

\* A call starts.
LEMMA StartFine ==
    ASSUME IInv, NEW c \in Call, NEW r \in Inputs[c], Start(c, r) PROVE Keeps(c)
<1>1. TypeOK /\ Fine(c) /\ pc[c] = "idle"  BY DEF IInv, Start
<1>2. trail[c] = <<>> /\ answer[c] = None /\ log[c] = None
  BY <1>1 DEF Fine, Asked, Logged
<1>3. r \in Request /\ Anybody \in Context
  BY InputsAssumption DEF Anybody, Context
<1>4. /\ request' \in [Call -> Request \cup {None}] /\ request'[c] = r
      /\ state' \in [Call -> Context] /\ state'[c] = Anybody
      /\ \A d \in Call : d # c => request'[d] = request[d] /\ state'[d] = state[d]
  BY <1>1, <1>3 DEF Start, TypeOK
<1>5. CASE /\ ~r.traced
           /\ pc' = [pc EXCEPT ![c] = "done"]
           /\ answer' = [answer EXCEPT ![c] = "unexpected"]
           /\ UNCHANGED <<context, trail, log>>
  <2>1. TypeOK' /\ Others(c)  BY <1>1, <1>4, <1>5 DEF TypeOK, Others, Answers
  <2>2. pc'[c] = "done" /\ answer'[c] = "unexpected"  BY <1>1, <1>5 DEF TypeOK
  <2>3. "unexpected" # None  BY NoneAssumption, <1>1 DEF TypeOK
  <2>4. Asked(c)' /\ Logged(c)' /\ Working(c)'
    BY <1>2, <1>3, <1>4, <1>5, <2>2, <2>3, EmptyOneWrite DEF Asked, Logged, Working
  <2>. QED  BY <2>1, <2>4 DEF Keeps, Fine
<1>6. CASE /\ r.traced /\ r.user # None
           /\ pc' = [pc EXCEPT ![c] = "context"]
           /\ UNCHANGED <<context, trail, answer, log>>
  <2>1. TypeOK' /\ Others(c)  BY <1>1, <1>4, <1>6 DEF TypeOK, Others
  <2>2. pc'[c] = "context"  BY <1>1, <1>6 DEF TypeOK
  <2>3. Asked(c)' /\ Logged(c)' /\ Working(c)'
    BY <1>2, <1>3, <1>4, <1>6, <2>2, EmptyOneWrite, NoneAssumption DEF Asked, Logged, Working
  <2>. QED  BY <2>1, <2>3 DEF Keeps, Fine
<1>7. CASE r.traced /\ r.user = None /\ Enter(c, r, Anybody)
  <2>1. Anybody.token = r.user /\ Anybody.user = r.user  BY <1>7 DEF Anybody
  <2>. QED  BY <1>1, <1>2, <1>3, <1>4, <1>7, <2>1, EnterFine
<1>. QED  BY <1>5, <1>6, <1>7 DEF Start

\* The context arrives.
LEMMA ContextArrivesFine ==
    ASSUME IInv, NEW c \in Call, ContextArrives(c) PROVE Keeps(c)
<1>1. TypeOK /\ Fine(c) /\ pc[c] = "context"  BY DEF IInv, ContextArrives
<1>2. /\ trail[c] = <<>> /\ answer[c] = None /\ log[c] = None
      /\ request[c] \in Request /\ request[c].traced
  BY <1>1 DEF Fine, Asked, Logged
<1>3. PICK yellow \in YellowLists :
          Store(c, yellow) /\ Enter(c, request[c], Fetched(c, yellow))
  BY DEF ContextArrives
<1>4. /\ Fetched(c, yellow) \in Context
      /\ Fetched(c, yellow).token = request[c].user
      /\ Fetched(c, yellow).user = request[c].user
  BY <1>2, KeyAssumption DEF Fetched, Context, Request
<1>5. /\ request' \in [Call -> Request \cup {None}] /\ request'[c] = request[c]
      /\ state' \in [Call -> Context] /\ state'[c] = Fetched(c, yellow)
      /\ \A d \in Call : d # c => request'[d] = request[d] /\ state'[d] = state[d]
  BY <1>1, <1>3, <1>4 DEF ContextArrives, Store, TypeOK
<1>. QED  BY <1>1, <1>2, <1>3, <1>4, <1>5, EnterFine

\* The call ends or is cancelled while it awaits the context or the guard.
LEMMA LeaveFine ==
    ASSUME IInv, NEW c \in Call, NEW end \in Ends \ {"ok", "GraphClientError"},
           pc[c] \in {"context", "guard"}, Finish(c, end),
           end = "CmnAuthError" => pc[c] = "context",
           UNCHANGED <<request, state, context, trail>>
    PROVE  Keeps(c)
<1>1. TypeOK /\ Fine(c)  BY DEF IInv
<1>2. Typed /\ OthersData(c)  BY <1>1 DEF Typed, OthersData, TypeOK
<1>3. request[c] \in Request /\ request[c].traced  BY <1>1 DEF Fine, Asked
<1>4. trail[c] # <<>> => Sent(c)'  BY <1>1 DEF Fine, Asked, Sent, Known, Blocked
<1>5. end = "CmnAuthError" => trail[c] = <<>> /\ state[c].user = None
  BY <1>1 DEF Fine, Asked, Anybody
<1>6. OneWrite(trail'[c])  BY <1>1 DEF Fine, Working
<1>. QED  BY <1>1, <1>2, <1>3, <1>4, <1>5, <1>6, FinishFine

\* The guard admits the search.
LEMMA GuardAdmitsFine ==
    ASSUME IInv, NEW c \in Call, GuardAdmits(c) PROVE Keeps(c)
<1>1. TypeOK /\ Fine(c) /\ pc[c] = "guard"  BY DEF IInv, GuardAdmits
<1>2. CASE /\ request[c].args \in {"bad", "badDate"}
           /\ Finish(c, "ToolError") /\ UNCHANGED trail
  BY <1>1, <1>2, LeaveFine DEF GuardAdmits, Ends
<1>3. CASE request[c].args \notin {"bad", "badDate"} /\ Send(c, context[c], "page")
  <2>1. /\ trail[c] = <<>> /\ answer[c] = None /\ log[c] = None
        /\ request[c] \in Request /\ request[c].traced /\ request[c].user # None
        /\ request[c].tool = "search" /\ Known(c) /\ context[c] = state[c]
    BY <1>1 DEF Fine, Asked, Logged
  <2>2. "search" \notin Broken  BY DEF Broken
  <2>3. /\ context[c] \in Context
        /\ request' \in [Call -> Request \cup {None}] /\ state' \in [Call -> Context]
        /\ context' \in [Call -> Context]
        /\ UNCHANGED <<request, state, context>>
    BY <1>1 DEF TypeOK, GuardAdmits
  <2>. QED  BY <1>1, <1>3, <2>1, <2>2, <2>3, SendFine DEF Known
<1>. QED  BY <1>2, <1>3 DEF GuardAdmits

\* Graph answers, or a request fails.
LEMMA GraphAnswersFine ==
    ASSUME IInv, NEW c \in Call, GraphAnswers(c) PROVE Keeps(c)
<1>. DEFINE last == trail[c][Len(trail[c])]
<1>1. TypeOK /\ Fine(c)  BY DEF IInv
<1>2. pc[c] = "graph" => context[c] = state[c]  BY <1>1 DEF Fine, Asked
<1>3. ASSUME NEW out \in Outcomes, NEW op, OverAndSend(c, out, state[c], op),
             UNCHANGED context, request[c].args # "badDate",
             \/ last.op = "page" /\ out = "more" /\ op = "page"
             \/ last.op = "detail" /\ out = "ok" /\ op = "read"
             \/ last.op = "folders" /\ out = "one" /\ op = "messages"
      PROVE  Keeps(c)
  <2>1. PICK times \in Graph!Times(Returned(out)) :
            trail' = [trail EXCEPT ![c] =
                        Append(Ended(trail[c], out, times), Sending(state[c], op))]
    BY <1>1, <1>3 DEF OverAndSend, TypeOK
  <2>2. times \in {0, 1}  BY TimesFacts
  <2>3. pc[c] = "graph" /\ UNCHANGED <<pc, request, state, context, answer, log>>
    BY <1>3 DEF OverAndSend
  <2>. QED  BY <1>3, <2>1, <2>2, <2>3, ContinueFine
<1>4. ASSUME Malformed(c) PROVE Keeps(c)
  BY <1>4, ConcludeFine DEF Malformed, Outcomes
<1>4a. ASSUME pc[c] = "graph", last.op # "folders" PROVE request[c].args # "badDate"
  <2>1. trail[c] # <<>> /\ Sent(c) /\ trail[c] \in Seq(GraphRequest)
    BY <1>1, <1>4a DEF Fine, Asked, TypeOK
  <2>2. Len(trail[c]) \in DOMAIN trail[c]  BY <2>1
  <2>. QED  BY <1>4a, <2>1, <2>2 DEF Sent
<1>5. CASE PageArrives(c)
  <2>1. pc[c] = "graph" /\ last.op = "page"  BY <1>5 DEF PageArrives, Awaits
  <2>2. CASE OverAndSend(c, "more", context[c], "page") /\ UNCHANGED context
    BY <1>2, <1>3, <1>4a, <2>1, <2>2 DEF Outcomes, Good
  <2>3. CASE Conclude(c, "ok", "ok")
    BY <2>1, <2>3, ConcludeFine DEF Outcomes, Good
  <2>. QED  BY <1>4, <1>5, <2>2, <2>3 DEF PageArrives
<1>6. CASE DetailArrives(c)
  <2>1. pc[c] = "graph" /\ last.op = "detail"  BY <1>6 DEF DetailArrives, Awaits
  <2>2. CASE OverAndSend(c, "ok", context[c], "read") /\ UNCHANGED context
    BY <1>2, <1>3, <1>4a, <2>1, <2>2 DEF Outcomes, Good
  <2>. QED  BY <1>4, <1>6, <2>2 DEF DetailArrives
<1>7. CASE FoldersArrive(c)
  <2>1. pc[c] = "graph" /\ last.op = "folders"  BY <1>7 DEF FoldersArrive, Awaits
  <2>2. ASSUME NEW out \in {"none", "many"}, Conclude(c, out, "ToolError") PROVE Keeps(c)
    BY <2>2, ConcludeFine DEF Outcomes
  <2>3. CASE /\ request[c].args # "badDate"
             /\ OverAndSend(c, "one", state[c], "messages")
             /\ context' = [context EXCEPT ![c] = state[c]]
    <3>1. UNCHANGED context  BY <1>1, <1>2, <2>1, <2>3 DEF TypeOK
    <3>. QED  BY <1>3, <2>1, <2>3, <3>1 DEF Outcomes, Good
  <2>4. CASE Conclude(c, "one", "ToolError")
    BY <2>4, ConcludeFine DEF Outcomes, Good
  <2>. QED  BY <1>7, <2>2, <2>3, <2>4 DEF FoldersArrive
<1>8. CASE MessagesArrive(c)
  <2>1. last.op = "messages"  BY <1>8 DEF MessagesArrive, Awaits
  <2>2. CASE Conclude(c, "ok", "ok")
    BY <2>1, <2>2, ConcludeFine DEF Outcomes, Good
  <2>. QED  BY <1>4, <1>8, <2>2 DEF MessagesArrive
<1>9. CASE ReadMarked(c)
  <2>1. last.op = "read" /\ Conclude(c, "ok", "ok")  BY <1>9 DEF ReadMarked, Awaits
  <2>. QED  BY <2>1, ConcludeFine DEF Outcomes, Good
<1>10. CASE WriteAccepted(c)
  <2>1. last.op \in WriteOps /\ Conclude(c, "ok", "ok")
    BY <1>10 DEF WriteAccepted, Awaits
  <2>. QED  BY <2>1, ConcludeFine DEF Outcomes, Good
<1>11. CASE GraphFails(c)
  BY <1>11, ConcludeFine DEF GraphFails, Outcomes
<1>. QED  BY <1>5, <1>6, <1>7, <1>8, <1>9, <1>10, <1>11 DEF GraphAnswers

\* The tasks of the log.
LEMMA LogFine ==
    ASSUME IInv, NEW c \in Call, PostLog(c) \/ LogEnds(c) PROVE Keeps(c)
<1>1. TypeOK /\ Fine(c)  BY DEF IInv
<1>2. PICK phase \in {"posting", "stored", "lost"} :
          /\ log[c] # None /\ log' = [log EXCEPT ![c].phase = phase]
          /\ phase = "stored" => request[c].user # None
          /\ UNCHANGED <<pc, request, state, context, trail, answer>>
  BY DEF PostLog, LogEnds
<1>. DEFINE l == [log[c] EXCEPT !.phase = phase]
<1>3. log[c] \in LogRecord  BY <1>1, <1>2 DEF TypeOK
<1>4. l \in LogRecord /\ l.status = log[c].status /\ l.phase = phase
  BY <1>3 DEF LogRecord
<1>5. log' = [log EXCEPT ![c] = l]  BY <1>1, <1>2 DEF TypeOK
<1>. HIDE DEF l
<1>6. l # None  BY <1>4, NoneAssumption DEF LogRecord
<1>7. TypeOK' /\ Others(c) /\ log'[c] = l  BY <1>1, <1>2, <1>4, <1>5 DEF TypeOK, Others
<1>8. Asked(c)'  BY <1>1, <1>2 DEF Fine, Asked, Sent, Known, Blocked
<1>9. Logged(c)'  BY <1>1, <1>2, <1>4, <1>6, <1>7 DEF Fine, Logged
<1>10. Working(c)'  BY <1>1, <1>2 DEF Fine, Working, Blocked
<1>. QED  BY <1>7, <1>8, <1>9, <1>10 DEF Keeps, Fine

\* The first state.
LEMMA InitIInv == Init => IInv
<1>. SUFFICES ASSUME Init PROVE IInv  OBVIOUS
<1>1. TypeOK  BY DEF Init, TypeOK, Anybody, Context
<1>2. ASSUME NEW c \in Call PROVE Fine(c)
  BY NoneAssumption, EmptyOneWrite DEF Init, Fine, Asked, Logged, Working
<1>. QED  BY <1>1, <1>2 DEF IInv

\* Every step keeps the invariant.
LEMMA NextIInv == IInv /\ [Next]_vars => IInv'
<1>. SUFFICES ASSUME IInv, [Next]_vars PROVE IInv'  OBVIOUS
<1>1. ASSUME NEW c \in Call, Keeps(c) PROVE IInv'
  BY <1>1, OthersFine DEF IInv, Keeps
<1>2. ASSUME NEW c \in Call, ContextFails(c) \/ GuardRefuses(c) \/ Cancel(c)
      PROVE  Keeps(c)
  <2>1. CASE Conclude(c, "cancelled", "CancelledError")
    BY <2>1, ConcludeFine DEF Outcomes
  <2>2. CASE pc[c] = "context" /\ Cancel(c)
    BY <2>1, <2>2, LeaveFine DEF Cancel, Ends
  <2>3. CASE pc[c] = "guard" /\ Cancel(c)
    BY <2>1, <2>3, LeaveFine DEF Cancel, Ends
  <2>4. CASE ContextFails(c) \/ GuardRefuses(c)
    BY <2>4, LeaveFine DEF ContextFails, GuardRefuses, Ends
  <2>. QED  BY <1>2, <2>1, <2>2, <2>3, <2>4 DEF Cancel
<1>3. CASE UNCHANGED vars
  BY <1>3 DEF vars, IInv, TypeOK, Fine, Asked, Logged, Working, Sent, Known, Blocked
<1>4. CASE Next
  <2>1. PICK c \in Call :
            \/ \E r \in Inputs[c] : Start(c, r)
            \/ CmnAnswers(c) \/ GraphAnswers(c) \/ Cancel(c)
            \/ PostLog(c) \/ LogEnds(c)
    BY <1>4 DEF Next
  <2>2. Keeps(c)
    BY <1>2, <2>1, StartFine, ContextArrivesFine, GuardAdmitsFine, GraphAnswersFine,
       LogFine DEF CmnAnswers
  <2>. QED  BY <1>1, <2>2
<1>. QED  BY <1>3, <1>4

-----------------------------------------------------------------------------
(* The theorems.                                                           *)

\* The invariant holds of every behaviour.
THEOREM Invariant == Spec => []IInv
BY InitIInv, NextIInv, PTL DEF Spec

\* Every value has its type.
THEOREM TypeCorrect == Spec => []TypeOK
<1>1. IInv => TypeOK  BY DEF IInv
<1>. QED  BY <1>1, Invariant, PTL

\* Requests to Graph are made with the token and in the name of the user whose
\* call it is (mcp_midleware.py:70-73).
THEOREM IdentitiesHold == Spec => []OwnIdentity
<1>1. IInv => OwnIdentity  BY DEF IInv, Fine, Asked, Sent, OwnIdentity
<1>. QED  BY <1>1, Invariant, PTL

\* What has to be refused never reaches Graph (mail_service.py:59-77,
\* mail_write_service.py:31-48), and of a call with a date that is none only the
\* look-up of a folder does (mail_service.py:484-485).
THEOREM RefusalsHold == Spec => []RefusedNeverSent
<1>1. IInv => RefusedNeverSent
  <2>. SUFFICES ASSUME IInv, NEW c \in Call, trail[c] # <<>>
                PROVE  /\ request[c].user # None /\ request[c].traced
                       /\ request[c].args # "bad"
                       /\ request[c].tool = "create_draft" => request[c].args = "good"
                       /\ request[c].args = "badDate" =>
                             \A i \in DOMAIN trail[c] : trail[c][i].op = "folders"
                       /\ {e.key : e \in state[c].yellow} \cap KeysOf[request[c].user] = {}
    BY DEF RefusedNeverSent
  <2>1. Sent(c)  BY DEF IInv, Fine, Asked
  <2>. QED  BY <2>1 DEF Sent, Known, Blocked
<1>. QED  BY <1>1, Invariant, PTL

\* Answers tell what the tool has done (mcp_midleware.py:43-67).
THEOREM AnswersHold == Spec => []AnswersMatchWork
<1>1. ASSUME IInv, NEW c \in Call PROVE \A i, j \in Written(trail[c]) : i = j
  BY <1>1 DEF IInv, TypeOK, Fine, Working, OneWrite, Written
<1>2. ASSUME IInv, NEW c \in Call, answer[c] = "ok", request[c].tool \in WriteTools
      PROVE  Written(trail[c]) = {1}
  <2>1. /\ trail[c] \in Seq(GraphRequest) /\ trail[c][Len(trail[c])].times = 1
        /\ [i \in DOMAIN trail[c] |-> trail[c][i].op] = <<FirstOp[request[c].tool]>>
    BY <1>2 DEF IInv, TypeOK, Fine, Working, WorkDone
  <2>2. request[c].tool \in Tools \ (Broken \cup {"search"})
    BY <1>2 DEF WriteTools, Tools, Broken
  <2>3. FirstOp[request[c].tool] \in WriteOps
    BY <1>2, <2>2, FirstOpFacts
  <2>4. Len(trail[c]) = 1 /\ trail[c][1].op = FirstOp[request[c].tool]
    <3>. SUFFICES ASSUME NEW t \in Seq(GraphRequest), NEW op,
                         [i \in DOMAIN t |-> t[i].op] = <<op>>
                  PROVE  Len(t) = 1 /\ t[1].op = op
      BY <2>1
    <3>1. DOMAIN [i \in DOMAIN t |-> t[i].op] = 1 .. Len(t)  OBVIOUS
    <3>2. DOMAIN <<op>> = 1 .. 1  OBVIOUS
    <3>3. Len(t) = 1  BY <3>1, <3>2
    <3>4. [i \in DOMAIN t |-> t[i].op][1] = op  OBVIOUS
    <3>. QED  BY <3>1, <3>3, <3>4
  <2>. QED  BY <2>1, <2>3, <2>4 DEF Written
<1>3. ASSUME IInv, NEW c \in Call, answer[c] = "graph" PROVE Written(trail[c]) = {}
  <2>1. /\ trail[c] \in Seq(GraphRequest) /\ OneWrite(trail[c])
        /\ trail[c] = <<>> \/ trail[c][Len(trail[c])].times = 0
    BY <1>3 DEF IInv, TypeOK, Fine, Working
  <2>. QED  BY <2>1 DEF Written, OneWrite
<1>4. ASSUME NEW c \in Call, WorkDone(request[c].tool, trail[c]) PROVE Worked(c)
  BY <1>4, Zenon DEF WorkDone, Worked
<1>5. IInv => AnswersMatchWork
  <2>. SUFFICES ASSUME IInv, NEW c \in Call
                PROVE  /\ answer[c] = "ok" =>
                             Worked(c) /\ (request[c].tool \in WriteTools => Written(trail[c]) = {1})
                       /\ answer[c] = "graph" =>
                             /\ Written(trail[c]) = {}
                             /\ \/ trail[c] = <<>> /\ Blocked(state[c])
                                \/ trail[c] # <<>> /\ trail[c][Len(trail[c])].outcome = "GraphError"
                       /\ answer[c] = "cmn" => trail[c] = <<>> /\ state[c].user = None
                       /\ \A i, j \in Written(trail[c]) : i = j
    BY Zenon DEF AnswersMatchWork
  <2>1. Working(c)  BY DEF IInv, Fine
  <2>2. answer[c] = "ok" => Worked(c)  BY <2>1, <1>4 DEF Working
  <2>3. answer[c] = "graph" =>
           \/ trail[c] = <<>> /\ Blocked(state[c])
           \/ trail[c] # <<>> /\ trail[c][Len(trail[c])].outcome = "GraphError"
    BY <2>1, Zenon DEF Working
  <2>4. answer[c] = "cmn" => trail[c] = <<>> /\ state[c].user = None
    BY <2>1, Zenon DEF Working
  <2>. QED  BY <1>1, <1>2, <1>3, <2>2, <2>3, <2>4, Zenon
<1>. QED  BY <1>5, Invariant, PTL

\* Every call that is over has a log that tells how it ended
\* (mcp_midleware.py:111-132).
THEOREM LogsHold == Spec => []LogsMatchAnswers
<1>1. IInv => LogsMatchAnswers  BY DEF IInv, Fine, Logged, LogsMatchAnswers
<1>. QED  BY <1>1, Invariant, PTL

=============================================================================
