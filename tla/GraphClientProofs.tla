------------------------- MODULE GraphClientProofs -------------------------
(***************************************************************************)
(* Proofs about GraphClient for every set of calls and every number of     *)
(* attempts.                                                               *)
(***************************************************************************)
EXTENDS GraphClient, TLAPS

USE DEF Attempt

-----------------------------------------------------------------------------
(* The inductive invariant.                                                *)

\* What a log record must say of an attempt that ended with v.
Tells(rec, v) ==
    /\ rec.status = "success" <=> v = "ok"
    /\ v \in Statuses => rec.http = v

\* A call that is under way has had no effect and noted no success; while it
\* sleeps its record tells of the 429, and no log task of an earlier attempt
\* is left to start.
UnderWay(c) ==
    pc[c] # "done" =>
        /\ effects[c] = 0
        /\ result[c] = None
        /\ record[c].status # "success"
        /\ pc[c] = "sleep" =>
              /\ TasksStarted(c)
              /\ attempt[c] < MaxAttempt
              /\ Tells(record[c], verdict[c][attempt[c]])

\* A log task that has not started yet will find its own attempt's record; one
\* that has not started has sent nothing.
Pending(c) ==
    \A n \in Attempt :
        /\ task[c][n] = "ready" => Tells(record[c], verdict[c][n])
        /\ row[c][n] # None => task[c][n] \in {"posting", "stored", "lost"}

IInv ==
    /\ TypeOK
    /\ CarriedOutOnce
    /\ ResultsTruthful
    /\ EveryAttemptLogged
    /\ RowsTruthful
    /\ \A c \in Call : UnderWay(c) /\ Pending(c)

\* The part of the invariant that is about one call.
Fine(c) ==
    /\ effects[c] <= 1
    /\ result[c] = "ok" => effects[c] = 1
    /\ result[c] = "GraphError" => effects[c] = 0
    /\ \A n \in Attempt :
          /\ task[c][n] # None <=>
                \/ n < attempt[c]
                \/ n = attempt[c] /\ pc[c] = "done"
          /\ row[c][n] # None => Tells(row[c][n], verdict[c][n])
    /\ UnderWay(c)
    /\ Pending(c)

LEMMA InvSplit == IInv <=> TypeOK /\ \A c \in Call : Fine(c)
  BY DEF IInv, Fine, CarriedOutOnce, ResultsTruthful, EveryAttemptLogged,
         RowsTruthful, Tells

\* Nothing of call d changes.
Same(d) ==
    /\ pc'[d] = pc[d]
    /\ attempt'[d] = attempt[d]
    /\ record'[d] = record[d]
    /\ result'[d] = result[d]
    /\ task'[d] = task[d]
    /\ row'[d] = row[d]
    /\ verdict'[d] = verdict[d]
    /\ effects'[d] = effects[d]

LEMMA OthersFine ==
  ASSUME NEW d \in Call, Fine(d), Same(d)
  PROVE  Fine(d)'
  BY DEF Fine, Same, UnderWay, Pending, Tells, TasksStarted

-----------------------------------------------------------------------------
(* Steps.                                                                  *)

\* What the answers to a request have in common: the attempt ends with v, its
\* record tells so, and the call is left with an outcome that the effects
\* bear out.
LEMMA LeaveFine ==
  ASSUME NEW c \in Call, NEW v \in Verdicts, NEW o \in Outcomes,
         TypeOK, \A d \in Call : Fine(d),
         pc[c] = "request", TasksStarted(c), Ends(c, v), Leave(c, o),
         UNCHANGED <<attempt, row>>,
         record' \in [Call -> LogRecord],
         \A d \in Call : d # c => record'[d] = record[d],
         Tells(record'[c], v),
         effects' \in [Call -> Nat],
         \A d \in Call : d # c => effects'[d] = effects[d],
         effects'[c] <= 1,
         o = "ok" => effects'[c] = 1,
         o = "GraphError" => effects'[c] = 0
  PROVE  TypeOK' /\ \A d \in Call : Fine(d)'
<1>0. attempt[c] \in Attempt /\ Fine(c)
  BY DEF TypeOK
<1>1. /\ task' = [task EXCEPT ![c][attempt[c]] = "ready"]
      /\ pc' = [pc EXCEPT ![c] = "done"]
      /\ result' = [result EXCEPT ![c] = o]
      /\ verdict' = [verdict EXCEPT ![c][attempt[c]] = v]
  BY DEF Leave, CreateTask, Ends
<1>2. TypeOK'
  BY <1>0, <1>1 DEF TypeOK
<1>3. Fine(c)'
  <2>1. /\ pc'[c] = "done"
        /\ result'[c] = o
        /\ attempt'[c] = attempt[c]
        /\ row'[c] = row[c]
    BY <1>1 DEF TypeOK
  <2>2. \A n \in Attempt :
          /\ task'[c][n] = IF n = attempt[c] THEN "ready" ELSE task[c][n]
          /\ verdict'[c][n] = IF n = attempt[c] THEN v ELSE verdict[c][n]
    BY <1>0, <1>1 DEF TypeOK
  <2>3. task[c][attempt[c]] = None /\ row[c][attempt[c]] = None
    <3>1. task[c][attempt[c]] = None
      BY <1>0 DEF Fine
    <3>2. task[c][attempt[c]] = None => row[c][attempt[c]] = None
      BY <1>0, NoneAssumption DEF Fine, Pending
    <3> QED BY <3>1, <3>2
  <2>4. ASSUME NEW n \in Attempt
        PROVE  /\ task'[c][n] # None <=> n < attempt[c] \/ n = attempt[c]
               /\ row'[c][n] # None => Tells(row'[c][n], verdict'[c][n])
    <3>1. CASE n = attempt[c]
      BY <2>1, <2>2, <2>3, <3>1, NoneAssumption
    <3>2. CASE n # attempt[c]
      BY <1>0, <2>1, <2>2, <3>2 DEF Fine
    <3> QED BY <3>1, <3>2
  <2>6. Pending(c)'
    <3> SUFFICES ASSUME NEW n \in Attempt
                 PROVE  /\ task'[c][n] = "ready" =>
                             Tells(record'[c], verdict'[c][n])
                        /\ row'[c][n] # None =>
                             task'[c][n] \in {"posting", "stored", "lost"}
      BY DEF Pending, Tells
    <3>1. CASE n = attempt[c]
      BY <2>1, <2>2, <2>3, <3>1
    <3>2. CASE n # attempt[c]
      BY <1>0, <2>1, <2>2, <3>2 DEF Fine, Pending, TasksStarted
    <3> QED BY <3>1, <3>2
  <2>7. UnderWay(c)'
    BY <2>1 DEF UnderWay
  <2> QED BY <2>1, <2>4, <2>6, <2>7 DEF Fine, Tells
<1>4. ASSUME NEW d \in Call, d # c PROVE Fine(d)'
  <2>1. Same(d)
    BY <1>1, <1>4 DEF Same, TypeOK
  <2> QED BY <2>1, OthersFine
<1> QED BY <1>2, <1>3, <1>4

\* Every answer, and a cancellation while the answer is awaited, leaves.
LEMMA AnswerFine ==
  ASSUME NEW c \in Call, TypeOK, \A d \in Call : Fine(d),
         \/ Succeed(c)
         \/ BadBody(c)
         \/ \E v \in Refusals : Refuse(c, v)
         \/ AnswerOther(c)
         \/ Break(c)
  PROVE  TypeOK' /\ \A d \in Call : Fine(d)'
<1>0. pc[c] = "request" /\ TasksStarted(c) /\ UNCHANGED <<attempt, row>>
  BY DEF Succeed, BadBody, Refuse, AnswerOther, Break
<1>1. effects[c] = 0 /\ effects \in [Call -> Nat] /\ record[c] \in LogRecord
  BY <1>0 DEF Fine, UnderWay, TypeOK
<1>2. ASSUME Executed(c)
      PROVE  /\ effects' \in [Call -> Nat]
             /\ effects'[c] = 1
             /\ \A d \in Call : d # c => effects'[d] = effects[d]
  BY <1>1, <1>2 DEF Executed
<1>3. ASSUME NEW v \in Verdicts \ {"ok"}, NoteFailure(c, v)
      PROVE  /\ record' \in [Call -> LogRecord]
             /\ \A d \in Call : d # c => record'[d] = record[d]
             /\ Tells(record'[c], v)
  <2>1. record'[c].status = "fail" /\ (v \in Statuses => record'[c].http = v)
    BY <1>1, <1>3 DEF NoteFailure, TypeOK, LogRecord
  <2>2. record' \in [Call -> LogRecord]
    BY <1>1, <1>3 DEF NoteFailure, TypeOK, LogRecord
  <2> QED BY <1>3, <2>1, <2>2 DEF NoteFailure, TypeOK, Tells
<1>4. CASE Succeed(c)
  <2>1. record' \in [Call -> LogRecord]
    BY <1>1, <1>4 DEF Succeed, TypeOK, LogRecord
  <2>2. \A d \in Call : d # c => record'[d] = record[d]
    BY <1>4 DEF Succeed, TypeOK
  <2>3. Tells(record'[c], "ok")
    BY <1>1, <1>4 DEF Succeed, TypeOK, LogRecord, Tells, Statuses, Refusals
  <2> QED BY <1>0, <1>2, <1>4, <2>1, <2>2, <2>3, LeaveFine
          DEF Succeed, Verdicts, Outcomes
<1>5. CASE BadBody(c)
  BY <1>0, <1>2, <1>3, <1>5, LeaveFine DEF BadBody, Verdicts, Outcomes
<1>6. CASE \E v \in Refusals : Refuse(c, v)
  <2>1. PICK v \in Refusals : Refuse(c, v)
    BY <1>6
  <2>2. v \in Verdicts \ {"ok"}
    BY DEF Refusals, Verdicts, Statuses
  <2> QED BY <1>0, <1>1, <1>3, <2>1, <2>2, LeaveFine DEF Refuse, Outcomes
<1>7. CASE AnswerOther(c)
  <2>1. "other" \in Verdicts \ {"ok"}
    BY DEF Verdicts, Statuses
  <2> QED BY <1>0, <1>1, <1>2, <1>3, <1>7, <2>1, LeaveFine
          DEF AnswerOther, Outcomes
<1>8. CASE Break(c)
  <2>1. "broken" \in Verdicts \ {"ok"}
    BY DEF Verdicts
  <2> QED BY <1>0, <1>1, <1>2, <1>3, <1>8, <2>1, LeaveFine DEF Break, Outcomes
<1> QED BY <1>4, <1>5, <1>6, <1>7, <1>8

LEMMA ThrottleFine ==
  ASSUME NEW c \in Call, TypeOK, \A d \in Call : Fine(d), Throttle(c)
  PROVE  TypeOK' /\ \A d \in Call : Fine(d)'
<1>0. /\ pc[c] = "request"
      /\ TasksStarted(c)
      /\ NoteFailure(c, "429")
      /\ Ends(c, "429")
      /\ UNCHANGED <<attempt, row, effects>>
  BY DEF Throttle
<1>1. /\ effects[c] = 0
      /\ effects \in [Call -> Nat]
      /\ record[c] \in LogRecord
      /\ attempt[c] \in Attempt
      /\ "429" \in Verdicts
  BY <1>0 DEF Fine, UnderWay, TypeOK, Verdicts, Statuses
<1>2. /\ record' \in [Call -> LogRecord]
      /\ record'[c].status = "fail"
      /\ record'[c].http = "429"
      /\ \A d \in Call : d # c => record'[d] = record[d]
  BY <1>0, <1>1 DEF NoteFailure, TypeOK, LogRecord, Statuses
<1>3. Tells(record'[c], "429")
  BY <1>2 DEF Tells
<1>4. CASE \E o \in {"HTTPStatusError", "Exception"} : Leave(c, o)
  BY <1>0, <1>1, <1>2, <1>3, <1>4, LeaveFine DEF Outcomes
<1>5. CASE /\ attempt[c] < MaxAttempt
           /\ pc' = [pc EXCEPT ![c] = "sleep"]
           /\ UNCHANGED <<result, task>>
  <2>1. verdict' = [verdict EXCEPT ![c][attempt[c]] = "429"]
    BY <1>0 DEF Ends
  <2>2. TypeOK'
    BY <1>0, <1>1, <1>2, <1>5, <2>1 DEF TypeOK
  <2>3. pc'[c] = "sleep" /\ verdict'[c][attempt[c]] = "429"
    BY <1>1, <1>5, <2>1 DEF TypeOK
  <2>4. \A n \in Attempt : n # attempt[c] => verdict'[c][n] = verdict[c][n]
    BY <1>1, <2>1 DEF TypeOK
  <2>5. task[c][attempt[c]] = None /\ row[c][attempt[c]] = None
    <3>1. task[c][attempt[c]] = None
      BY <1>0, <1>1 DEF Fine
    <3>2. task[c][attempt[c]] = None => row[c][attempt[c]] = None
      BY <1>1, NoneAssumption DEF Fine, Pending
    <3> QED BY <3>1, <3>2
  <2>6. UnderWay(c)'
    BY <1>0, <1>2, <1>3, <1>5, <2>3 DEF Fine, UnderWay, TasksStarted, Tells
  <2>7. Pending(c)'
    BY <1>0, <1>5 DEF Fine, Pending, TasksStarted
  <2>8. ASSUME NEW n \in Attempt
        PROVE  /\ task'[c][n] # None <=>
                     n < attempt'[c] \/ (n = attempt'[c] /\ pc'[c] = "done")
               /\ row'[c][n] # None => Tells(row'[c][n], verdict'[c][n])
    BY <1>0, <1>5, <2>3, <2>4, <2>5 DEF Fine
  <2>9. Fine(c)'
    BY <1>0, <1>5, <2>6, <2>7, <2>8 DEF Fine, Tells
  <2>10. ASSUME NEW d \in Call, d # c PROVE Fine(d)'
    <3>1. Same(d)
      BY <1>0, <1>2, <1>5, <2>1, <2>10 DEF Same, TypeOK
    <3> QED BY <3>1, OthersFine
  <2> QED BY <2>2, <2>9, <2>10
<1> QED BY <1>4, <1>5 DEF Throttle

\* An attempt that slept gets its log task, while its record is still its own.
LEMMA TaskOfSleeper ==
  ASSUME NEW c \in Call, TypeOK, Fine(c), pc[c] = "sleep", CreateTask(c),
         pc'[c] \in {"request", "done"},
         attempt'[c] = IF pc'[c] = "request" THEN attempt[c] + 1 ELSE attempt[c],
         UNCHANGED <<record, row, verdict, effects>>,
         result'[c] = IF pc'[c] = "request" THEN None ELSE "cancelled"
  PROVE  Fine(c)'
<1>0. attempt[c] \in Attempt /\ MaxAttempt \in Nat
  BY AttemptAssumption DEF TypeOK
<1>1. /\ \A n \in Attempt : task[c][n] # "ready"
      /\ Tells(record[c], verdict[c][attempt[c]])
      /\ effects[c] = 0
      /\ result[c] = None
      /\ record[c].status # "success"
  BY DEF Fine, UnderWay, TasksStarted
<1>2. \A n \in Attempt :
        task'[c][n] = IF n = attempt[c] THEN "ready" ELSE task[c][n]
  BY <1>0 DEF CreateTask, TypeOK
<1>3. task[c][attempt[c]] = None /\ row[c][attempt[c]] = None
  <2>1. task[c][attempt[c]] = None
    BY <1>0 DEF Fine
  <2>2. task[c][attempt[c]] = None => row[c][attempt[c]] = None
    BY <1>0, NoneAssumption DEF Fine, Pending
  <2> QED BY <2>1, <2>2
<1>4. ASSUME NEW n \in Attempt
      PROVE  task'[c][n] # None <=>
               n < attempt'[c] \/ (n = attempt'[c] /\ pc'[c] = "done")
  <2>1. task[c][n] # None <=> n < attempt[c]
    BY DEF Fine
  <2>2. task'[c][n] # None <=> n < attempt[c] \/ n = attempt[c]
    BY <1>2, <2>1, NoneAssumption
  <2>3. n < attempt[c] + 1 <=> n < attempt[c] \/ n = attempt[c]
    BY <1>0
  <2> QED BY <2>2, <2>3
<1>5. Pending(c)'
  <2> SUFFICES ASSUME NEW n \in Attempt
               PROVE  /\ task'[c][n] = "ready" => Tells(record[c], verdict[c][n])
                      /\ row[c][n] # None =>
                           task'[c][n] \in {"posting", "stored", "lost"}
    BY DEF Pending, Tells
  <2> QED BY <1>1, <1>2, <1>3 DEF Fine, Pending
<1>6. UnderWay(c)'
  BY <1>1 DEF UnderWay
<1> QED BY <1>1, <1>4, <1>5, <1>6, NoneAssumption DEF Fine, Tells

LEMMA WakeFine ==
  ASSUME NEW c \in Call, TypeOK, \A d \in Call : Fine(d), Wake(c)
  PROVE  TypeOK' /\ \A d \in Call : Fine(d)'
<1>0. /\ pc[c] = "sleep"
      /\ task' = [task EXCEPT ![c][attempt[c]] = "ready"]
      /\ attempt' = [attempt EXCEPT ![c] = @ + 1]
      /\ pc' = [pc EXCEPT ![c] = "request"]
      /\ UNCHANGED <<record, result, row, verdict, effects>>
  BY DEF Wake, CreateTask
<1>1. /\ attempt[c] \in Attempt
      /\ attempt[c] < MaxAttempt
      /\ MaxAttempt \in Nat
      /\ result[c] = None
  BY <1>0, AttemptAssumption DEF TypeOK, Fine, UnderWay
<1>2. attempt[c] + 1 \in Attempt
  BY <1>1
<1>3. TypeOK'
  BY <1>0, <1>1, <1>2 DEF TypeOK
<1>4. Fine(c)'
  <2>1. pc'[c] = "request" /\ attempt'[c] = attempt[c] + 1 /\ result'[c] = None
    BY <1>0, <1>1 DEF TypeOK
  <2> QED BY <1>0, <2>1, TaskOfSleeper DEF CreateTask
<1>5. ASSUME NEW d \in Call, d # c PROVE Fine(d)'
  <2>1. Same(d)
    BY <1>0, <1>5 DEF Same, TypeOK
  <2> QED BY <2>1, OthersFine
<1> QED BY <1>3, <1>4, <1>5

LEMMA CancelFine ==
  ASSUME NEW c \in Call, TypeOK, \A d \in Call : Fine(d), Cancel(c)
  PROVE  TypeOK' /\ \A d \in Call : Fine(d)'
<1>0. Leave(c, "cancelled") /\ UNCHANGED <<attempt, record, row>>
  BY DEF Cancel
<1>1. CASE /\ pc[c] = "request"
           /\ TasksStarted(c)
           /\ Ends(c, "cancelled")
           /\ Executed(c) \/ UNCHANGED effects
  <2>1. /\ effects[c] = 0
        /\ effects \in [Call -> Nat]
        /\ record[c].status # "success"
        /\ record \in [Call -> LogRecord]
    BY <1>1 DEF Fine, UnderWay, TypeOK
  <2>2. /\ effects' \in [Call -> Nat]
        /\ effects'[c] <= 1
        /\ \A d \in Call : d # c => effects'[d] = effects[d]
    BY <1>1, <2>1 DEF Executed
  <2>3. Tells(record'[c], "cancelled")
    BY <1>0, <2>1 DEF Tells, Statuses, Refusals
  <2> QED BY <1>0, <1>1, <2>1, <2>2, <2>3, LeaveFine DEF Verdicts, Outcomes
<1>2. CASE pc[c] = "sleep" /\ UNCHANGED <<verdict, effects>>
  <2>1. /\ task' = [task EXCEPT ![c][attempt[c]] = "ready"]
        /\ pc' = [pc EXCEPT ![c] = "done"]
        /\ result' = [result EXCEPT ![c] = "cancelled"]
    BY <1>0 DEF Leave, CreateTask
  <2>2. TypeOK'
    BY <1>0, <1>2, <2>1 DEF TypeOK, Outcomes
  <2>3. Fine(c)'
    <3>1. pc'[c] = "done" /\ attempt'[c] = attempt[c] /\ result'[c] = "cancelled"
      BY <1>0, <2>1 DEF TypeOK
    <3> QED BY <1>0, <1>2, <3>1, TaskOfSleeper DEF Leave
  <2>4. ASSUME NEW d \in Call, d # c PROVE Fine(d)'
    <3>1. Same(d)
      BY <1>0, <1>2, <2>1, <2>4 DEF Same, TypeOK
    <3> QED BY <3>1, OthersFine
  <2> QED BY <2>2, <2>3, <2>4
<1> QED BY <1>1, <1>2 DEF Cancel

\* A log task starts: it sends the record while it tells of its own attempt.
LEMMA StartTaskFine ==
  ASSUME NEW c \in Call, NEW n \in Attempt, TypeOK, \A d \in Call : Fine(d),
         StartTask(c, n)
  PROVE  TypeOK' /\ \A d \in Call : Fine(d)'
<1>0. /\ task[c][n] = "ready"
      /\ task' = [task EXCEPT ![c][n] = "posting"]
      /\ row' = [row EXCEPT ![c][n] = record[c]]
      /\ UNCHANGED <<pc, attempt, record, result, verdict, effects>>
  BY DEF StartTask
<1>1. TypeOK'
  BY <1>0 DEF TypeOK
<1>2. \A m \in Attempt :
        /\ task'[c][m] = IF m = n THEN "posting" ELSE task[c][m]
        /\ row'[c][m] = IF m = n THEN record[c] ELSE row[c][m]
  BY <1>0 DEF TypeOK
<1>3. Tells(record[c], verdict[c][n])
  BY <1>0 DEF Fine, Pending
<1>4. pc[c] # "sleep"
  BY <1>0 DEF Fine, UnderWay, TasksStarted
<1>5. UnderWay(c)'
  BY <1>0, <1>4 DEF Fine, UnderWay
<1>6. Pending(c)'
  BY <1>0, <1>2 DEF Fine, Pending, Tells
<1>7. ASSUME NEW m \in Attempt
      PROVE  /\ task'[c][m] # None <=> task[c][m] # None
             /\ row'[c][m] # None => Tells(row'[c][m], verdict[c][m])
  BY <1>0, <1>2, <1>3, NoneAssumption DEF Fine
<1>8. Fine(c)'
  BY <1>0, <1>5, <1>6, <1>7 DEF Fine, Tells
<1>9. ASSUME NEW d \in Call, d # c PROVE Fine(d)'
  <2>1. Same(d)
    BY <1>0, <1>9 DEF Same, TypeOK
  <2> QED BY <2>1, OthersFine
<1> QED BY <1>1, <1>8, <1>9

LEMMA FinishTaskFine ==
  ASSUME NEW c \in Call, NEW n \in Attempt, TypeOK, \A d \in Call : Fine(d),
         FinishTask(c, n)
  PROVE  TypeOK' /\ \A d \in Call : Fine(d)'
<1> PICK final \in {"stored", "lost"} : task' = [task EXCEPT ![c][n] = final]
  BY DEF FinishTask
<1>0. /\ task[c][n] = "posting"
      /\ UNCHANGED <<pc, attempt, record, result, row, verdict, effects>>
  BY DEF FinishTask
<1>1. TypeOK'
  BY <1>0 DEF TypeOK
<1>2. \A m \in Attempt : task'[c][m] = IF m = n THEN final ELSE task[c][m]
  BY DEF TypeOK
<1>3. UnderWay(c)'
  BY <1>0, <1>2 DEF Fine, UnderWay, TasksStarted, Tells
<1>4. Pending(c)'
  BY <1>0, <1>2 DEF Fine, Pending, Tells
<1>5. \A m \in Attempt : task'[c][m] # None <=> task[c][m] # None
  BY <1>0, <1>2, NoneAssumption
<1>6. Fine(c)'
  BY <1>0, <1>3, <1>4, <1>5 DEF Fine, Tells
<1>7. ASSUME NEW d \in Call, d # c PROVE Fine(d)'
  <2>1. Same(d)
    BY <1>0, <1>7 DEF Same, TypeOK
  <2> QED BY <2>1, OthersFine
<1> QED BY <1>1, <1>6, <1>7

LEMMA StartFine ==
  ASSUME NEW c \in Call, TypeOK, \A d \in Call : Fine(d), Start(c)
  PROVE  TypeOK' /\ \A d \in Call : Fine(d)'
<1>0. /\ pc[c] = "idle"
      /\ pc' = [pc EXCEPT ![c] = "request"]
      /\ UNCHANGED <<attempt, record, result, task, row, verdict, effects>>
  BY DEF Start
<1>1. TypeOK'
  BY <1>0 DEF TypeOK
<1>2. Fine(c)'
  <2>1. pc'[c] = "request"
    BY <1>0 DEF TypeOK
  <2>2. UnderWay(c)'
    BY <1>0, <2>1 DEF Fine, UnderWay
  <2>3. Pending(c)'
    BY <1>0 DEF Fine, Pending, Tells
  <2>4. \A n \in Attempt :
           /\ task'[c][n] # None <=>
                 \/ n < attempt'[c]
                 \/ n = attempt'[c] /\ pc'[c] = "done"
           /\ row'[c][n] # None => Tells(row'[c][n], verdict'[c][n])
    BY <1>0, <2>1 DEF Fine
  <2> QED BY <1>0, <2>2, <2>3, <2>4 DEF Fine, Tells
<1>3. ASSUME NEW d \in Call, d # c PROVE Fine(d)'
  <2>1. Same(d)
    BY <1>0, <1>3 DEF Same, TypeOK
  <2> QED BY <2>1, OthersFine
<1> QED BY <1>1, <1>2, <1>3

LEMMA InvInit == Init => IInv
<1> SUFFICES ASSUME Init PROVE TypeOK /\ \A c \in Call : Fine(c)
  BY InvSplit
<1>1. 1 \in Attempt
  BY AttemptAssumption
<1>2. TypeOK
  BY <1>1 DEF Init, TypeOK, LogRecord, NewRecord
<1>3. ASSUME NEW c \in Call PROVE Fine(c)
  <2>1. \A n \in Attempt : task[c][n] = None /\ row[c][n] = None /\ ~(n < 1)
    BY DEF Init
  <2>2. /\ pc[c] = "idle"
        /\ attempt[c] = 1
        /\ result[c] = None
        /\ effects[c] = 0
        /\ record[c].status = None
    BY DEF Init, NewRecord
  <2> QED BY <2>1, <2>2, NoneAssumption DEF Fine, UnderWay, Pending
<1> QED BY <1>2, <1>3

LEMMA InvNext == IInv /\ [Next]_vars => IInv'
<1> SUFFICES ASSUME TypeOK, \A d \in Call : Fine(d), [Next]_vars
             PROVE  TypeOK' /\ \A d \in Call : Fine(d)'
  BY InvSplit DEF IInv, Fine, CarriedOutOnce, ResultsTruthful,
                  EveryAttemptLogged, RowsTruthful, Tells
<1>1. ASSUME NEW c \in Call, Start(c) PROVE TypeOK' /\ \A d \in Call : Fine(d)'
  BY <1>1, StartFine
<1>2. ASSUME NEW c \in Call, Answer(c) PROVE TypeOK' /\ \A d \in Call : Fine(d)'
  BY <1>2, AnswerFine, ThrottleFine DEF Answer
<1>3. ASSUME NEW c \in Call, Wake(c) PROVE TypeOK' /\ \A d \in Call : Fine(d)'
  BY <1>3, WakeFine
<1>4. ASSUME NEW c \in Call, Cancel(c) PROVE TypeOK' /\ \A d \in Call : Fine(d)'
  BY <1>4, CancelFine
<1>5. ASSUME NEW c \in Call, NEW n \in Attempt, StartTask(c, n)
      PROVE  TypeOK' /\ \A d \in Call : Fine(d)'
  BY <1>5, StartTaskFine
<1>6. ASSUME NEW c \in Call, NEW n \in Attempt, FinishTask(c, n)
      PROVE  TypeOK' /\ \A d \in Call : Fine(d)'
  BY <1>6, FinishTaskFine
<1>7. CASE UNCHANGED vars
  <2>1. TypeOK'
    BY <1>7 DEF vars, TypeOK
  <2>2. \A d \in Call : Same(d)
    BY <1>7 DEF vars, Same
  <2> QED BY <2>1, <2>2, OthersFine
<1> QED BY <1>1, <1>2, <1>3, <1>4, <1>5, <1>6, <1>7 DEF Next

-----------------------------------------------------------------------------
(* Theorems.                                                               *)

\* The variables keep their types; in particular there are never more than
\* MaxAttempt attempts (graph_client.py:97-98).
THEOREM TypeCorrect == Spec => []TypeOK
<1>1. IInv => TypeOK
  BY DEF IInv
<1> QED BY <1>1, InvInit, InvNext, PTL DEF Spec

\* Graph carries the operation of a call out at most once
\* (graph_client.py:150-158).
THEOREM NoDuplicates == Spec => []CarriedOutOnce
<1>1. IInv => CarriedOutOnce
  BY DEF IInv
<1> QED BY <1>1, InvInit, InvNext, PTL DEF Spec

\* Success means carried out, a Graph error means not carried out
\* (graph_client.py:109-149).
THEOREM ResultsHold == Spec => []ResultsTruthful
<1>1. IInv => ResultsTruthful
  BY DEF IInv
<1> QED BY <1>1, InvInit, InvNext, PTL DEF Spec

\* Every attempt that is over has its log task (graph_client.py:166-170).
THEOREM AttemptsLogged == Spec => []EveryAttemptLogged
<1>1. IInv => EveryAttemptLogged
  BY DEF IInv
<1> QED BY <1>1, InvInit, InvNext, PTL DEF Spec

\* The row of an attempt says how this attempt ended, although all attempts
\* write one record (graph_client.py:88, 116, 138, 163).
THEOREM RowsHold == Spec => []RowsTruthful
<1>1. IInv => RowsTruthful
  BY DEF IInv
<1> QED BY <1>1, InvInit, InvNext, PTL DEF Spec

-----------------------------------------------------------------------------
(* Refinement: every step of a call is a step of its one request.          *)

\* The call leaves with an outcome that its effects bear out.
LEMMA LeaveEnds ==
  ASSUME NEW c \in Call, NEW o \in Outcomes, TypeOK, UnderWay(c),
         pc[c] \in {"request", "sleep"}, Leave(c, o),
         Executed(c) \/ UNCHANGED effects,
         o = "ok" => Executed(c),
         o = "GraphError" => UNCHANGED effects
  PROVE  \E times \in Promise!Times(o) : Promise!End(c, o, times)
<1>1. /\ pc' = [pc EXCEPT ![c] = "done"]
      /\ result' = [result EXCEPT ![c] = o]
      /\ effects[c] = 0 /\ effects \in [Call -> Nat]
      /\ pc \in [Call -> {"idle", "request", "sleep", "done"}]
  BY DEF Leave, UnderWay, TypeOK
<1>2. PICK times \in {0, 1} :
         /\ o = "ok" => times = 1
         /\ o = "GraphError" => times = 0
         /\ effects' = [effects EXCEPT ![c] = times]
  <2>1. CASE Executed(c)
    BY <1>1, <2>1 DEF Executed
  <2>2. CASE UNCHANGED effects
    <3>1. effects' = [effects EXCEPT ![c] = 0] /\ effects # [effects EXCEPT ![c] = @ + 1]
      BY <1>1, <2>2
    <3> QED BY <2>2, <3>1 DEF Executed
  <2> QED BY <2>1, <2>2
<1>3. Promise!End(c, o, times)
  BY <1>1, <1>2 DEF Promise!End
<1>4. times \in Promise!Times(o)
  BY <1>2 DEF Promise!Times
<1> QED BY <1>3, <1>4

LEMMA InitRefines == Init => Promise!Init
  BY DEF Init, Promise!Init

LEMMA NextRefines ==
  ASSUME IInv, [Next]_vars
  PROVE  [Promise!Next]_Promise!vars
<1>0. TypeOK /\ \A c \in Call : UnderWay(c)
  BY DEF IInv
<1>1. ASSUME NEW c \in Call, NEW o \in Outcomes,
             \E times \in Promise!Times(o) : Promise!End(c, o, times)
      PROVE  Promise!Next
  BY <1>1 DEF Promise!Next, Promise!Outcomes, Outcomes
<1>2. ASSUME NEW c \in Call, Start(c) PROVE Promise!Next
  <2>1. /\ pc[c] = "idle" /\ pc' = [pc EXCEPT ![c] = "request"]
        /\ UNCHANGED <<result, effects>>
        /\ pc \in [Call -> {"idle", "request", "sleep", "done"}]
    BY <1>0, <1>2 DEF Start, TypeOK
  <2>2. Promise!Send(c)
    BY <2>1 DEF Promise!Send
  <2> QED BY <2>2 DEF Promise!Next
<1>3. ASSUME NEW c \in Call, Succeed(c) PROVE Promise!Next
  BY <1>0, <1>1, <1>3, LeaveEnds DEF Succeed, Outcomes
<1>4. ASSUME NEW c \in Call, BadBody(c) PROVE Promise!Next
  BY <1>0, <1>1, <1>4, LeaveEnds DEF BadBody, Outcomes
<1>5. ASSUME NEW c \in Call, NEW v \in Refusals, Refuse(c, v) PROVE Promise!Next
  BY <1>0, <1>1, <1>5, LeaveEnds DEF Refuse, Outcomes
<1>6. ASSUME NEW c \in Call, AnswerOther(c) PROVE Promise!Next
  BY <1>0, <1>1, <1>6, LeaveEnds DEF AnswerOther, Outcomes
<1>7. ASSUME NEW c \in Call, Break(c) PROVE Promise!Next
  BY <1>0, <1>1, <1>7, LeaveEnds DEF Break, Outcomes
<1>8. ASSUME NEW c \in Call, pc[c] \in {"request", "sleep"}, UNCHANGED <<result, effects>>,
             \E there \in {"request", "sleep"} : pc' = [pc EXCEPT ![c] = there]
      PROVE  UNCHANGED Promise!vars
  BY <1>0, <1>8 DEF TypeOK, Promise!vars
<1>9. ASSUME NEW c \in Call, Throttle(c) PROVE [Promise!Next]_Promise!vars
  <2>1. CASE \E o \in {"HTTPStatusError", "Exception"} : Leave(c, o)
    BY <1>0, <1>1, <1>9, <2>1, LeaveEnds DEF Throttle, Outcomes
  <2>2. CASE pc' = [pc EXCEPT ![c] = "sleep"] /\ UNCHANGED result
    BY <1>8, <1>9, <2>2 DEF Throttle
  <2> QED BY <1>9, <2>1, <2>2 DEF Throttle
<1>10. ASSUME NEW c \in Call, Wake(c) PROVE UNCHANGED Promise!vars
  BY <1>8, <1>10 DEF Wake
<1>11. ASSUME NEW c \in Call, Cancel(c) PROVE Promise!Next
  BY <1>0, <1>1, <1>11, LeaveEnds DEF Cancel, Outcomes
<1>12. ASSUME UNCHANGED <<pc, result, effects>> PROVE UNCHANGED Promise!vars
  BY <1>12 DEF Promise!vars
<1>13. ASSUME NEW c \in Call, NEW n \in Attempt, StartTask(c, n) \/ FinishTask(c, n)
       PROVE  UNCHANGED Promise!vars
  BY <1>12, <1>13 DEF StartTask, FinishTask
<1>14. CASE UNCHANGED vars
  BY <1>12, <1>14 DEF vars
<1> QED BY <1>2, <1>3, <1>4, <1>5, <1>6, <1>7, <1>9, <1>10, <1>11, <1>13, <1>14
        DEF Next, Answer

\* GraphClient implements GraphRequest: whatever is retried, a service sees one
\* request with one result, and Graph carries it out accordingly
\* (graph_client.py:98-170).
THEOREM Refinement == Spec => ImplementsGraphRequest
<1>1. IInv /\ [Next]_vars => [Promise!Next]_Promise!vars
  BY NextRefines
<1> QED BY <1>1, InitRefines, InvInit, InvNext, PTL
        DEF Spec, ImplementsGraphRequest, Promise!Spec

=============================================================================
