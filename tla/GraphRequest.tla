---------------------------- MODULE GraphRequest ----------------------------
(***************************************************************************)
(* What GraphClient promises a service that awaits graph_request: one      *)
(* request with one result.  The operation is carried out at most once and *)
(* never after the result is known; a success says that it was, a Graph    *)
(* error that it was not, and any other end leaves that open.  How often   *)
(* it is tried and what is logged is left to the implementation.           *)
(***************************************************************************)
EXTENDS GraphResult

CONSTANTS
    Call,           \* invocations of graph_request
    None            \* nothing yet

VARIABLES
    phase,          \* "idle", "sent", "over"
    result,         \* what the service got
    effects         \* how often the operation was carried out

vars == <<phase, result, effects>>

Init ==
    /\ phase = [c \in Call |-> "idle"]
    /\ result = [c \in Call |-> None]
    /\ effects = [c \in Call |-> 0]

Send(c) ==
    /\ phase[c] = "idle"
    /\ phase' = [phase EXCEPT ![c] = "sent"]
    /\ UNCHANGED <<result, effects>>

\* The request is over, carried out that often.
End(c, outcome, times) ==
    /\ phase[c] = "sent"
    /\ phase' = [phase EXCEPT ![c] = "over"]
    /\ result' = [result EXCEPT ![c] = outcome]
    /\ effects' = [effects EXCEPT ![c] = times]

Next ==
    \E c \in Call :
        \/ Send(c)
        \/ \E outcome \in Outcomes : \E times \in Times(outcome) : End(c, outcome, times)

Spec == Init /\ [][Next]_vars

=============================================================================
