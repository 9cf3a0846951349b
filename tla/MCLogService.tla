---------------------------- MODULE MCLogService ----------------------------
(* A small instance of LogService for TLC: two users who have the same id in *)
(* two companies, and a cache that holds one of them.                        *)
EXTENDS LogService, TLC

CONSTANTS a, b, i

MCPerson == {[company |-> a, id |-> i], [company |-> b, id |-> i]}

=============================================================================
