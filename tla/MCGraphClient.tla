--------------------------- MODULE MCGraphClient ---------------------------
(* A small instance of GraphClient for TLC: calls do not interact, one is   *)
(* enough for every order of its attempts and its log tasks.                *)
EXTENDS GraphClient

=============================================================================
