----------------------------- MODULE MCAppToken -----------------------------
(* Small instances of AppToken for TLC. *)
EXTENDS AppToken, TLC

\* Handlers, keys and tokens are interchangeable.
Symmetry == Permutations(Request) \cup Permutations(Key) \cup Permutations(Token)

=============================================================================
