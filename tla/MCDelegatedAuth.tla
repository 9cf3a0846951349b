-------------------------- MODULE MCDelegatedAuth --------------------------
(* Small instances of DelegatedAuth for TLC. *)
EXTENDS DelegatedAuth, TLC

\* Handlers and grants are interchangeable; so are accounts.
Symmetry == Permutations(Request) \cup Permutations(Grant)
              \cup Permutations(Account)

=============================================================================
