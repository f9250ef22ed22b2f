----------------------------- MODULE MCAccounts -----------------------------
(* Model checking of Accounts.                                             *)
EXTENDS Accounts, TLC

Symmetry ==
  Permutations(Request) \cup Permutations(Project) \cup Permutations(User)
    \cup Permutations(Link) \cup Permutations(Name) \cup Permutations(Account)
=============================================================================
