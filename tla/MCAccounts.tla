----------------------------- MODULE MCAccounts -----------------------------
(* Small instances of Accounts.                                             *)
EXTENDS AccountsRefinement, TLC

Symmetry ==
  UNION {Permutations(S) : S \in {Req, Account, Tenant, Name, Slug}}
=============================================================================
