----------------------------- MODULE MCAccounts -----------------------------
(* Accounts for TLC: which of its sets are interchangeable. *)
EXTENDS Accounts, TLC

Symmetric ==
    Permutations(Requests) \union Permutations(Ids) \union Permutations(Addresses)
        \union Permutations(Names) \union Permutations(Chosen) \union Permutations(Temporary)
=============================================================================
