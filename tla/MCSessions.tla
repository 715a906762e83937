----------------------------- MODULE MCSessions -----------------------------
(* Sessions for TLC: which of its sets are interchangeable. *)
EXTENDS Sessions, TLC

Symmetric == Permutations(Requests) \union Permutations(Tokens)
=============================================================================
