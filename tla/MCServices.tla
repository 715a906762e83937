----------------------------- MODULE MCServices -----------------------------
(***************************************************************************)
(* Accounts and RateLimiter for TLC.  They share no state, so one run       *)
(* checks them side by side: `turn' is the module that moves, and the other *)
(* rests in its initial state.                                              *)
(***************************************************************************)
EXTENDS MCAccounts, RateLimiter

VARIABLE turn

servicesVars == <<turn, vars, limiterVars>>

ServicesInit == turn \in {"accounts", "limiter"} /\ Init /\ LimiterInit

ServicesNext ==
    /\ UNCHANGED turn
    /\ \/ turn = "accounts" /\ Next
       \/ turn # "accounts" /\ UNCHANGED vars
    /\ \/ turn = "limiter" /\ LimiterNext
       \/ turn # "limiter" /\ UNCHANGED limiterVars

ServicesSpec == ServicesInit /\ [][ServicesNext]_servicesVars

\* Interchangeable sets: not all that are, since every state is compared in every order.
SymmetricServices ==
    Permutations(Requests) \union Permutations(Ids) \union Permutations(Addresses)
        \union Permutations(Threads)
=============================================================================
