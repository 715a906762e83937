---------------------------- MODULE TokenChains ----------------------------
(***************************************************************************)
(* What the refresh-token design promises (SEC-023, SEC-024), with the      *)
(* database, its transactions and its locks left out.  Every login opens a  *)
(* family; a family's tokens form one linear chain, so that at most its     *)
(* newest token can still be exchanged; a token that stops being live never *)
(* becomes live again, and is never issued a second time.                   *)
(*                                                                          *)
(* Sessions.tla, the model of AuthService over PostgreSQL, implements this. *)
(***************************************************************************)
CONSTANTS Tokens,    \* the refresh tokens that can ever be generated
          NoToken    \* the family of a token that was not issued

VARIABLES issued,    \* tokens handed out so far
          live,      \* issued tokens that a refresh would still accept
          family     \* issued token -> the token its login issued

chainVars == <<issued, live, family>>

ChainInit ==
    /\ issued = {}
    /\ live = {}
    /\ family = [t \in Tokens |-> NoToken]

\* A login issues the first token of a new family.
Open(n) ==
    /\ n \in Tokens \ issued
    /\ issued' = issued \union {n}
    /\ live' = live \union {n}
    /\ family' = [family EXCEPT ![n] = n]

\* A refresh exchanges a live token for the next one of its family.
Rotate(t, n) ==
    /\ t \in live
    /\ n \in Tokens \ issued
    /\ issued' = issued \union {n}
    /\ live' = (live \ {t}) \union {n}
    /\ family' = [family EXCEPT ![n] = family[t]]

\* Logout, reuse detection and suspension retire tokens.
Retire(S) ==
    /\ S \subseteq live
    /\ live' = live \ S
    /\ UNCHANGED <<issued, family>>

ChainNext ==
    \/ \E n \in Tokens : Open(n)
    \/ \E t, n \in Tokens : Rotate(t, n)
    \/ \E S \in SUBSET live : Retire(S)

ChainSpec == ChainInit /\ [][ChainNext]_chainVars

-----------------------------------------------------------------------------
ChainTypeOK ==
    /\ issued \subseteq Tokens
    /\ live \subseteq issued
    /\ family \in [Tokens -> Tokens \union {NoToken}]
    /\ \A t \in issued : family[t] \in issued

(* The "single linear chain" of AuthService.refresh's docstring: two         *)
(* different tokens of one login are never both exchangeable.                *)
OneLivePerFamily ==
    \A s, t \in live : family[s] = family[t] => s = t

(* A token that was issued and is no longer live stays that way: rotation,   *)
(* reuse detection, logout and suspension are all final.                     *)
SpentIsFinal ==
    [][\A t \in issued \ live : t \in issued' \ live']_chainVars
=============================================================================
