------------------------- MODULE TokenChainsProofs -------------------------
(* What follows from the abstract design alone, for any set of tokens. *)
EXTENDS TokenChains, TLAPS

ChainInv == ChainTypeOK /\ OneLivePerFamily

(* No step of the design ever leaves two exchangeable tokens in one family:  *)
(* login opens a family of its own, and rotation replaces the live token.    *)
THEOREM ChainInvariant == ChainSpec => []ChainInv
<1>1. ChainInit => ChainInv
  BY DEF ChainInit, ChainInv, ChainTypeOK, OneLivePerFamily
<1>2. ChainInv /\ [ChainNext]_chainVars => ChainInv'
  <2> SUFFICES ASSUME ChainInv, [ChainNext]_chainVars PROVE ChainInv'
    OBVIOUS
  <2> USE DEF ChainInv, ChainTypeOK, OneLivePerFamily
  <2>1. ASSUME NEW n \in Tokens, Open(n) PROVE ChainInv'
    BY <2>1 DEF Open
  <2>2. ASSUME NEW t \in Tokens, NEW n \in Tokens, Rotate(t, n) PROVE ChainInv'
    BY <2>2 DEF Rotate
  <2>3. ASSUME NEW S \in SUBSET live, Retire(S) PROVE ChainInv'
    BY <2>3 DEF Retire
  <2>4. CASE UNCHANGED chainVars
    BY <2>4 DEF chainVars
  <2> QED
    BY <2>1, <2>2, <2>3, <2>4 DEF ChainNext
<1> QED
  BY <1>1, <1>2, PTL DEF ChainSpec

(* A spent token never becomes exchangeable again, whatever happens next.    *)
THEOREM ChainSpentIsFinal == ChainSpec => SpentIsFinal
<1>1. ChainTypeOK /\ [ChainNext]_chainVars
        => [\A t \in issued \ live : t \in issued' \ live']_chainVars
  BY DEF ChainTypeOK, ChainNext, Open, Rotate, Retire, chainVars
<1>2. ChainInv => ChainTypeOK
  BY DEF ChainInv
<1> QED
  BY <1>1, <1>2, ChainInvariant, PTL DEF ChainSpec, SpentIsFinal
=============================================================================
