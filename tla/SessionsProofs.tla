--------------------------- MODULE SessionsProofs ---------------------------
(***************************************************************************)
(* Theorems about Sessions, for every set of requests, users and tokens.    *)
(*                                                                          *)
(* The invariant OneLivePerFamily is not inductive: that a rotation leaves   *)
(* one live token depends on its presented token still being live when the  *)
(* successor is stored (RotationInv), hence on who may hold row locks       *)
(* (LockInv), and on the successor's secret being new (FreshInv).  CoreInv   *)
(* is the conjunction of these.                                              *)
(*                                                                          *)
(* OnlyOverlapSurvives needs in addition what a revocation that is under     *)
(* way still has to reach (BesideInv): with it, IInv is inductive.           *)
(***************************************************************************)
EXTENDS Sessions, TLAPS

LEMMA InitCore == Init => CoreInv
  BY NoneAssumption DEF Init, CoreInv, TypeOK, PCs, RowsInv, FreshInv, ReadInv, RotationInv,
     LockInv, BulkInv, OneLivePerFamily, Chain!OneLivePerFamily, Live, Held, Bulk

\* One step per action; under it, the invariants of the data, of the locks, and
\* the property itself.
LEMMA StepCore == CoreInv /\ [Next]_vars => CoreInv'
<1> SUFFICES ASSUME CoreInv, [Next]_vars PROVE CoreInv'
  OBVIOUS
<1>1. ASSUME NEW r \in Requests, NEW u \in Users, LoginCheck(r, u) PROVE CoreInv'
  <2>1. TypeOK'
    BY <1>1 DEF LoginCheck, database, locks, CoreInv, TypeOK, PCs, Draw, answers, Fresh
  <2>2. (RowsInv /\ FreshInv /\ ReadInv)'
    BY <1>1 DEF LoginCheck, database, Fresh, CoreInv, RowsInv, TypeOK, FreshInv,
         ReadInv, Draw
  <2>3. (RotationInv /\ LockInv /\ BulkInv)'
    BY <1>1 DEF LoginCheck, database, locks, CoreInv, RotationInv, LockInv, Bulk,
         BulkInv, Held
  <2>4. OneLivePerFamily'
    BY <1>1 DEF LoginCheck, database, CoreInv, OneLivePerFamily, Chain!OneLivePerFamily,
         Live
  <2> QED
    BY <2>1, <2>2, <2>3, <2>4 DEF CoreInv
<1>2. ASSUME NEW r \in Requests, LoginIssue(r) PROVE CoreInv'
  <2>1. TypeOK'
    BY <1>2 DEF LoginIssue, history, answers, End, InsertToken, CoreInv, TypeOK, PCs,
         FreshInv
  <2>2. (RowsInv /\ FreshInv /\ ReadInv)'
    BY <1>2, NoneAssumption DEF LoginIssue, End, InsertToken, CoreInv, RowsInv, TypeOK,
         FreshInv, ReadInv
  <2>3. (RotationInv /\ LockInv /\ BulkInv)'
    BY <1>2, NoneAssumption DEF LoginIssue, End, InsertToken, CoreInv, RotationInv,
         TypeOK, LockInv, BulkInv, Held, ReadInv, FreshInv
  <2>4. OneLivePerFamily'
    BY <1>2 DEF LoginIssue, InsertToken, CoreInv, OneLivePerFamily,
         Chain!OneLivePerFamily, Live, TypeOK, FreshInv, RowsInv
  <2> QED
    BY <2>1, <2>2, <2>3, <2>4 DEF CoreInv
<1>3. ASSUME NEW r \in Requests, NEW t \in Tokens, RefreshAccept(r, t) PROVE CoreInv'
  <2>1. TypeOK'
    BY <1>3 DEF RefreshAccept, database, ReadForUpdate, CoreInv, TypeOK, PCs, Draw,
         answers, Fresh
  <2>2. (RowsInv /\ FreshInv /\ ReadInv)'
    BY <1>3 DEF RefreshAccept, database, ReadForUpdate, Fresh, CoreInv, RowsInv, TypeOK,
         FreshInv, ReadInv, Draw
  <2>3. (RotationInv /\ LockInv /\ BulkInv)'
    BY <1>3, NoneAssumption DEF RefreshAccept, database, ReadForUpdate, CoreInv,
         RotationInv, TypeOK, LockInv, BulkInv, Held
  <2>4. OneLivePerFamily'
    BY <1>3 DEF RefreshAccept, database, CoreInv, OneLivePerFamily,
         Chain!OneLivePerFamily, Live
  <2> QED
    BY <2>1, <2>2, <2>3, <2>4 DEF CoreInv
<1>4. ASSUME NEW r \in Requests, RefreshRotate(r) PROVE CoreInv'
  <2>1. TypeOK'
    BY <1>4 DEF RefreshRotate, history, answers, End, InsertToken, CoreInv, TypeOK, PCs,
         ReadInv, FreshInv
  <2>2. (RowsInv /\ FreshInv /\ ReadInv)'
    BY <1>4, NoneAssumption DEF RefreshRotate, End, InsertToken, CoreInv, RowsInv,
         TypeOK, FreshInv, ReadInv
  <2>3. (RotationInv /\ LockInv /\ BulkInv)'
    BY <1>4, NoneAssumption DEF RefreshRotate, End, InsertToken, CoreInv, RotationInv,
         TypeOK, LockInv, BulkInv, Held, ReadInv, FreshInv
  <2>4. OneLivePerFamily'
    BY <1>4 DEF RefreshRotate, InsertToken, CoreInv, OneLivePerFamily,
         Chain!OneLivePerFamily, Live, TypeOK, FreshInv, ReadInv, RotationInv
  <2> QED
    BY <2>1, <2>2, <2>3, <2>4 DEF CoreInv
<1>5. ASSUME NEW r \in Requests, NEW t \in Tokens, RefreshReuse(r, t) PROVE CoreInv'
  <2>1. TypeOK'
    BY <1>5 DEF RefreshReuse, database, history, answers, ReadForUpdate, CoreInv,
         TypeOK, PCs
  <2>2. (RowsInv /\ FreshInv /\ ReadInv)'
    BY <1>5 DEF RefreshReuse, database, CoreInv, RowsInv, TypeOK, FreshInv, ReadInv
  <2>3. (RotationInv /\ LockInv /\ BulkInv)'
    BY <1>5 DEF RefreshReuse, database, ReadForUpdate, CoreInv, RotationInv, TypeOK,
         LockInv, BulkInv, Held
  <2>4. OneLivePerFamily'
    BY <1>5 DEF RefreshReuse, database, CoreInv, OneLivePerFamily,
         Chain!OneLivePerFamily, Live
  <2> QED
    BY <2>1, <2>2, <2>3, <2>4 DEF CoreInv
<1>6. ASSUME NEW r \in Requests, RevokeFamilyBegin(r) PROVE CoreInv'
  <2>1. TypeOK'
    BY <1>6 DEF RevokeFamilyBegin, database, locks, Aim, FamilyRows, CoreInv, TypeOK,
         PCs, Bulk, RevocationBegins, answers
  <2>2. (RowsInv /\ FreshInv /\ ReadInv)'
    BY <1>6 DEF RevokeFamilyBegin, database, CoreInv, RowsInv, FreshInv, ReadInv
  <2>3. (RotationInv /\ LockInv /\ BulkInv)'
    BY <1>6 DEF RevokeFamilyBegin, database, locks, Aim, FamilyRows, CoreInv,
         RotationInv, TypeOK, LockInv, Bulk, BulkInv, Held
  <2>4. OneLivePerFamily'
    BY <1>6 DEF RevokeFamilyBegin, database, CoreInv, OneLivePerFamily,
         Chain!OneLivePerFamily, Live
  <2> QED
    BY <2>1, <2>2, <2>3, <2>4 DEF CoreInv
<1>7. ASSUME NEW r \in Requests, BulkLock(r) PROVE CoreInv'
  <2>1. TypeOK'
    BY <1>7 DEF BulkLock, database, history, answers, Aim, CoreInv, TypeOK
  <2>2. (RowsInv /\ FreshInv /\ ReadInv)'
    BY <1>7 DEF BulkLock, database, CoreInv, RowsInv, FreshInv, ReadInv
  <2>3. (RotationInv /\ LockInv /\ BulkInv)'
    BY <1>7, NoneAssumption DEF BulkLock, database, Aim, CoreInv, RotationInv, TypeOK,
         LockInv, BulkInv, Held
  <2>4. OneLivePerFamily'
    BY <1>7 DEF BulkLock, database, CoreInv, OneLivePerFamily, Chain!OneLivePerFamily,
         Live
  <2> QED
    BY <2>1, <2>2, <2>3, <2>4 DEF CoreInv
<1>8. ASSUME NEW r \in Requests, RevokeFamilyCommit(r) PROVE CoreInv'
  <2>1. TypeOK'
    BY <1>8, NoneAssumption DEF RevokeFamilyCommit, End, Held, CoreInv, TypeOK, PCs,
         ReadInv, LockInv, RowsInv
  <2>2. (RowsInv /\ FreshInv /\ ReadInv)'
    BY <1>8, NoneAssumption DEF RevokeFamilyCommit, End, CoreInv, RowsInv, TypeOK,
         FreshInv, ReadInv
  <2>3. (RotationInv /\ LockInv /\ BulkInv)'
    BY <1>8, NoneAssumption DEF RevokeFamilyCommit, End, Held, CoreInv, RotationInv,
         TypeOK, LockInv, BulkInv, ReadInv
  <2>4. OneLivePerFamily'
    BY <1>8 DEF RevokeFamilyCommit, CoreInv, OneLivePerFamily, Chain!OneLivePerFamily,
         Live
  <2> QED
    BY <2>1, <2>2, <2>3, <2>4 DEF CoreInv
<1>9. ASSUME NEW r \in Requests, NEW t \in Tokens, LogoutRead(r, t) PROVE CoreInv'
  <2>1. TypeOK'
    BY <1>9 DEF LogoutRead, database, locks, CoreInv, TypeOK, PCs, RevocationBegins,
         answers
  <2>2. (RowsInv /\ FreshInv /\ ReadInv)'
    BY <1>9 DEF LogoutRead, database, Live, CoreInv, RowsInv, TypeOK, FreshInv, ReadInv
  <2>3. (RotationInv /\ LockInv /\ BulkInv)'
    BY <1>9 DEF LogoutRead, database, locks, CoreInv, RotationInv, LockInv, Bulk,
         BulkInv, Held
  <2>4. OneLivePerFamily'
    BY <1>9 DEF LogoutRead, database, Live, CoreInv, OneLivePerFamily,
         Chain!OneLivePerFamily
  <2> QED
    BY <2>1, <2>2, <2>3, <2>4 DEF CoreInv
<1>10. ASSUME NEW r \in Requests, LogoutRevoke(r) PROVE CoreInv'
  <2>1. TypeOK'
    BY <1>10 DEF LogoutRevoke, End, CoreInv, TypeOK, PCs, ReadInv, RowsInv
  <2>2. (RowsInv /\ FreshInv /\ ReadInv)'
    BY <1>10, NoneAssumption DEF LogoutRevoke, End, CoreInv, RowsInv, TypeOK, FreshInv,
         ReadInv
  <2>3. (RotationInv /\ LockInv /\ BulkInv)'
    BY <1>10, NoneAssumption DEF LogoutRevoke, End, CoreInv, RotationInv, TypeOK,
         LockInv, BulkInv, Held, ReadInv
  <2>4. OneLivePerFamily'
    BY <1>10 DEF LogoutRevoke, CoreInv, OneLivePerFamily, Chain!OneLivePerFamily, Live
  <2> QED
    BY <2>1, <2>2, <2>3, <2>4 DEF CoreInv
<1>11. ASSUME NEW r \in Requests, NEW u \in Users, SuspendCheck(r, u) PROVE CoreInv'
  <2>1. TypeOK'
    BY <1>11 DEF SuspendCheck, database, locks, history, answers, CoreInv, TypeOK, PCs
  <2>2. (RowsInv /\ FreshInv /\ ReadInv)'
    BY <1>11 DEF SuspendCheck, database, CoreInv, RowsInv, TypeOK, FreshInv, ReadInv
  <2>3. (RotationInv /\ LockInv /\ BulkInv)'
    BY <1>11 DEF SuspendCheck, database, locks, CoreInv, RotationInv, LockInv, Bulk,
         BulkInv, Held
  <2>4. OneLivePerFamily'
    BY <1>11 DEF SuspendCheck, database, CoreInv, OneLivePerFamily,
         Chain!OneLivePerFamily, Live
  <2> QED
    BY <2>1, <2>2, <2>3, <2>4 DEF CoreInv
<1>12. ASSUME NEW r \in Requests, SuspendFlag(r) PROVE CoreInv'
  <2>1. TypeOK'
    BY <1>12 DEF SuspendFlag, database, history, answers, CoreInv, TypeOK, PCs
  <2>2. (RowsInv /\ FreshInv /\ ReadInv)'
    BY <1>12 DEF SuspendFlag, database, CoreInv, RowsInv, FreshInv, ReadInv
  <2>3. (RotationInv /\ LockInv /\ BulkInv)'
    BY <1>12, NoneAssumption DEF SuspendFlag, database, CoreInv, RotationInv, TypeOK,
         LockInv, Bulk, BulkInv, Held, ReadInv
  <2>4. OneLivePerFamily'
    BY <1>12 DEF SuspendFlag, database, CoreInv, OneLivePerFamily,
         Chain!OneLivePerFamily, Live
  <2> QED
    BY <2>1, <2>2, <2>3, <2>4 DEF CoreInv
<1>13. ASSUME NEW r \in Requests, RevokeUserBegin(r) PROVE CoreInv'
  <2>1. TypeOK'
    BY <1>13 DEF RevokeUserBegin, database, locks, Aim, UserRows, Live, CoreInv, TypeOK,
         PCs, Bulk, RevocationBegins, answers
  <2>2. (RowsInv /\ FreshInv /\ ReadInv)'
    BY <1>13 DEF RevokeUserBegin, database, CoreInv, RowsInv, FreshInv, ReadInv
  <2>3. (RotationInv /\ LockInv /\ BulkInv)'
    <3>1. Held(r) = {}
      <4>1. \A t \in Tokens : tokenLock[t] # r
        BY <1>13, NoneAssumption DEF RevokeUserBegin, CoreInv, LockInv, Bulk
      <4> QED
        BY <4>1 DEF Held
    <3>2. todo'[r] = UserRows(usr[r]) /\ Held(r)' = {}
      BY <1>13, <3>1 DEF RevokeUserBegin, locks, Aim, Held, CoreInv, TypeOK
    <3>3. (RotationInv /\ LockInv)'
      BY <1>13, NoneAssumption DEF RevokeUserBegin, database, locks, CoreInv, TypeOK,
         RotationInv, LockInv, Bulk
    <3>4. BulkInv'
      BY <1>13, <3>2 DEF RevokeUserBegin, database, locks, Aim, UserRows, Live, Held, CoreInv,
         TypeOK, BulkInv
    <3> QED
      BY <3>3, <3>4
  <2>4. OneLivePerFamily'
    BY <1>13 DEF RevokeUserBegin, database, Live, CoreInv, OneLivePerFamily,
         Chain!OneLivePerFamily
  <2> QED
    BY <2>1, <2>2, <2>3, <2>4 DEF CoreInv
<1>14. ASSUME NEW r \in Requests, SuspendCommit(r) PROVE CoreInv'
  <2>1. TypeOK'
    BY <1>14, NoneAssumption DEF SuspendCommit, history, answers, End, Held, CoreInv,
         TypeOK, PCs, ReadInv, LockInv
  <2>2. (RowsInv /\ FreshInv /\ ReadInv)'
    BY <1>14, NoneAssumption DEF SuspendCommit, End, CoreInv, RowsInv, TypeOK, FreshInv,
         ReadInv
  <2>3. (RotationInv /\ LockInv /\ BulkInv)'
    BY <1>14, NoneAssumption DEF SuspendCommit, End, Held, CoreInv, RotationInv, TypeOK,
         LockInv, BulkInv, ReadInv
  <2>4. OneLivePerFamily'
    BY <1>14 DEF SuspendCommit, CoreInv, OneLivePerFamily, Chain!OneLivePerFamily, Live
  <2> QED
    BY <2>1, <2>2, <2>3, <2>4 DEF CoreInv
<1>15. ASSUME NEW r \in Requests, NEW u \in Users, ReinstateCheck(r, u) PROVE CoreInv'
  <2>1. TypeOK'
    BY <1>15 DEF ReinstateCheck, database, locks, history, answers, CoreInv, TypeOK, PCs
  <2>2. (RowsInv /\ FreshInv /\ ReadInv)'
    BY <1>15 DEF ReinstateCheck, database, CoreInv, RowsInv, TypeOK, FreshInv, ReadInv
  <2>3. (RotationInv /\ LockInv /\ BulkInv)'
    BY <1>15 DEF ReinstateCheck, database, locks, CoreInv, RotationInv, LockInv, Bulk,
         BulkInv, Held
  <2>4. OneLivePerFamily'
    BY <1>15 DEF ReinstateCheck, database, CoreInv, OneLivePerFamily,
         Chain!OneLivePerFamily, Live
  <2> QED
    BY <2>1, <2>2, <2>3, <2>4 DEF CoreInv
<1>16. ASSUME NEW r \in Requests, ReinstateCommit(r) PROVE CoreInv'
  <2>1. TypeOK'
    BY <1>16 DEF ReinstateCommit, history, answers, End, CoreInv, TypeOK, PCs, ReadInv
  <2>2. (RowsInv /\ FreshInv /\ ReadInv)'
    BY <1>16, NoneAssumption DEF ReinstateCommit, End, CoreInv, RowsInv, TypeOK,
         FreshInv, ReadInv
  <2>3. (RotationInv /\ LockInv /\ BulkInv)'
    BY <1>16, NoneAssumption DEF ReinstateCommit, End, CoreInv, RotationInv, TypeOK,
         LockInv, BulkInv, Held, ReadInv
  <2>4. OneLivePerFamily'
    BY <1>16 DEF ReinstateCommit, CoreInv, OneLivePerFamily, Chain!OneLivePerFamily,
         Live
  <2> QED
    BY <2>1, <2>2, <2>3, <2>4 DEF CoreInv
<1>17. ASSUME NEW r \in Requests, Abort(r) PROVE CoreInv'
  <2>1. TypeOK'
    BY <1>17 DEF Abort, database, End, CoreInv, TypeOK, PCs, answers
  <2>2. (RowsInv /\ FreshInv /\ ReadInv)'
    BY <1>17, NoneAssumption DEF Abort, database, End, CoreInv, RowsInv, TypeOK,
         FreshInv, ReadInv
  <2>3. (RotationInv /\ LockInv /\ BulkInv)'
    BY <1>17, NoneAssumption DEF Abort, database, End, CoreInv, RotationInv, TypeOK,
         LockInv, BulkInv, Held, ReadInv
  <2>4. OneLivePerFamily'
    BY <1>17 DEF Abort, database, CoreInv, OneLivePerFamily, Chain!OneLivePerFamily,
         Live
  <2> QED
    BY <2>1, <2>2, <2>3, <2>4 DEF CoreInv
<1>18. ASSUME NEW t \in Tokens, Expire(t) PROVE CoreInv'
  <2>1. TypeOK'
    BY <1>18 DEF Expire, locks, control, history, answers, CoreInv, TypeOK, PCs
  <2>2. (RowsInv /\ FreshInv /\ ReadInv)'
    BY <1>18 DEF Expire, locks, control, CoreInv, RowsInv, FreshInv, ReadInv
  <2>3. (RotationInv /\ LockInv /\ BulkInv)'
    BY <1>18 DEF Expire, locks, control, CoreInv, RotationInv, LockInv, BulkInv, Held, Bulk
  <2>4. OneLivePerFamily'
    BY <1>18 DEF Expire, CoreInv, OneLivePerFamily, Chain!OneLivePerFamily, Live
  <2> QED
    BY <2>1, <2>2, <2>3, <2>4 DEF CoreInv
<1>19. CASE UNCHANGED vars
  <2>1. TypeOK'
    BY <1>19 DEF vars, database, locks, control, history, answers, CoreInv, TypeOK, PCs
  <2>2. (RowsInv /\ FreshInv /\ ReadInv)'
    BY <1>19 DEF vars, database, control, CoreInv, RowsInv, FreshInv, ReadInv
  <2>3. (RotationInv /\ LockInv /\ BulkInv)'
    BY <1>19 DEF vars, database, locks, control, CoreInv, RotationInv, LockInv, BulkInv,
       Held, Bulk
  <2>4. OneLivePerFamily'
    BY <1>19 DEF vars, database, CoreInv, OneLivePerFamily, Chain!OneLivePerFamily, Live
  <2> QED
    BY <2>1, <2>2, <2>3, <2>4 DEF CoreInv
<1> QED
  BY <1>1, <1>2, <1>3, <1>4, <1>5, <1>6, <1>7, <1>8, <1>9, <1>10, <1>11, <1>12, <1>13,
     <1>14, <1>15, <1>16, <1>17, <1>18, <1>19 DEF Next, Arrival, Step, Refused

LEMMA CoreInvariant == Spec => []CoreInv
  BY InitCore, StepCore, PTL DEF Spec

(* AuthService.refresh: two live tokens of one login never exist, whatever   *)
(* refreshes, logouts, suspensions, aborts and deadlocks run concurrently.   *)
THEOREM SessionsOneLivePerFamily == Spec => []OneLivePerFamily
<1>1. CoreInv => OneLivePerFamily
  BY DEF CoreInv
<1> QED
  BY <1>1, CoreInvariant, PTL

-----------------------------------------------------------------------------
\* What a step does to the three tables of the abstract specification.
LEMMA RotateStep ==
    ASSUME CoreInv, NEW r \in Requests, RefreshRotate(r)
    PROVE  Chain!Rotate(tok[r], new[r])
<1>1. tok[r] \in Live /\ new[r] \in Tokens \ rows
  BY DEF CoreInv, TypeOK, RefreshRotate, ReadInv, RotationInv, FreshInv, Live
<1>2. Live' = (Live \ {tok[r]}) \union {new[r]}
  BY <1>1 DEF RefreshRotate, InsertToken, Live, CoreInv, TypeOK
<1> QED
  BY <1>1, <1>2 DEF RefreshRotate, InsertToken, Chain!Rotate

LEMMA OpenStep ==
    ASSUME CoreInv, NEW r \in Requests, LoginIssue(r)
    PROVE  Chain!Open(new[r])
<1>1. new[r] \in Tokens \ rows
  BY DEF CoreInv, LoginIssue, FreshInv
<1>2. Live' = Live \union {new[r]}
  BY <1>1 DEF LoginIssue, InsertToken, Live, CoreInv, TypeOK
<1> QED
  BY <1>1, <1>2 DEF LoginIssue, InsertToken, Chain!Open

LEMMA RetireStep ==
    ASSUME NEW S, revoked' = revoked \union S, UNCHANGED <<rows, family>>
    PROVE  \E R \in SUBSET Live : Chain!Retire(R)
<1>1. S \cap Live \in SUBSET Live
  OBVIOUS
<1>2. Chain!Retire(S \cap Live)
  BY DEF Chain!Retire, Live
<1> QED
  BY <1>1, <1>2

LEMMA ChainStep == CoreInv /\ [Next]_vars => [Chain!ChainNext]_(Chain!chainVars)
<1> SUFFICES ASSUME CoreInv, [Next]_vars PROVE [Chain!ChainNext]_(Chain!chainVars)
  OBVIOUS
<1>1. ASSUME NEW r \in Requests, LoginIssue(r) PROVE Chain!ChainNext
  BY <1>1, OpenStep DEF Chain!ChainNext, Chain!Open
<1>2. ASSUME NEW r \in Requests, RefreshRotate(r) PROVE Chain!ChainNext
  <2>1. tok[r] \in Tokens /\ new[r] \in Tokens
    BY <1>2 DEF CoreInv, TypeOK, RefreshRotate, ReadInv, FreshInv
  <2> QED
    BY <1>2, <2>1, RotateStep DEF Chain!ChainNext
<1>3. ASSUME NEW r \in Requests,
             RevokeFamilyCommit(r) \/ SuspendCommit(r) \/ LogoutRevoke(r)
      PROVE  Chain!ChainNext
  <2>1. \E S : revoked' = revoked \union S /\ UNCHANGED <<rows, family>>
    BY <1>3 DEF RevokeFamilyCommit, SuspendCommit, LogoutRevoke
  <2> QED
    BY <2>1, RetireStep DEF Chain!ChainNext
<1>4. ASSUME NEW r \in Requests,
             \/ RevokeFamilyBegin(r) \/ BulkLock(r) \/ SuspendFlag(r)
             \/ RevokeUserBegin(r) \/ ReinstateCommit(r) \/ Abort(r)
      PROVE  UNCHANGED Chain!chainVars
  BY <1>4 DEF RevokeFamilyBegin, BulkLock, SuspendFlag, RevokeUserBegin, ReinstateCommit,
     Abort, database, Chain!chainVars, Live
<1>5. ASSUME NEW r \in Requests, Arrival(r) PROVE UNCHANGED Chain!chainVars
  BY <1>5 DEF Arrival, Refused, LoginCheck, SuspendCheck, ReinstateCheck, RefreshAccept,
     RefreshReuse, LogoutRead, vars, database, Chain!chainVars, Live
<1>6. ASSUME NEW t \in Tokens, Expire(t) PROVE UNCHANGED Chain!chainVars
  BY <1>6 DEF Expire, Chain!chainVars, Live
<1>7. CASE UNCHANGED vars
  BY <1>7 DEF vars, database, Chain!chainVars, Live
<1> QED
  BY <1>1, <1>2, <1>3, <1>4, <1>5, <1>6, <1>7 DEF Next, Step

(* The transactions and row locks of AuthService and AdminService implement  *)
(* the abstract design, in which sessions are linear chains of tokens.       *)
THEOREM SessionsImplementTokenChains == Spec => ImplementsTokenChains
<1>1. Init => Chain!ChainInit
  BY DEF Init, Chain!ChainInit, Live
<1> QED
  BY <1>1, ChainStep, CoreInvariant, PTL DEF Spec, ImplementsTokenChains, Chain!ChainSpec

(* A family without a live token gets none back: logout, theft detection or  *)
(* suspension is never undone by a rotation that had already started.        *)
THEOREM SessionsDeadFamilyStaysDead == Spec => DeadFamilyStaysDead
<1> DEFINE Stays == \A t \in rows : FamilyRows(family[t]) \subseteq revoked
                                       => FamilyRows(family[t])' \subseteq revoked'
<1>1. CoreInv /\ [Next]_vars => [Stays]_vars
  <2> SUFFICES ASSUME CoreInv, [Next]_vars, NEW t \in rows,
                      FamilyRows(family[t]) \subseteq revoked
               PROVE  FamilyRows(family[t])' \subseteq revoked'
    OBVIOUS
  <2>1. [Chain!ChainNext]_(Chain!chainVars)
    BY ChainStep
  <2>2. revoked \subseteq rows /\ \A s \in rows : family[s] \in rows /\ s \in Tokens
    BY DEF CoreInv, TypeOK, RowsInv
  <2>3. revoked' \subseteq rows' /\ family \in [Tokens -> Tokens \union {None}]
    BY StepCore DEF CoreInv, TypeOK
  <2>4. \A s \in Live : family[s] # family[t]
    BY DEF FamilyRows, Live
  <2>5. ASSUME NEW n \in Tokens, Chain!Open(n) PROVE FamilyRows(family[t])' \subseteq revoked'
    BY <2>2, <2>3, <2>4, <2>5 DEF Chain!Open, FamilyRows, Live
  <2>6. ASSUME NEW s \in Tokens, NEW n \in Tokens, Chain!Rotate(s, n)
        PROVE  FamilyRows(family[t])' \subseteq revoked'
    BY <2>2, <2>3, <2>4, <2>6 DEF Chain!Rotate, FamilyRows, Live
  <2>7. ASSUME NEW S \in SUBSET Live, Chain!Retire(S)
        PROVE  FamilyRows(family[t])' \subseteq revoked'
    BY <2>2, <2>3, <2>4, <2>7 DEF Chain!Retire, FamilyRows, Live
  <2>8. CASE UNCHANGED Chain!chainVars
    BY <2>2, <2>3, <2>4, <2>8 DEF Chain!chainVars, FamilyRows, Live
  <2> QED
    BY <2>1, <2>5, <2>6, <2>7, <2>8 DEF Chain!ChainNext
<1> QED
  BY <1>1, CoreInvariant, PTL DEF Spec, DeadFamilyStaysDead

-----------------------------------------------------------------------------
\* Whoever is waited for while waiting itself, in a deadlock that no reuse
\* detection takes part in, is a suspension that holds its user's row.
LEMMA WaitedFor ==
    ASSUME CoreInv, NEW D \in SUBSET Requests, Deadlocked(D),
           \A r \in D : pc[r] # "revoking_family",
           NEW q \in D, NEW r \in D, WaitsFor(q, r)
    PROVE  pc[r] = "revoking_user"
<1>1. pc[r] \in Bulk \union {"logging_out", "suspending", "reinstating"}
  BY DEF Deadlocked, WaitsFor, Bulk
<1>2. r \in Requests /\ q \in Requests
  OBVIOUS
<1>3. ASSUME NEW t \in Tokens, tokenLock[t] = r PROVE pc[r] = "revoking_user"
  BY <1>1, <1>2, <1>3, NoneAssumption DEF CoreInv, LockInv, Bulk
<1>4. ASSUME NEW u \in Users, userLock[u] = r PROVE pc[r] = "revoking_user"
  BY <1>1, <1>2, <1>4, NoneAssumption DEF CoreInv, LockInv, Bulk
<1>5. pc[q] = "logging_out" => tok[q] \in Tokens
  BY <1>2 DEF CoreInv, ReadInv, TypeOK
<1>6. pc[q] \in {"suspending", "reinstating"} => usr[q] \in Users
  BY <1>2 DEF CoreInv, ReadInv
<1> QED
  BY <1>3, <1>4, <1>5, <1>6 DEF WaitsFor

(* suspend_user locks the users row first, so two suspensions never wait for *)
(* each other's tokens: every deadlock involves a reuse detection.           *)
THEOREM SessionsOnlyReuseDeadlocks == Spec => []OnlyReuseDeadlocks
<1>1. CoreInv => OnlyReuseDeadlocks
  <2> SUFFICES ASSUME CoreInv, NEW D \in SUBSET Requests, Deadlocked(D),
                      \A r \in D : pc[r] # "revoking_family"
               PROVE  FALSE
    BY DEF OnlyReuseDeadlocks
  <2>1. PICK q \in D : TRUE
    BY DEF Deadlocked
  <2>2. PICK r \in D : WaitsFor(q, r)
    BY DEF Deadlocked
  <2>3. PICK s \in D : WaitsFor(r, s)
    BY DEF Deadlocked
  <2>4. pc[r] = "revoking_user" /\ pc[s] = "revoking_user"
    BY <2>2, <2>3, WaitedFor
  <2>5. r # s /\ aim[r] \in Tokens /\ tokenLock[aim[r]] = s
    BY <2>3, <2>4 DEF WaitsFor, Bulk
  <2>6. aim[r] \in todo[r] /\ aim[r] \in Held(s)
    BY <2>5, NoneAssumption DEF CoreInv, BulkInv, Held
  <2>7. tokenUser[aim[r]] = usr[r] /\ tokenUser[aim[r]] = usr[s]
    BY <2>4, <2>6 DEF CoreInv, BulkInv
  <2>8. userLock[usr[r]] = r /\ userLock[usr[s]] = s
    BY <2>4 DEF CoreInv, LockInv
  <2> QED
    BY <2>5, <2>7, <2>8
<1> QED
  BY <1>1, CoreInvariant, PTL

-----------------------------------------------------------------------------
\* What a revocation can still miss, action by action.
LEMMA LoginIssueBeside ==
    ASSUME IInv, NEW r \in Requests, LoginIssue(r)
    PROVE  BesideInv'
<1>1. new[r] \in Tokens \ rows /\ new[r] # None /\ usr[r] \in Users
  BY NoneAssumption DEF LoginIssue, IInv, CoreInv, FreshInv, ReadInv
<1>2. ASSUME NEW s \in Requests, NEW t \in Live', Covers(s, t)'
      PROVE  RanBeside(t)' \/ Reaches(s, t)'
  <2>1. s # r
    BY <1>2 DEF LoginIssue, End, Covers, IInv, CoreInv, TypeOK
  <2>2. CASE t = new[r]
    <3>1. family'[t] = t /\ t \in rows' /\ beside' = beside
      BY <1>1, <2>2 DEF LoginIssue, InsertToken, history, IInv, CoreInv, TypeOK
    <3>2. pc[s] \in Revoking
      BY <1>2, <2>1 DEF Covers, LoginIssue, End, Revoking, Bulk, IInv, CoreInv, TypeOK
    <3>3. t \in beside
      BY <1>1, <2>2, <3>2 DEF IInv, BesideInv
    <3> QED
      BY <3>1, <3>3 DEF RanBeside, FamilyRows
  <2>3. CASE t # new[r]
    <3>1. t \in Live /\ Covers(s, t)
      <4>1. family'[t] = family[t] /\ tokenUser'[t] = tokenUser[t] /\ t \in Live
        BY <2>3 DEF LoginIssue, InsertToken, Live, IInv, CoreInv, TypeOK
      <4>2. pc'[s] = pc[s] /\ tok'[s] = tok[s] /\ usr'[s] = usr[s]
        BY <2>1 DEF LoginIssue, End, IInv, CoreInv, TypeOK
      <4>3. pc[s] \in {"revoking_family", "logging_out"} => family'[tok[s]] = family[tok[s]]
        BY <1>1 DEF LoginIssue, InsertToken, IInv, CoreInv, TypeOK, ReadInv
      <4> QED
        BY <1>2, <4>1, <4>2, <4>3 DEF Covers
    <3>2. RanBeside(t) \/ Reaches(s, t)
      BY <3>1 DEF IInv, BesideInv
    <3>3. RanBeside(t) => RanBeside(t)'
      BY <1>1, <2>3, <3>1 DEF RanBeside, FamilyRows, LoginIssue, InsertToken, history, Live,
         IInv, CoreInv, TypeOK
    <3>4. Reaches(s, t) => Reaches(s, t)'
      BY <2>1, <3>1 DEF Reaches, LoginIssue, End, Held, IInv, CoreInv, TypeOK
    <3> QED
      BY <3>2, <3>3, <3>4
  <2> QED
    BY <2>2, <2>3
<1>3. /\ (reported \union loggedOut \subseteq rows)'
      /\ \A s \in Requests : pc'[s] \in {"reused", "revoking_family"} => tok'[s] \in revoked'
  BY DEF LoginIssue, InsertToken, End, history, answers, IInv, CoreInv, TypeOK, BesideInv
<1>4. \A s \in Requests : new'[s] # None =>
         s # r /\ new[s] = new'[s] /\ pc[s] = pc'[s] /\ usr[s] = usr'[s]
  BY DEF LoginIssue, End, IInv, CoreInv, TypeOK
<1>5. (\E s \in Requests : pc'[s] \in Revoking) => \E s \in Requests : pc[s] \in Revoking
  BY DEF LoginIssue, End, Revoking, Bulk, IInv, CoreInv, TypeOK
<1>6. (\A s \in Requests : new[s] # None =>
          /\ (\E q \in Requests : pc[q] \in Revoking) => new[s] \in beside
          /\ pc[s] = "issuing" /\ ~isActive[usr[s]] => new[s] \in beside)'
  BY <1>4, <1>5 DEF LoginIssue, history, answers, IInv, BesideInv
<1> QED
  BY <1>2, <1>3, <1>6 DEF BesideInv

LEMMA BulkLockBeside ==
    ASSUME IInv, NEW r \in Requests, BulkLock(r)
    PROVE  BesideInv'
<1>1. \A s \in Requests : todo[s] \union Held(s) \subseteq (todo[s] \union Held(s))'
  BY NoneAssumption DEF BulkLock, Aim, Held, IInv, CoreInv, TypeOK
<1>2. \A s \in Requests, t \in Tokens :
         Covers(s, t)' = Covers(s, t) /\ RanBeside(t)' = RanBeside(t)
  BY DEF BulkLock, database, history, answers, Covers, RanBeside, FamilyRows
<1>3. Live' = Live /\ Live \subseteq Tokens
  BY DEF BulkLock, database, Live, IInv, CoreInv, TypeOK
<1>4. ASSUME NEW s \in Requests, NEW t \in Live', Covers(s, t)'
      PROVE  RanBeside(t)' \/ Reaches(s, t)'
  <2>1. t \in Live /\ t \in Tokens /\ Covers(s, t)
    BY <1>2, <1>3, <1>4
  <2>2. RanBeside(t) \/ Reaches(s, t)
    BY <2>1 DEF IInv, BesideInv
  <2>3. Reaches(s, t) => Reaches(s, t)'
    BY <1>1 DEF Reaches, BulkLock
  <2> QED
    BY <1>2, <2>1, <2>2, <2>3
<1> QED
  BY <1>4 DEF BulkLock, database, history, answers, IInv, BesideInv

LEMMA LogoutReadBeside ==
    ASSUME IInv, NEW r \in Requests, NEW t \in Tokens, LogoutRead(r, t)
    PROVE  BesideInv'
<1>1. t \in Live /\ \A s \in Live : family[s] = family[t] => s = t
  BY DEF LogoutRead, IInv, CoreInv, OneLivePerFamily, Chain!OneLivePerFamily
<1>2. /\ pc'[r] = "logging_out" /\ tok'[r] = t
      /\ \A s \in Requests \ {r} : pc'[s] = pc[s] /\ tok'[s] = tok[s]
  BY DEF LogoutRead, IInv, CoreInv, TypeOK
<1>3. /\ UNCHANGED <<Live, rows, revoked, family, tokenUser, isActive, reported, loggedOut>>
      /\ UNCHANGED <<new, usr, todo, tokenLock>>
      /\ beside \subseteq beside' /\ \A s \in Requests : new[s] # None => new[s] \in beside'
  BY DEF LogoutRead, RevocationBegins, database, locks, answers, Live
<1>4. ASSUME NEW s \in Requests, NEW u \in Live', Covers(s, u)'
      PROVE RanBeside(u)' \/ Reaches(s, u)'
  <2>1. CASE s = r
    BY <1>1, <1>2, <1>3, <1>4, <2>1 DEF Covers, Reaches
  <2>2. CASE s # r
    <3>1. Covers(s, u)
      BY <1>2, <1>3, <1>4, <2>2 DEF Covers
    <3>2. RanBeside(u) \/ Reaches(s, u)
      BY <1>3, <3>1 DEF IInv, BesideInv
    <3> QED
      BY <1>2, <1>3, <2>2, <3>2 DEF RanBeside, FamilyRows, Reaches, Held
  <2> QED
    BY <2>1, <2>2
<1> QED
  BY <1>2, <1>3, <1>4 DEF IInv, BesideInv

LEMMA StepBeside == IInv /\ [Next]_vars => BesideInv'
<1> SUFFICES ASSUME IInv, [Next]_vars PROVE BesideInv'
  OBVIOUS
<1>1. ASSUME NEW r \in Requests, NEW u \in Users, LoginCheck(r, u) PROVE BesideInv'
  BY <1>1 DEF LoginCheck, database, locks, answers, Draw, IInv, CoreInv, Reaches,
       BesideInv, RanBeside, Covers, FamilyRows, Live, Held, Revoking, Bulk, TypeOK
<1>2. ASSUME NEW r \in Requests, LoginIssue(r) PROVE BesideInv'
  BY <1>2, LoginIssueBeside
<1>3. ASSUME NEW r \in Requests, NEW t \in Tokens, RefreshAccept(r, t) PROVE BesideInv'
  BY <1>3, NoneAssumption DEF RefreshAccept, database, ReadForUpdate, answers, Draw,
       IInv, Reaches, BesideInv, RanBeside, Covers, FamilyRows, Live, Held, Revoking,
       Bulk
<1>4. ASSUME NEW r \in Requests, RefreshRotate(r) PROVE BesideInv'
  BY <1>4, NoneAssumption DEF RefreshRotate, history, End, InsertToken, answers, IInv,
       CoreInv, Reaches, BesideInv, RanBeside, Covers, FamilyRows, Live, Held, Revoking,
       Bulk, FreshInv, ReadInv, RotationInv
<1>5. ASSUME NEW r \in Requests, NEW t \in Tokens, RefreshReuse(r, t) PROVE BesideInv'
  BY <1>5 DEF RefreshReuse, database, history, ReadForUpdate, answers, IInv, CoreInv,
       Reaches, BesideInv, RanBeside, Covers, FamilyRows, Live, Held, Revoking, Bulk,
       TypeOK
<1>6. ASSUME NEW r \in Requests, RevokeFamilyBegin(r) PROVE BesideInv'
  BY <1>6 DEF RevokeFamilyBegin, database, locks, Aim, FamilyRows, answers,
       RevocationBegins, IInv, CoreInv, Reaches, BesideInv, RanBeside, Covers, Live,
       Held, Bulk, TypeOK
<1>7. ASSUME NEW r \in Requests, BulkLock(r) PROVE BesideInv'
  BY <1>7, BulkLockBeside
<1>8. ASSUME NEW r \in Requests, RevokeFamilyCommit(r) PROVE BesideInv'
  BY <1>8 DEF RevokeFamilyCommit, End, Held, IInv, CoreInv, Reaches, BesideInv,
       RanBeside, Covers, FamilyRows, Live, Revoking, Bulk, TypeOK, RowsInv
<1>9. ASSUME NEW r \in Requests, NEW t \in Tokens, LogoutRead(r, t) PROVE BesideInv'
  BY <1>9, LogoutReadBeside
<1>10. ASSUME NEW r \in Requests, LogoutRevoke(r) PROVE BesideInv'
  BY <1>10 DEF LogoutRevoke, End, IInv, CoreInv, Reaches, BesideInv, RanBeside, Covers,
       FamilyRows, Live, Held, Revoking, TypeOK, RowsInv, ReadInv
<1>11. ASSUME NEW r \in Requests, NEW u \in Users, SuspendCheck(r, u) PROVE BesideInv'
  BY <1>11 DEF SuspendCheck, database, locks, history, answers, IInv, Reaches,
       BesideInv, RanBeside, Covers, FamilyRows, Live, Held, Revoking, Bulk
<1>12. ASSUME NEW r \in Requests, SuspendFlag(r) PROVE BesideInv'
  BY <1>12 DEF SuspendFlag, database, history, answers, IInv, Reaches, BesideInv,
       RanBeside, Covers, FamilyRows, Live, Held, Revoking, Bulk
<1>13. ASSUME NEW r \in Requests, RevokeUserBegin(r) PROVE BesideInv'
  BY <1>13 DEF RevokeUserBegin, database, locks, Aim, UserRows, Live, answers,
       RevocationBegins, IInv, CoreInv, Reaches, BesideInv, RanBeside, Covers,
       FamilyRows, Held, Bulk, TypeOK
<1>14. ASSUME NEW r \in Requests, SuspendCommit(r) PROVE BesideInv'
  BY <1>14 DEF SuspendCommit, history, End, Held, answers, IInv, CoreInv, Reaches,
       BesideInv, RanBeside, Covers, FamilyRows, Live, Revoking, Bulk, TypeOK
<1>15. ASSUME NEW r \in Requests, NEW u \in Users, ReinstateCheck(r, u) PROVE BesideInv'
  BY <1>15 DEF ReinstateCheck, database, locks, history, answers, IInv, Reaches,
       BesideInv, RanBeside, Covers, FamilyRows, Live, Held, Revoking, Bulk
<1>16. ASSUME NEW r \in Requests, ReinstateCommit(r) PROVE BesideInv'
  BY <1>16 DEF ReinstateCommit, history, End, answers, IInv, Reaches, BesideInv,
       RanBeside, Covers, FamilyRows, Live, Held, Revoking, Bulk
<1>17. ASSUME NEW r \in Requests, Abort(r) PROVE BesideInv'
  BY <1>17 DEF Abort, database, End, answers, IInv, CoreInv, Reaches, BesideInv,
       RanBeside, Covers, FamilyRows, Live, Held, Revoking, Bulk, TypeOK, FreshInv
<1>18. ASSUME NEW t \in Tokens, Expire(t) PROVE BesideInv'
  BY <1>18 DEF Expire, locks, control, history, answers, IInv, BesideInv, Covers, Reaches,
     RanBeside, FamilyRows, Live, Held, Revoking, Bulk
<1>19. CASE UNCHANGED vars
  BY <1>19 DEF vars, database, locks, control, history, answers, IInv, BesideInv, Covers,
     Reaches, RanBeside, FamilyRows, Live, Held, Revoking, Bulk
<1> QED
  BY <1>1, <1>2, <1>3, <1>4, <1>5, <1>6, <1>7, <1>8, <1>9, <1>10, <1>11, <1>12, <1>13,
     <1>14, <1>15, <1>16, <1>17, <1>18, <1>19 DEF Next, Arrival, Step, Refused

\* What the end of a revocation leaves behind.
LEMMA LogoutOverlap ==
    ASSUME IInv, NEW r \in Requests, LogoutRevoke(r)
    PROVE  OnlyOverlapSurvives'
<1> SUFFICES ASSUME NEW t \in Live', Ended(t)' PROVE RanBeside(t)'
  BY DEF OnlyOverlapSurvives
<1>1. t \in Live /\ t # tok[r] /\ RanBeside(t)' = RanBeside(t)
  BY DEF LogoutRevoke, Live, RanBeside, FamilyRows
<1>2. CASE family[t] = family[tok[r]]
  <2>1. Covers(r, t) /\ pc[r] = "logging_out"
    BY <1>2 DEF LogoutRevoke, Covers
  <2> QED
    BY <1>1, <2>1 DEF Reaches, Bulk, IInv, BesideInv
<1>3. CASE family[t] # family[tok[r]]
  BY <1>1, <1>3 DEF LogoutRevoke, Ended, IInv, OnlyOverlapSurvives
<1> QED
  BY <1>2, <1>3

LEMMA ReuseOverlap ==
    ASSUME IInv, NEW r \in Requests, RevokeFamilyCommit(r)
    PROVE  OnlyOverlapSurvives'
<1> SUFFICES ASSUME NEW t \in Live', Ended(t)' PROVE RanBeside(t)'
  BY DEF OnlyOverlapSurvives
<1>1. t \in Live /\ t \notin todo[r] \union Held(r) /\ RanBeside(t)' = RanBeside(t)
  BY DEF RevokeFamilyCommit, Live, RanBeside, FamilyRows
<1>2. CASE family[t] = family[tok[r]]
  <2>1. Covers(r, t) /\ pc[r] = "revoking_family"
    BY <1>2 DEF RevokeFamilyCommit, Covers
  <2> QED
    BY <1>1, <2>1 DEF Reaches, IInv, BesideInv
<1>3. CASE family[t] # family[tok[r]]
  BY <1>1, <1>3 DEF RevokeFamilyCommit, Ended, IInv, OnlyOverlapSurvives
<1> QED
  BY <1>2, <1>3

LEMMA SuspendOverlap ==
    ASSUME IInv, NEW r \in Requests, SuspendCommit(r)
    PROVE  OnlyOverlapSurvives'
<1> SUFFICES ASSUME NEW t \in Live', Ended(t)' PROVE RanBeside(t)'
  BY DEF OnlyOverlapSurvives
<1>1. t \in Live /\ t \notin todo[r] \union Held(r) /\ RanBeside(t)' = RanBeside(t)
  BY DEF SuspendCommit, history, Live, RanBeside, FamilyRows
<1>2. CASE tokenUser[t] = usr[r]
  <2>1. Covers(r, t) /\ pc[r] = "revoking_user"
    BY <1>2 DEF SuspendCommit, Covers
  <2> QED
    BY <1>1, <2>1 DEF Reaches, IInv, BesideInv
<1>3. CASE tokenUser[t] # usr[r]
  <2>1. tokenUser[t] \in Users
    BY <1>1 DEF IInv, CoreInv, RowsInv, Live
  <2> QED
    BY <1>1, <1>3, <2>1 DEF SuspendCommit, history, answers, Ended, IInv, CoreInv, TypeOK,
       OnlyOverlapSurvives
<1> QED
  BY <1>2, <1>3

\* A step that stores, revokes and answers nothing.
LEMMA QuietOverlap ==
    ASSUME OnlyOverlapSurvives, beside \subseteq beside',
           UNCHANGED <<rows, tokenUser, family, revoked, isActive, answers>>
    PROVE  OnlyOverlapSurvives'
  BY DEF OnlyOverlapSurvives, Ended, RanBeside, FamilyRows, Live, answers

\* A successor inherits whatever put its family out of reach of a revocation.
LEMMA RotateOverlap ==
    ASSUME IInv, NEW r \in Requests, RefreshRotate(r)
    PROVE  OnlyOverlapSurvives'
<1> SUFFICES ASSUME NEW t \in Live', Ended(t)' PROVE RanBeside(t)'
  BY DEF OnlyOverlapSurvives
<1>1. /\ tok[r] \in Live /\ new[r] \in Tokens \ rows
      /\ rows' = rows \union {new[r]} /\ beside' = beside
  BY DEF RefreshRotate, InsertToken, history, IInv, CoreInv, TypeOK, ReadInv, RotationInv,
     FreshInv, Live
<1>2. \A s \in rows : family'[s] = family[s] /\ tokenUser'[s] = tokenUser[s]
  BY <1>1 DEF RefreshRotate, InsertToken, IInv, CoreInv, TypeOK
<1>3. PICK s \in Live : family'[t] = family[s] /\ Ended(s)
  <2>1. CASE t = new[r]
    <3>1. family'[t] = family[tok[r]] /\ tokenUser'[t] = tokenUser[tok[r]]
      BY <1>1, <2>1 DEF RefreshRotate, InsertToken, IInv, CoreInv, TypeOK
    <3> QED
      BY <1>1, <3>1 DEF RefreshRotate, history, answers, Ended
  <2>2. CASE t # new[r]
    <3>1. t \in Live /\ t \in rows
      BY <1>1, <2>2 DEF RefreshRotate, Live
    <3> QED
      BY <1>2, <3>1 DEF RefreshRotate, history, answers, Ended
  <2> QED
    BY <2>1, <2>2
<1>4. RanBeside(s)
  BY <1>3 DEF IInv, OnlyOverlapSurvives
<1>5. FamilyRows(family[s]) \subseteq {q \in rows' : family'[q] = family'[t]}
  BY <1>1, <1>2, <1>3 DEF FamilyRows
<1> QED
  BY <1>1, <1>4, <1>5 DEF RanBeside, FamilyRows

LEMMA StepOverlap == IInv /\ [Next]_vars => OnlyOverlapSurvives'
<1> SUFFICES ASSUME IInv, [Next]_vars PROVE OnlyOverlapSurvives'
  OBVIOUS
<1>1. ASSUME NEW r \in Requests,
             \/ Arrival(r) \/ RevokeFamilyBegin(r) \/ BulkLock(r) \/ SuspendFlag(r)
             \/ RevokeUserBegin(r)
      PROVE  OnlyOverlapSurvives'
  BY <1>1, QuietOverlap DEF Arrival, Refused, LoginCheck, SuspendCheck, ReinstateCheck,
     RefreshAccept, RefreshReuse, LogoutRead, RevokeFamilyBegin, BulkLock, SuspendFlag,
     RevokeUserBegin, Draw, RevocationBegins, vars, database, history, answers, IInv
<1>2. ASSUME NEW r \in Requests, LoginIssue(r) PROVE OnlyOverlapSurvives'
  BY <1>2, NoneAssumption DEF LoginIssue, history, InsertToken, answers, IInv, CoreInv,
       BesideInv, OnlyOverlapSurvives, RanBeside, Ended, FamilyRows, Live, TypeOK,
       RowsInv, FreshInv
<1>3. ASSUME NEW r \in Requests, RefreshRotate(r) PROVE OnlyOverlapSurvives'
  BY <1>3, RotateOverlap
<1>4. ASSUME NEW r \in Requests, ReinstateCommit(r) PROVE OnlyOverlapSurvives'
  BY <1>4 DEF ReinstateCommit, history, answers, IInv, OnlyOverlapSurvives, RanBeside,
       Ended, FamilyRows, Live
<1>5. ASSUME NEW r \in Requests, Abort(r) PROVE OnlyOverlapSurvives'
  BY <1>5 DEF Abort, database, answers, IInv, CoreInv, OnlyOverlapSurvives, RanBeside,
       Ended, FamilyRows, Live, FreshInv
<1>6. ASSUME NEW r \in Requests, LogoutRevoke(r) PROVE OnlyOverlapSurvives'
  BY <1>6, LogoutOverlap
<1>7. ASSUME NEW r \in Requests, RevokeFamilyCommit(r) PROVE OnlyOverlapSurvives'
  BY <1>7, ReuseOverlap
<1>8. ASSUME NEW r \in Requests, SuspendCommit(r) PROVE OnlyOverlapSurvives'
  BY <1>8, SuspendOverlap
<1>9. ASSUME NEW t \in Tokens, Expire(t) PROVE OnlyOverlapSurvives'
  BY <1>9, QuietOverlap DEF Expire, history, IInv
<1>10. CASE UNCHANGED vars
  BY <1>10, QuietOverlap DEF vars, database, history, IInv
<1> QED
  BY <1>1, <1>2, <1>3, <1>4, <1>5, <1>6, <1>7, <1>8, <1>9, <1>10 DEF Next, Step

(* The whole argument is invariant, however many requests run at once.       *)
THEOREM SessionsInvariant == Spec => []IInv
<1>1. Init => IInv
  BY InitCore DEF Init, IInv, BesideInv, OnlyOverlapSurvives, Live
<1>2. IInv /\ [Next]_vars => IInv'
  BY StepCore, StepBeside, StepOverlap DEF IInv
<1> QED
  BY <1>1, <1>2, PTL DEF Spec

(* suspend_user, revoke_family and logout: whatever stays alive after one of *)
(* them belongs to a session that a concurrent login or refresh extended.    *)
THEOREM SessionsOnlyOverlapSurvives == Spec => []OnlyOverlapSurvives
<1>1. IInv => OnlyOverlapSurvives
  BY DEF IInv
<1> QED
  BY <1>1, SessionsInvariant, PTL

(* SEC-025 fails for that reason only: where no request that draws a token   *)
(* runs beside suspend_user (nor beside another revocation), a suspended     *)
(* user has no live token.                                                   *)
THEOREM SessionsSuspensionCutsUnlessOverlapped ==
  Spec => [](beside = {} => SuspensionCutsSessions)
<1>1. OnlyOverlapSurvives => (beside = {} => SuspensionCutsSessions)
  BY DEF OnlyOverlapSurvives, Ended, RanBeside, SuspensionCutsSessions
<1> QED
  BY <1>1, SessionsOnlyOverlapSurvives, PTL

-----------------------------------------------------------------------------
(* The audit trail of suspensions, where the unlocked checks do not overlap.  *)

Suspension == {"suspending", "flagged", "revoking_user"}

Deciding(s) == pc[s] \in Suspension \union {"reinstating"}

\* No other suspension or reinstatement of the account has been decided on and is yet to
\* be committed.
AdminsApart ==
    [][\A r, s \in Requests :
          (SuspendCommit(r) \/ ReinstateCommit(r)) /\ s # r /\ Deciding(s) => usr[s] # usr[r]]_vars

\* A trail that begins with a suspension and has no two rows of a kind in succession.
Alternates(q) ==
    /\ Len(q) > 0 => q[1] = "suspend_user"
    /\ \A i \in 1 .. Len(q) - 1 : q[i] # q[i + 1]

AuditAlternates == \A u \in Users : Alternates(audit[u])

\* is_active says what the last row of the trail did.
EndsActive(q) == Len(q) = 0 \/ q[Len(q)] = "reinstate_user"

LastRowInv == \A u \in Users : isActive[u] <=> EndsActive(audit[u])

\* What the check of a request under way has found is still so.
StillInv ==
    \A r \in Requests :
        /\ pc[r] \in Suspension => isActive[usr[r]]
        /\ pc[r] = "reinstating" => ~isActive[usr[r]]

\* The flag and the trail are written together, by the two commits.
LEMMA FlagWrites ==
  ASSUME CoreInv, [Next]_vars
  PROVE  \/ UNCHANGED <<isActive, audit>>
         \/ \E r \in Requests :
               /\ SuspendCommit(r) /\ pc[r] = "revoking_user" /\ usr[r] \in Users
               /\ isActive' = [isActive EXCEPT ![usr[r]] = FALSE]
               /\ audit' = [audit EXCEPT ![usr[r]] = Append(@, "suspend_user")]
         \/ \E r \in Requests :
               /\ ReinstateCommit(r) /\ pc[r] = "reinstating" /\ usr[r] \in Users
               /\ isActive' = [isActive EXCEPT ![usr[r]] = TRUE]
               /\ audit' = [audit EXCEPT ![usr[r]] = Append(@, "reinstate_user")]
<1>1. ASSUME NEW r \in Requests, SuspendCommit(r) \/ ReinstateCommit(r) PROVE usr[r] \in Users
  BY <1>1 DEF SuspendCommit, ReinstateCommit, CoreInv, ReadInv
<1>2. ASSUME NEW r \in Requests, Arrival(r) PROVE UNCHANGED <<isActive, audit>>
  BY <1>2 DEF Arrival, Refused, LoginCheck, SuspendCheck, ReinstateCheck, RefreshAccept,
     RefreshReuse, LogoutRead, vars, database
<1>3. ASSUME NEW r \in Requests, Step(r), ~SuspendCommit(r), ~ReinstateCommit(r)
      PROVE  UNCHANGED <<isActive, audit>>
  BY <1>3 DEF Step, LoginIssue, RefreshRotate, RevokeFamilyBegin, BulkLock,
     RevokeFamilyCommit, LogoutRevoke, SuspendFlag, RevokeUserBegin, database
<1>4. ASSUME NEW r \in Requests, Abort(r) PROVE UNCHANGED <<isActive, audit>>
  BY <1>4 DEF Abort, database
<1>5. ASSUME NEW t \in Tokens, Expire(t) PROVE UNCHANGED <<isActive, audit>>
  BY <1>5 DEF Expire
<1>6. CASE UNCHANGED vars
  BY <1>6 DEF vars, database
<1> QED
  BY <1>1, <1>2, <1>3, <1>4, <1>5, <1>6 DEF Next, SuspendCommit, ReinstateCommit

\* Requests reach the commit by a check of the flag as it is.
LEMMA Checks ==
  ASSUME CoreInv, [Next]_vars, NEW s \in Requests
  PROVE  /\ pc'[s] \in Suspension =>
              \/ pc[s] \in Suspension /\ usr'[s] = usr[s]
              \/ isActive[usr'[s]] /\ isActive' = isActive
         /\ pc'[s] = "reinstating" =>
              \/ pc[s] = "reinstating" /\ usr'[s] = usr[s]
              \/ ~isActive[usr'[s]] /\ isActive' = isActive
<1> DEFINE Checked ==
      /\ pc'[s] \in Suspension =>
           \/ pc[s] \in Suspension /\ usr'[s] = usr[s]
           \/ isActive[usr'[s]] /\ isActive' = isActive
      /\ pc'[s] = "reinstating" =>
           \/ pc[s] = "reinstating" /\ usr'[s] = usr[s]
           \/ ~isActive[usr'[s]] /\ isActive' = isActive
<1> USE DEF Suspension
<1>1. ASSUME NEW r \in Requests, NEW u \in Users,
             LoginCheck(r, u) \/ SuspendCheck(r, u) \/ ReinstateCheck(r, u)
      PROVE  Checked
  BY <1>1 DEF LoginCheck, SuspendCheck, ReinstateCheck, database, CoreInv, TypeOK
<1>2. ASSUME NEW r \in Requests, NEW t \in Tokens,
             RefreshAccept(r, t) \/ RefreshReuse(r, t) \/ LogoutRead(r, t)
      PROVE  Checked
  BY <1>2 DEF RefreshAccept, RefreshReuse, LogoutRead, database, CoreInv, TypeOK
<1>3. ASSUME NEW r \in Requests,
             RevokeFamilyBegin(r) \/ BulkLock(r) \/ SuspendFlag(r) \/ RevokeUserBegin(r)
      PROVE  Checked
  BY <1>3 DEF RevokeFamilyBegin, BulkLock, SuspendFlag, RevokeUserBegin, CoreInv, TypeOK
<1>4. ASSUME NEW r \in Requests, End(r) PROVE Checked
  BY <1>4 DEF End, CoreInv, TypeOK
<1>5. CASE UNCHANGED <<pc, usr>>
  BY <1>5
<1> QED
  BY <1>1, <1>2, <1>3, <1>4, <1>5
     DEF Next, Arrival, Step, Refused, LoginIssue, RefreshRotate, RevokeFamilyCommit,
         LogoutRevoke, SuspendCommit, ReinstateCommit, Abort, Expire, vars, control

\* What one more row does to a trail.
LEMMA OneMoreRow ==
  ASSUME NEW q \in Seq({"suspend_user", "reinstate_user"}),
         NEW a \in {"suspend_user", "reinstate_user"}
  PROVE  /\ EndsActive(Append(q, a)) <=> a = "reinstate_user"
         /\ Alternates(q) /\ (EndsActive(q) <=> a = "suspend_user") => Alternates(Append(q, a))
<1> DEFINE n == Len(q)
<1>1. n \in Nat /\ Len(Append(q, a)) = n + 1 /\ Append(q, a)[n + 1] = a
  OBVIOUS
<1>2. \A i \in 1 .. n : Append(q, a)[i] = q[i]
  OBVIOUS
<1>3. EndsActive(Append(q, a)) <=> a = "reinstate_user"
  BY <1>1 DEF EndsActive
<1>4. ASSUME Alternates(q), EndsActive(q) <=> a = "suspend_user" PROVE Alternates(Append(q, a))
  <2>1. n = 0 => a = "suspend_user"
    BY <1>4 DEF EndsActive
  <2>2. n > 0 => q[n] # a /\ q[1] = "suspend_user"
    <3>1. ASSUME n > 0 PROVE q[n] \in {"suspend_user", "reinstate_user"}
      BY <1>1, <3>1
    <3> QED
      BY <1>1, <1>4, <3>1 DEF EndsActive, Alternates
  <2>3. \A i \in 1 .. n - 1 : q[i] # q[i + 1]
    BY <1>4 DEF Alternates
  <2> HIDE DEF n
  <2>4. ASSUME NEW i \in 1 .. n PROVE Append(q, a)[i] # Append(q, a)[i + 1]
    <3>1. CASE i = n
      BY <1>1, <1>2, <2>2, <3>1
    <3>2. CASE i # n
      <4>1. i \in 1 .. n - 1 /\ i + 1 \in 1 .. n
        BY <1>1, <3>2
      <4> QED
        BY <1>2, <2>3, <4>1
    <3> QED
      BY <3>1, <3>2
  <2>5. Append(q, a)[1] = "suspend_user"
    <3>1. CASE n = 0
      BY <1>1, <2>1, <3>1
    <3>2. CASE n > 0
      <4>1. 1 \in 1 .. n
        BY <1>1, <3>2
      <4> QED
        BY <1>2, <2>2, <3>2, <4>1
    <3> QED
      BY <1>1, <3>1, <3>2
  <2>6. Len(Append(q, a)) - 1 = n
    BY <1>1
  <2> QED
    BY <2>4, <2>5, <2>6 DEF Alternates
<1> QED
  BY <1>3, <1>4

\* The flag and the last row of the trail change together.
LEMMA LastRowStep ==
  ASSUME CoreInv, LastRowInv, [Next]_vars
  PROVE  LastRowInv'
<1>1. \A u \in Users : audit[u] \in Seq({"suspend_user", "reinstate_user"})
  BY DEF CoreInv, TypeOK
<1>2. CASE UNCHANGED <<isActive, audit>>
  BY <1>2 DEF LastRowInv
<1>3. ASSUME NEW u \in Users, NEW f \in BOOLEAN, NEW a \in {"suspend_user", "reinstate_user"},
             f <=> a = "reinstate_user",
             isActive' = [isActive EXCEPT ![u] = f], audit' = [audit EXCEPT ![u] = Append(@, a)]
      PROVE  LastRowInv'
  <2>1. /\ audit'[u] = Append(audit[u], a) /\ isActive'[u] = f
        /\ \A v \in Users \ {u} : audit'[v] = audit[v] /\ isActive'[v] = isActive[v]
    BY <1>3 DEF CoreInv, TypeOK
  <2>2. EndsActive(audit'[u]) <=> a = "reinstate_user"
    BY <1>1, <2>1, OneMoreRow
  <2> QED
    BY <1>3, <2>1, <2>2 DEF LastRowInv
<1> QED
  BY <1>2, <1>3, FlagWrites

\* Without overlap, a commit finds the flag that its check found: one case for each commit.
LEMMA TrailStep ==
  ASSUME CoreInv, AuditAlternates, LastRowInv, StillInv, [Next]_vars,
         [\A r, s \in Requests :
             (SuspendCommit(r) \/ ReinstateCommit(r)) /\ s # r /\ Deciding(s) => usr[s] # usr[r]]_vars
  PROVE  AuditAlternates' /\ StillInv'
<1>1. \A u \in Users : audit[u] \in Seq({"suspend_user", "reinstate_user"}) /\ isActive[u] \in BOOLEAN
  BY DEF CoreInv, TypeOK
<1>2. CASE UNCHANGED <<isActive, audit>>
  BY <1>2, Checks DEF AuditAlternates, StillInv
<1>3. ASSUME NEW r \in Requests, SuspendCommit(r), pc[r] = "revoking_user", usr[r] \in Users,
             isActive' = [isActive EXCEPT ![usr[r]] = FALSE],
             audit' = [audit EXCEPT ![usr[r]] = Append(@, "suspend_user")]
      PROVE  AuditAlternates' /\ StillInv'
  <2> DEFINE u == usr[r]
  <2>1. pc'[r] = "idle" /\ pc' # pc
    BY <1>3 DEF SuspendCommit, End, CoreInv, TypeOK
  <2>2. \A s \in Requests \ {r} : Deciding(s) => usr[s] # u
    BY <1>3, <2>1 DEF vars, control
  <2>3. /\ audit'[u] = Append(audit[u], "suspend_user") /\ isActive'[u] = FALSE
        /\ \A v \in Users \ {u} : audit'[v] = audit[v] /\ isActive'[v] = isActive[v]
    BY <1>3 DEF CoreInv, TypeOK
  <2>4. isActive[u]
    BY <1>1, <1>3 DEF StillInv, Suspension
  <2>5. Alternates(audit'[u])
    <3>1. audit[u] \in Seq({"suspend_user", "reinstate_user"})
      BY <1>1, <1>3
    <3>2. Alternates(audit[u]) /\ (EndsActive(audit[u]) <=> isActive[u])
      BY <1>3 DEF AuditAlternates, LastRowInv
    <3> QED
      BY <2>3, <2>4, <3>1, <3>2, OneMoreRow
  <2>6. AuditAlternates'
    BY <1>3, <2>3, <2>5 DEF AuditAlternates
  <2>7. StillInv'
    <3> SUFFICES ASSUME NEW s \in Requests
                 PROVE  /\ pc'[s] \in Suspension => isActive'[usr'[s]]
                        /\ pc'[s] = "reinstating" => ~isActive'[usr'[s]]
      BY DEF StillInv
    <3>1. ASSUME s # r, Deciding(s) PROVE isActive'[usr[s]] = isActive[usr[s]]
      BY <2>2, <2>3, <3>1 DEF Deciding, Suspension, CoreInv, ReadInv
    <3> QED
      BY <2>1, <3>1, Checks DEF StillInv, Deciding, Suspension
  <2> QED
    BY <2>6, <2>7
<1>4. ASSUME NEW r \in Requests, ReinstateCommit(r), pc[r] = "reinstating", usr[r] \in Users,
             isActive' = [isActive EXCEPT ![usr[r]] = TRUE],
             audit' = [audit EXCEPT ![usr[r]] = Append(@, "reinstate_user")]
      PROVE  AuditAlternates' /\ StillInv'
  <2> DEFINE u == usr[r]
  <2>1. pc'[r] = "idle" /\ pc' # pc
    BY <1>4 DEF ReinstateCommit, End, CoreInv, TypeOK
  <2>2. \A s \in Requests \ {r} : Deciding(s) => usr[s] # u
    BY <1>4, <2>1 DEF vars, control
  <2>3. /\ audit'[u] = Append(audit[u], "reinstate_user") /\ isActive'[u] = TRUE
        /\ \A v \in Users \ {u} : audit'[v] = audit[v] /\ isActive'[v] = isActive[v]
    BY <1>4 DEF CoreInv, TypeOK
  <2>4. ~isActive[u]
    BY <1>1, <1>4 DEF StillInv, Suspension
  <2>5. Alternates(audit'[u])
    <3>1. audit[u] \in Seq({"suspend_user", "reinstate_user"})
      BY <1>1, <1>4
    <3>2. Alternates(audit[u]) /\ (EndsActive(audit[u]) <=> isActive[u])
      BY <1>4 DEF AuditAlternates, LastRowInv
    <3> QED
      BY <2>3, <2>4, <3>1, <3>2, OneMoreRow
  <2>6. AuditAlternates'
    BY <1>4, <2>3, <2>5 DEF AuditAlternates
  <2>7. StillInv'
    <3> SUFFICES ASSUME NEW s \in Requests
                 PROVE  /\ pc'[s] \in Suspension => isActive'[usr'[s]]
                        /\ pc'[s] = "reinstating" => ~isActive'[usr'[s]]
      BY DEF StillInv
    <3>1. ASSUME s # r, Deciding(s) PROVE isActive'[usr[s]] = isActive[usr[s]]
      BY <2>2, <2>3, <3>1 DEF Deciding, Suspension, CoreInv, ReadInv
    <3> QED
      BY <2>1, <3>1, Checks DEF StillInv, Deciding, Suspension
  <2> QED
    BY <2>6, <2>7
<1> QED
  BY <1>2, <1>3, <1>4, FlagWrites

\* Where no two of them overlap on one account, suspensions and reinstatements alternate
\* in its audit trail, one row each (UC-6: both raise a conflict when there is nothing to
\* do; the check reads is_active without a lock).
THEOREM SessionsAuditAlternates == Spec /\ AdminsApart => []AuditAlternates
<1>1. Init => AuditAlternates /\ LastRowInv /\ StillInv
  BY DEF Init, AuditAlternates, Alternates, LastRowInv, EndsActive, StillInv, Suspension
<1>2. IInv => CoreInv
  BY DEF IInv
<1> QED
  BY <1>1, <1>2, TrailStep, LastRowStep, SessionsInvariant, PTL DEF Spec, AdminsApart

\* Without overlap or with it, the last row of the trail tells what is_active is: both are
\* written in one transaction, under the lock of the users row.
THEOREM SessionsLastAuditRowIsTheFlag == Spec => []LastRowInv
<1>1. Init => LastRowInv
  BY DEF Init, LastRowInv, EndsActive
<1>2. IInv => CoreInv
  BY DEF IInv
<1> QED
  BY <1>1, <1>2, LastRowStep, SessionsInvariant, PTL DEF Spec
=============================================================================
