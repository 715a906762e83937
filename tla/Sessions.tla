------------------------------ MODULE Sessions ------------------------------
(***************************************************************************)
(* Refresh-token sessions: AuthService's login, refresh and logout, and the *)
(* suspension and reinstatement that AdminService runs against the same     *)
(* tables, as concurrent requests over one PostgreSQL database.             *)
(*                                                                          *)
(* A request is a process with a program counter and one transaction        *)
(* (core/db.py: get_db).  No isolation level is configured, so transactions *)
(* are READ COMMITTED: a statement sees what was committed when it began, a *)
(* row written or selected FOR UPDATE stays locked until the end of the     *)
(* transaction, and a bulk UPDATE that waited for a row updates the newest  *)
(* version of it but never visits a row inserted after the statement began. *)
(* A step of the model is one statement together with the Python up to the  *)
(* next one; a transaction's last write and its commit are one step, since  *)
(* nothing another request does can come between them and be observed.      *)
(***************************************************************************)
EXTENDS Naturals, Sequences, FiniteSets

CONSTANTS
    Requests,   \* requests in flight at a time (threadpool workers)
    Users,      \* ordinary accounts (role USER) that exist
    Tokens,     \* the refresh tokens that can be generated: bounds the model
    None,       \* no token, no user, no lock holder
    MaxAudit    \* audit rows about one user before no new suspension starts

ASSUME NoneAssumption == None \notin Tokens \union Users \union Requests
ASSUME MaxAuditAssumption == MaxAudit \in Nat

VARIABLES
    (* Committed database state. *)
    rows,       \* refresh_tokens: the tokens that have a row
    tokenUser,  \* refresh_tokens.user_id
    family,     \* refresh_tokens.family_id, named by the login's own token
    revoked,    \* refresh_tokens.revoked
    expired,    \* refresh_tokens.expires_at has passed
    isActive,   \* users.is_active
    audit,      \* admin_actions about each user, in commit order
    (* Lock manager. *)
    tokenLock,  \* holder of each refresh_tokens row lock
    userLock,   \* holder of each users row lock
    (* Requests. *)
    pc, tok, new, usr,  \* step, presented token, generated token, user
    todo, aim,  \* rows a bulk UPDATE has yet to lock; the one it waits for
    (* History: what has been answered to a client. *)
    reported,   \* families whose theft a refresh detected (401)
    loggedOut,  \* families in which a logout revoked a token (204)
    beside      \* tokens issued by a request that ran beside a revocation

database == <<rows, tokenUser, family, revoked, expired, isActive, audit>>
locks    == <<tokenLock, userLock>>
control  == <<pc, tok, new, usr, todo, aim>>
answers  == <<reported, loggedOut>>
history  == <<answers, beside>>
vars     == <<database, locks, control, history>>

Bulk == {"revoking_family", "revoking_user"}

\* From the statement that chooses what to revoke to the commit.
Revoking == Bulk \union {"logging_out"}

PCs == {"idle", "issuing", "rotating", "reused", "suspending", "flagged",
        "reinstating", "logging_out"} \union Bulk

TypeOK ==
    /\ rows \subseteq Tokens
    /\ tokenUser \in [Tokens -> Users \union {None}]
    /\ family \in [Tokens -> Tokens \union {None}]
    /\ revoked \subseteq rows
    /\ expired \subseteq rows
    /\ isActive \in [Users -> BOOLEAN]
    /\ audit \in [Users -> Seq({"suspend_user", "reinstate_user"})]
    /\ tokenLock \in [Tokens -> Requests \union {None}]
    /\ userLock \in [Users -> Requests \union {None}]
    /\ pc \in [Requests -> PCs]
    /\ tok \in [Requests -> Tokens \union {None}]
    /\ new \in [Requests -> Tokens \union {None}]
    /\ usr \in [Requests -> Users \union {None}]
    /\ todo \in [Requests -> SUBSET Tokens]
    /\ aim \in [Requests -> Tokens \union {None}]
    /\ reported \subseteq Tokens
    /\ loggedOut \subseteq Tokens
    /\ beside \subseteq Tokens

Init ==
    /\ rows = {} /\ revoked = {} /\ expired = {}
    /\ tokenUser = [t \in Tokens |-> None]
    /\ family = [t \in Tokens |-> None]
    /\ isActive = [u \in Users |-> TRUE]
    /\ audit = [u \in Users |-> <<>>]
    /\ tokenLock = [t \in Tokens |-> None]
    /\ userLock = [u \in Users |-> None]
    /\ pc = [r \in Requests |-> "idle"]
    /\ tok = [r \in Requests |-> None]
    /\ new = [r \in Requests |-> None]
    /\ usr = [r \in Requests |-> None]
    /\ todo = [r \in Requests |-> {}]
    /\ aim = [r \in Requests |-> None]
    /\ reported = {} /\ loggedOut = {} /\ beside = {}

-----------------------------------------------------------------------------
Live == rows \ revoked

FamilyRows(f) == {t \in rows : family[t] = f}

UserRows(u) == {t \in Live : tokenUser[t] = u}

\* Secrets neither stored nor already drawn by a request in flight.
Fresh == Tokens \ (rows \union {new[r] : r \in Requests})

Held(r) == {t \in Tokens : tokenLock[t] = r}

\* Mutant: the session is closed without ending its transaction.
End_KeepsLocks(r) ==
    /\ pc' = [pc EXCEPT ![r] = "idle"]
    /\ tok' = [tok EXCEPT ![r] = None]
    /\ new' = [new EXCEPT ![r] = None]
    /\ usr' = [usr EXCEPT ![r] = None]
    /\ todo' = [todo EXCEPT ![r] = {}]
    /\ aim' = [aim EXCEPT ![r] = None]
    /\ UNCHANGED locks

\* The transaction ends: its locks are released and the request is over.
End(r) ==
    /\ pc' = [pc EXCEPT ![r] = "idle"]
    /\ tok' = [tok EXCEPT ![r] = None]
    /\ new' = [new EXCEPT ![r] = None]
    /\ usr' = [usr EXCEPT ![r] = None]
    /\ todo' = [todo EXCEPT ![r] = {}]
    /\ aim' = [aim EXCEPT ![r] = None]
    /\ tokenLock' = [t \in Tokens |-> IF tokenLock[t] = r THEN None ELSE tokenLock[t]]
    /\ userLock' = [u \in Users |-> IF userLock[u] = r THEN None ELSE userLock[u]]

\* create: the row of a token of family f, committed.
InsertToken(n, u, f) ==
    /\ rows' = rows \union {n}
    /\ tokenUser' = [tokenUser EXCEPT ![n] = u]
    /\ family' = [family EXCEPT ![n] = f]

\* A request draws a token while others may be revoking rows that it cannot see.
Draw(r) ==
    \E n \in Fresh :
        /\ new' = [new EXCEPT ![r] = n]
        /\ beside' = beside \union {m \in {n} : \E s \in Requests : pc[s] \in Revoking}

\* A revocation begins beside the requests that have drawn a token.
RevocationBegins == beside' = beside \union ({new[r] : r \in Requests} \ {None})

\* The next row a bulk UPDATE visits, in no particular order.
Aim(r, S) ==
    /\ todo' = [todo EXCEPT ![r] = S]
    /\ \E t \in (IF S = {} THEN {None} ELSE S) : aim' = [aim EXCEPT ![r] = t]

-----------------------------------------------------------------------------
(* login.  Unknown addresses, wrong passwords and suspended accounts are     *)
(* refused alike and leave no trace, so only the accepted case is a step.    *)

\* Mutant: login does not look at is_active.
LoginCheck_Suspended(r, u) ==
    /\ pc[r] = "idle"
    /\ Draw(r)
    /\ pc' = [pc EXCEPT ![r] = "issuing"]
    /\ usr' = [usr EXCEPT ![r] = u]
    /\ UNCHANGED <<database, locks, answers, tok, todo, aim>>

LoginCheck(r, u) ==
    /\ pc[r] = "idle"
    /\ isActive[u]
    /\ Draw(r)
    /\ pc' = [pc EXCEPT ![r] = "issuing"]
    /\ usr' = [usr EXCEPT ![r] = u]
    /\ UNCHANGED <<database, locks, answers, tok, todo, aim>>

LoginIssue(r) ==
    /\ pc[r] = "issuing"
    /\ InsertToken(new[r], usr[r], new[r])
    /\ End(r)
    /\ UNCHANGED <<revoked, expired, isActive, audit, history>>

-----------------------------------------------------------------------------
(* refresh.  get_by_hash_for_update takes the row lock and reads the newest  *)
(* version; waiting for the lock is not having started yet.  An unknown or   *)
(* expired token is refused before the revoked flag is even looked at.       *)

\* Mutant: get_by_hash instead of get_by_hash_for_update.
ReadForUpdate_Unlocked(r, t) ==
    /\ t \in rows
    /\ UNCHANGED tokenLock
    /\ t \notin expired

ReadForUpdate(r, t) ==
    /\ t \in rows
    /\ tokenLock[t] = None
    /\ tokenLock' = [tokenLock EXCEPT ![t] = r]
    /\ t \notin expired

\* Mutant: the revoked flag is not checked.
RefreshAccept_Revoked(r, t) ==
    /\ pc[r] = "idle"
    /\ ReadForUpdate(r, t)
    /\ Draw(r)
    /\ pc' = [pc EXCEPT ![r] = "rotating"]
    /\ tok' = [tok EXCEPT ![r] = t]
    /\ UNCHANGED <<database, userLock, answers, usr, todo, aim>>

\* revoke(stored) is flushed inside the locked window.
RefreshAccept(r, t) ==
    /\ pc[r] = "idle"
    /\ ReadForUpdate(r, t)
    /\ t \notin revoked
    /\ Draw(r)
    /\ pc' = [pc EXCEPT ![r] = "rotating"]
    /\ tok' = [tok EXCEPT ![r] = t]
    /\ UNCHANGED <<database, userLock, answers, usr, todo, aim>>

\* Mutant: the presented token is left valid.
RefreshRotate_KeepsOld(r) ==
    /\ pc[r] = "rotating"
    /\ InsertToken(new[r], tokenUser[tok[r]], family[tok[r]])
    /\ End(r)
    /\ UNCHANGED <<revoked, expired, isActive, audit, history>>

\* The successor is inserted and the rotation commits.
RefreshRotate(r) ==
    /\ pc[r] = "rotating"
    /\ revoked' = revoked \union {tok[r]}
    /\ InsertToken(new[r], tokenUser[tok[r]], family[tok[r]])
    /\ End(r)
    /\ UNCHANGED <<expired, isActive, audit, history>>

\* A token already rotated away from: evidence of theft.
RefreshReuse(r, t) ==
    /\ pc[r] = "idle"
    /\ ReadForUpdate(r, t)
    /\ t \in revoked
    /\ pc' = [pc EXCEPT ![r] = "reused"]
    /\ tok' = [tok EXCEPT ![r] = t]
    /\ UNCHANGED <<database, userLock, history, new, usr, todo, aim>>

\* revoke_family's UPDATE begins: it will visit the rows committed now.
RevokeFamilyBegin(r) ==
    /\ pc[r] = "reused"
    /\ Aim(r, FamilyRows(family[tok[r]]) \ {tok[r]})
    /\ pc' = [pc EXCEPT ![r] = "revoking_family"]
    /\ RevocationBegins
    /\ UNCHANGED <<database, locks, answers, tok, new, usr>>

\* A bulk UPDATE reaches its next row and locks it.
BulkLock(r) ==
    /\ pc[r] \in Bulk
    /\ aim[r] \in Tokens
    /\ tokenLock[aim[r]] = None
    /\ tokenLock' = [tokenLock EXCEPT ![aim[r]] = r]
    /\ Aim(r, todo[r] \ {aim[r]})
    /\ UNCHANGED <<database, userLock, history, pc, tok, new, usr>>

\* Mutant: the error that reports the theft rolls the revocation back.
RevokeFamilyCommit_RolledBack(r) ==
    /\ pc[r] = "revoking_family"
    /\ todo[r] = {}
    /\ reported' = reported \union {family[tok[r]]}
    /\ End(r)
    /\ UNCHANGED <<database, loggedOut, beside>>

\* InvalidRefreshTokenError is a DomainError: the revocation commits with it.
RevokeFamilyCommit(r) ==
    /\ pc[r] = "revoking_family"
    /\ todo[r] = {}
    /\ revoked' = revoked \union Held(r)
    /\ reported' = reported \union {family[tok[r]]}
    /\ End(r)
    /\ UNCHANGED <<rows, tokenUser, family, expired, isActive, audit, loggedOut, beside>>

-----------------------------------------------------------------------------
(* logout.  get_by_hash does not lock; the UPDATE that revoke flushes is by  *)
(* primary key and waits for whoever holds the row.                          *)

LogoutRead(r, t) ==
    /\ pc[r] = "idle"
    /\ t \in Live
    /\ pc' = [pc EXCEPT ![r] = "logging_out"]
    /\ tok' = [tok EXCEPT ![r] = t]
    /\ RevocationBegins
    /\ UNCHANGED <<database, locks, answers, new, usr, todo, aim>>

LogoutRevoke(r) ==
    /\ pc[r] = "logging_out"
    /\ tokenLock[tok[r]] = None
    /\ revoked' = revoked \union {tok[r]}
    /\ loggedOut' = loggedOut \union {family[tok[r]]}
    /\ End(r)
    /\ UNCHANGED <<rows, tokenUser, family, expired, isActive, audit, reported, beside>>

-----------------------------------------------------------------------------
(* suspend_user: check, UPDATE users, revoke_all_for_user, audit row, commit *)

SuspendCheck(r, u) ==
    /\ pc[r] = "idle"
    /\ isActive[u]
    /\ Len(audit[u]) < MaxAudit
    /\ pc' = [pc EXCEPT ![r] = "suspending"]
    /\ usr' = [usr EXCEPT ![r] = u]
    /\ UNCHANGED <<database, locks, history, tok, new, todo, aim>>

\* Mutant: is_active is not flushed before the tokens are revoked.
SuspendFlag_Late(r) ==
    /\ pc[r] = "suspending"
    /\ userLock[usr[r]] = None
    /\ pc' = [pc EXCEPT ![r] = "flagged"]
    /\ UNCHANGED <<database, locks, history, tok, new, usr, todo, aim>>

SuspendFlag(r) ==
    /\ pc[r] = "suspending"
    /\ userLock[usr[r]] = None
    /\ userLock' = [userLock EXCEPT ![usr[r]] = r]
    /\ pc' = [pc EXCEPT ![r] = "flagged"]
    /\ UNCHANGED <<database, tokenLock, history, tok, new, usr, todo, aim>>

RevokeUserBegin(r) ==
    /\ pc[r] = "flagged"
    /\ Aim(r, UserRows(usr[r]))
    /\ pc' = [pc EXCEPT ![r] = "revoking_user"]
    /\ RevocationBegins
    /\ UNCHANGED <<database, locks, answers, tok, new, usr>>

\* A row that became revoked while the UPDATE waited is skipped, to no effect.
SuspendCommit(r) ==
    /\ pc[r] = "revoking_user"
    /\ todo[r] = {}
    /\ revoked' = revoked \union Held(r)
    /\ isActive' = [isActive EXCEPT ![usr[r]] = FALSE]
    /\ audit' = [audit EXCEPT ![usr[r]] = Append(@, "suspend_user")]
    /\ End(r)
    /\ UNCHANGED <<rows, tokenUser, family, expired, history>>

(* reinstate_user: check, UPDATE users, audit row, commit. *)

ReinstateCheck(r, u) ==
    /\ pc[r] = "idle"
    /\ ~isActive[u]
    /\ Len(audit[u]) < MaxAudit
    /\ pc' = [pc EXCEPT ![r] = "reinstating"]
    /\ usr' = [usr EXCEPT ![r] = u]
    /\ UNCHANGED <<database, locks, history, tok, new, todo, aim>>

ReinstateCommit(r) ==
    /\ pc[r] = "reinstating"
    /\ userLock[usr[r]] = None
    /\ isActive' = [isActive EXCEPT ![usr[r]] = TRUE]
    /\ audit' = [audit EXCEPT ![usr[r]] = Append(@, "reinstate_user")]
    /\ End(r)
    /\ UNCHANGED <<rows, tokenUser, family, revoked, expired, history>>

-----------------------------------------------------------------------------
(* Failure and time. *)

\* An unexpected exception, a lost connection or a crash: rollback.
Abort(r) ==
    /\ pc[r] # "idle"
    /\ End(r)
    /\ beside' = beside \ {new[r]}
    /\ UNCHANGED <<database, answers>>

\* r has to wait for a row that s holds.
WaitsFor(r, s) ==
    /\ r # s
    /\ \/ pc[r] \in Bulk /\ aim[r] \in Tokens /\ tokenLock[aim[r]] = s
       \/ pc[r] = "logging_out" /\ tokenLock[tok[r]] = s
       \/ pc[r] \in {"suspending", "reinstating"} /\ userLock[usr[r]] = s

\* A set of requests each of which waits for another of them.
Deadlocked(D) == D # {} /\ \A r \in D : \E s \in D : WaitsFor(r, s)

\* PostgreSQL's deadlock detector picks a victim, whose request answers 500.
DeadlockVictim(r) ==
    /\ \E D \in SUBSET Requests : r \in D /\ Deadlocked(D)
    /\ Abort(r)

Expire(t) ==
    /\ t \in rows \ expired
    /\ expired' = expired \union {t}
    /\ UNCHANGED <<rows, tokenUser, family, revoked, isActive, audit, locks, control, history>>

\* Wrong credentials, no cookie, an unknown or expired token, a 404, 403 or
\* 409: the request is answered before its transaction writes anything.
Refused(r) == pc[r] = "idle" /\ UNCHANGED vars

Step(r) ==
    \/ LoginIssue(r)
    \/ RefreshRotate(r)
    \/ RevokeFamilyBegin(r)
    \/ BulkLock(r)
    \/ RevokeFamilyCommit(r)
    \/ LogoutRevoke(r)
    \/ SuspendFlag(r)
    \/ RevokeUserBegin(r)
    \/ SuspendCommit(r)
    \/ ReinstateCommit(r)

Arrival(r) ==
    \/ Refused(r)
    \/ \E u \in Users : LoginCheck(r, u) \/ SuspendCheck(r, u) \/ ReinstateCheck(r, u)
    \/ \E t \in Tokens : RefreshAccept(r, t) \/ RefreshReuse(r, t) \/ LogoutRead(r, t)

Next ==
    \/ \E r \in Requests : Arrival(r) \/ Step(r) \/ Abort(r)
    \/ \E t \in Tokens : Expire(t)

Spec == Init /\ [][Next]_vars

(***************************************************************************)
(* A worker keeps running its request; row locks are granted in the order   *)
(* they are asked for, so a waiter that the lock is repeatedly free for     *)
(* gets it; a deadlock is always detected.  No request need ever arrive or  *)
(* fail.                                                                    *)
(***************************************************************************)
Fairness ==
    /\ \A r \in Requests : SF_vars(Step(r))
    /\ WF_vars(\E r \in Requests : DeadlockVictim(r))

FairSpec == Spec /\ Fairness

-----------------------------------------------------------------------------
(* Correctness. *)

(* The promise of the design: however requests interleave, the rows of       *)
(* refresh_tokens are linear chains in which spent tokens stay spent.        *)
Chain == INSTANCE TokenChains WITH issued <- rows, live <- Live, NoToken <- None

ImplementsTokenChains == Chain!ChainSpec

(* AuthService.refresh's docstring: of two requests that present the same    *)
(* token, one wins; "at least two valid tokens ... from what should be a     *)
(* single linear chain" never happens.                                       *)
OneLivePerFamily == Chain!OneLivePerFamily

(* A session that has no live token left (logged out, reported stolen or     *)
(* suspended) is over: no rotation already under way brings it back.         *)
DeadFamilyStaysDead ==
    [][\A t \in rows : FamilyRows(family[t]) \subseteq revoked
                          => FamilyRows(family[t])' \subseteq revoked']_vars

(* What suspension, theft detection and logout do achieve: a session that    *)
(* lives on after one of them descends from a login or a refresh that was in *)
(* flight at the same time.  Without overlap, SEC-024 (presenting a rotated  *)
(* token revokes its family), SEC-025 (see SuspensionCutsSessions) and       *)
(* FR-013 (logging out ends the session) hold.                               *)
Ended(t) ==
    \/ ~isActive[tokenUser[t]]
    \/ family[t] \in reported \union loggedOut

RanBeside(t) == FamilyRows(family[t]) \cap beside # {}

OnlyOverlapSurvives ==
    \A t \in Live : Ended(t) => RanBeside(t)

(* Row locks are only ever held while waiting for another by the bulk        *)
(* UPDATEs, and suspend_user takes the users row first: only a deadlock that *)
(* a reuse detection takes part in can turn a request into a 500.            *)
OnlyReuseDeadlocks ==
    \A D \in SUBSET Requests :
        Deadlocked(D) => \E r \in D : pc[r] = "revoking_family"

(***************************************************************************)
(* Why those hold, one hazard a line: the inductive part of the argument.    *)
(***************************************************************************)

\* Stored rows belong to a user and to the family of a stored login.
RowsInv == \A t \in rows : tokenUser[t] \in Users /\ family[t] \in rows

\* A generated secret is nobody else's, and is not stored yet.
FreshInv ==
    /\ \A r \in Requests : new[r] \notin rows
    /\ \A r, s \in Requests : new[r] = new[s] => r = s \/ new[r] = None
    /\ \A r \in Requests : pc[r] \in {"issuing", "rotating"} => new[r] \in Tokens

\* What a request remembers from its first read still refers to stored rows.
ReadInv ==
    /\ \A r \in Requests :
          pc[r] \in {"rotating", "reused", "revoking_family", "logging_out"} => tok[r] \in rows
    /\ \A r \in Requests :
          pc[r] \in {"issuing", "suspending", "flagged", "revoking_user", "reinstating"}
             => usr[r] \in Users

\* Nobody can revoke or rotate a token while a rotation of it is under way.
RotationInv ==
    \A r \in Requests : pc[r] = "rotating" => tokenLock[tok[r]] = r /\ tok[r] \notin revoked

\* Only stored rows are locked, and only by the requests that lock them.
LockInv ==
    /\ \A t \in Tokens : tokenLock[t] # None =>
          /\ t \in rows
          /\ pc[tokenLock[t]] \in Bulk \union {"rotating", "reused"}
    /\ \A u \in Users : userLock[u] # None =>
          pc[userLock[u]] \in {"flagged", "revoking_user"} /\ usr[userLock[u]] = u
    /\ \A r \in Requests :
          pc[r] \in {"flagged", "revoking_user"} => userLock[usr[r]] = r

\* revoke_all_for_user locks and awaits rows of the suspended user only.
BulkInv ==
    /\ \A r \in Requests : todo[r] \subseteq rows /\ aim[r] \in todo[r] \union {None}
    /\ \A r \in Requests : pc[r] = "revoking_user" =>
          \A t \in todo[r] \union Held(r) : tokenUser[t] = usr[r]

\* The rows that a revocation under way is going to miss ran beside it.
Covers(r, t) ==
    \/ pc[r] = "revoking_family" /\ family[t] = family[tok[r]]
    \/ pc[r] = "revoking_user" /\ tokenUser[t] = usr[r]
    \/ pc[r] = "logging_out" /\ family[t] = family[tok[r]]

Reaches(r, t) ==
    \/ pc[r] \in Bulk /\ t \in todo[r] \union Held(r)
    \/ pc[r] = "logging_out" /\ t = tok[r]

BesideInv ==
    /\ reported \union loggedOut \subseteq rows
    /\ \A r \in Requests : pc[r] \in {"reused", "revoking_family"} => tok[r] \in revoked
    /\ \A r \in Requests : new[r] # None =>
          /\ (\E s \in Requests : pc[s] \in Revoking) => new[r] \in beside
          /\ pc[r] = "issuing" /\ ~isActive[usr[r]] => new[r] \in beside
    /\ \A r \in Requests, t \in Live : Covers(r, t) => RanBeside(t) \/ Reaches(r, t)

CoreInv ==
    /\ TypeOK /\ RowsInv /\ FreshInv /\ ReadInv /\ RotationInv /\ LockInv /\ BulkInv
    /\ OneLivePerFamily

IInv == CoreInv /\ BesideInv /\ OnlyOverlapSurvives

(* Every request that was let in is answered, waiting for locks and          *)
(* deadlocks included.                                                       *)
RequestsFinish == \A r \in Requests : pc[r] # "idle" ~> pc[r] = "idle"

(* SEC-025: suspending a user revokes all their refresh tokens, "preventing  *)
(* any further token refresh or login from that point forward".              *)
SuspensionCutsSessions == \A t \in Live : isActive[tokenUser[t]]
=============================================================================
