------------------------------ MODULE Accounts ------------------------------
(***************************************************************************)
(* Accounts and their passwords: AuthService.register, UserService's        *)
(* update_display_name and change_password, and AdminService.reset_password *)
(* on accounts of role USER, as concurrent requests over one PostgreSQL     *)
(* database.                                                                *)
(*                                                                          *)
(* The User a request works on is the object its authentication loaded when *)
(* the request began.  SQLAlchemy compares it with the values the service   *)
(* assigns and sends an UPDATE of the columns that differ; a fresh Argon2   *)
(* hash always does, must_change_password only if the loaded flag was the   *)
(* opposite.  Each request writes one row once and commits, so that waiting *)
(* for the row is not having written yet.                                   *)
(***************************************************************************)
EXTENDS Naturals, FiniteSets

CONSTANTS
    Requests,       \* requests in flight at a time
    Ids,            \* user ids that can be generated: bounds the model
    Addresses,      \* e-mail addresses; citext-equal spellings are one address
    Names,          \* display names
    Chosen,         \* passwords that people choose
    Temporary,      \* passwords that resets can generate: bounds the model
    NewPasswords,   \* what people type as their new password
    None            \* no address, no name, no password, no user

ASSUME NoneAssumption ==
    None \notin Ids \union Addresses \union Names \union Chosen \union Temporary
ASSUME PasswordsAssumption ==
    /\ Chosen \intersect Temporary = {}
    /\ NewPasswords \subseteq Chosen \union Temporary

VARIABLES
    (* Committed rows of users; a row without an address is not there. *)
    email, password, mustChange, displayName,
    (* History. *)
    generated,  \* temporary passwords that resets have drawn
    raced,      \* accounts that a change and a reset worked on at once
    (* Requests. *)
    pc,         \* step
    user,       \* account the request works on, as it was loaded
    flag,       \* must_change_password of that loaded account
    value       \* the address, name or password to be written

database == <<email, password, mustChange, displayName>>
history  == <<generated, raced>>
vars     == <<database, history, pc, user, flag, value>>

Passwords == Chosen \union Temporary

TypeOK ==
    /\ email \in [Ids -> Addresses \union {None}]
    /\ password \in [Ids -> Passwords \union {None}]
    /\ mustChange \in [Ids -> BOOLEAN]
    /\ displayName \in [Ids -> Names \union {None}]
    /\ generated \subseteq Temporary
    /\ raced \subseteq Ids
    /\ pc \in [Requests -> {"idle", "registering", "renaming", "changing", "resetting"}]
    /\ user \in [Requests -> Ids \union {None}]
    /\ flag \in [Requests -> BOOLEAN]
    /\ value \in [Requests -> Addresses \union Names \union Passwords \union {None}]

Init ==
    /\ email = [u \in Ids |-> None]
    /\ password = [u \in Ids |-> None]
    /\ mustChange = [u \in Ids |-> FALSE]
    /\ displayName = [u \in Ids |-> None]
    /\ generated = {} /\ raced = {}
    /\ pc = [r \in Requests |-> "idle"]
    /\ user = [r \in Requests |-> None]
    /\ flag = [r \in Requests |-> FALSE]
    /\ value = [r \in Requests |-> None]

-----------------------------------------------------------------------------
Existing == {u \in Ids : email[u] # None}

Taken(a) == \E u \in Ids : email[u] = a

\* The request goes on to the given step, to write v.
Goes(r, step, v) ==
    /\ pc[r] = "idle"
    /\ pc' = [pc EXCEPT ![r] = step]
    /\ value' = [value EXCEPT ![r] = v]
    /\ UNCHANGED database

\* The account is loaded: the request decides and writes by what it saw here.
Load(r, u) ==
    /\ u \in Existing
    /\ user' = [user EXCEPT ![r] = u]
    /\ flag' = [flag EXCEPT ![r] = mustChange[u]]

End(r) ==
    /\ pc' = [pc EXCEPT ![r] = "idle"]
    /\ user' = [user EXCEPT ![r] = None]
    /\ flag' = [flag EXCEPT ![r] = FALSE]
    /\ value' = [value EXCEPT ![r] = None]
    /\ UNCHANGED history

\* Somebody else is at the given step on the same account.
Beside(u, step) ==
    raced' = raced \union {v \in {u} : \E s \in Requests : pc[s] = step /\ user[s] = v}

-----------------------------------------------------------------------------
(* register: the address is looked up, the password hashed, the row inserted *)

RegisterCheck(r, a) ==
    /\ ~Taken(a)
    /\ Goes(r, "registering", a)
    /\ UNCHANGED <<history, user, flag>>

\* Mutant: no unique constraint behind the look-up.
RegisterInsert_Unconstrained(r) ==
    /\ pc[r] = "registering"
    /\ \E u \in Ids \ Existing, p \in Chosen, n \in Names :
          /\ email' = [email EXCEPT ![u] = value[r]]
          /\ password' = [password EXCEPT ![u] = p]
          /\ displayName' = [displayName EXCEPT ![u] = n]
    /\ UNCHANGED mustChange
    /\ End(r)

\* Mutant: two string arguments are swapped.
RegisterInsert_Swapped(r) ==
    /\ pc[r] = "registering"
    /\ ~Taken(value[r])
    /\ \E u \in Ids \ Existing, p \in Chosen, n \in Names :
          /\ email' = [email EXCEPT ![u] = n]
          /\ password' = [password EXCEPT ![u] = p]
          /\ displayName' = [displayName EXCEPT ![u] = value[r]]
    /\ UNCHANGED mustChange
    /\ End(r)

RegisterInsert(r) ==
    /\ pc[r] = "registering"
    /\ ~Taken(value[r])
    /\ \E u \in Ids \ Existing, p \in Chosen, n \in Names :
          /\ email' = [email EXCEPT ![u] = value[r]]
          /\ password' = [password EXCEPT ![u] = p]
          /\ displayName' = [displayName EXCEPT ![u] = n]
    /\ UNCHANGED mustChange
    /\ End(r)

\* The unique constraint fires: rollback, and the same 422 as the pre-check.
RegisterDuplicate(r) ==
    /\ pc[r] = "registering"
    /\ Taken(value[r])
    /\ UNCHANGED database
    /\ End(r)

-----------------------------------------------------------------------------
(* update_display_name, behind get_current_user: a flagged account is        *)
(* refused (403).  The name that is already there is not written again.      *)

RenameLoad(r, u, n) ==
    /\ Load(r, u)
    /\ ~mustChange[u]
    /\ displayName[u] # n
    /\ Goes(r, "renaming", n)
    /\ UNCHANGED history

RenameWrite(r) ==
    /\ pc[r] = "renaming"
    /\ displayName' = [displayName EXCEPT ![user[r]] = value[r]]
    /\ UNCHANGED <<email, password, mustChange>>
    /\ End(r)

-----------------------------------------------------------------------------
(* change_password, the one operation open to a flagged account.  The        *)
(* current password is verified against the loaded hash; nothing compares    *)
(* the new password with it.  People know the passwords they choose, and a   *)
(* temporary one only when it is theirs.                                     *)

ChangeLoad(r, u, new) ==
    /\ Load(r, u)
    /\ new \in Temporary => new = password[u]
    /\ Goes(r, "changing", new)
    /\ Beside(u, "resetting")
    /\ UNCHANGED generated

\* set_password: the flag column is sent only if the loaded flag was up.
ChangeWrite(r) ==
    /\ pc[r] = "changing"
    /\ password' = [password EXCEPT ![user[r]] = value[r]]
    /\ mustChange' = [mustChange EXCEPT ![user[r]] = IF flag[r] THEN FALSE ELSE @]
    /\ UNCHANGED <<email, displayName>>
    /\ End(r)

-----------------------------------------------------------------------------
(* reset_password: a new temporary password, a forced change, an audit row.  *)

ResetLoad(r, u) ==
    /\ Load(r, u)
    /\ \E p \in Temporary \ generated :
          /\ Goes(r, "resetting", p)
          /\ generated' = generated \union {p}
    /\ Beside(u, "changing")

\* Mutant: a reset goes through set_password's statement.
ResetWrite_NoFlag(r) ==
    /\ pc[r] = "resetting"
    /\ password' = [password EXCEPT ![user[r]] = value[r]]
    /\ UNCHANGED <<email, displayName, mustChange>>
    /\ End(r)

\* set_temporary_password: the flag column is sent only if it was down.
ResetWrite(r) ==
    /\ pc[r] = "resetting"
    /\ password' = [password EXCEPT ![user[r]] = value[r]]
    /\ mustChange' = [mustChange EXCEPT ![user[r]] = IF flag[r] THEN @ ELSE TRUE]
    /\ UNCHANGED <<email, displayName>>
    /\ End(r)

-----------------------------------------------------------------------------
\* An unexpected exception, a lost connection or a crash: rollback.
Abort(r) ==
    /\ pc[r] # "idle"
    /\ UNCHANGED database
    /\ End(r)

\* 401, 403, 404, 422: nothing is written.
Refused(r) == pc[r] = "idle" /\ UNCHANGED vars

Next ==
    \E r \in Requests :
        \/ \E a \in Addresses : RegisterCheck(r, a)
        \/ \E u \in Ids :
              \/ \E n \in Names : RenameLoad(r, u, n)
              \/ \E new \in NewPasswords : ChangeLoad(r, u, new)
              \/ ResetLoad(r, u)
        \/ RegisterInsert(r)
        \/ RegisterDuplicate(r)
        \/ RenameWrite(r)
        \/ ChangeWrite(r)
        \/ ResetWrite(r)
        \/ Abort(r)
        \/ Refused(r)

Spec == Init /\ [][Next]_vars

-----------------------------------------------------------------------------
(* Correctness. *)

(* FR-014: one account an address, although two registrations can both find  *)
(* it free before either is committed.                                       *)
OneAccountPerAddress ==
    \A u, v \in Existing : email[u] = email[v] => u = v

(* FR-045 with FR-015, where a reset and a change never overlap and nobody   *)
(* chooses the temporary password again: the flag is up exactly while the    *)
(* account's password is one that a reset generated, although each of the    *)
(* two writes the flag only if the one it loaded was different.              *)
FlagFollowsPassword ==
    \A u \in Existing \ raced : mustChange[u] <=> password[u] \in Temporary

(* FR-045 with FR-015: as long as a password that a reset generated opens an *)
(* account, the account is confined to changing it.                          *)
TemporaryMustBeReplaced ==
    \A u \in Ids : password[u] \in Temporary => mustChange[u]
=============================================================================
