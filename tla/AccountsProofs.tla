-------------------------- MODULE AccountsProofs --------------------------
(***************************************************************************)
(* Theorems about Accounts, for every number of requests and accounts.      *)
(*                                                                          *)
(* FlagFollowsPassword is not inductive: a write of the flag depends on the *)
(* flag that was loaded.  StaleFlagInv says what a loaded flag is still     *)
(* good for, on an account where no change has met a reset (ApartInv).      *)
(***************************************************************************)
EXTENDS Accounts, TLAPS

At(r, step) == pc[r] = step

\* What a request has loaded and is going to write.
LoadedInv ==
    \A r \in Requests :
        /\ At(r, "registering") => value[r] \in Addresses
        /\ At(r, "renaming") => value[r] \in Names
        /\ At(r, "changing") => value[r] \in NewPasswords
        /\ At(r, "resetting") => value[r] \in Temporary
        /\ pc[r] \in {"renaming", "changing", "resetting"} => user[r] \in Existing

\* Only rows that are there have been written.
UnusedInv == \A u \in Ids \ Existing : ~mustChange[u] /\ password[u] = None

\* A change and a reset under way on one account are remembered.
ApartInv ==
    \A r, s \in Requests :
        At(r, "changing") /\ At(s, "resetting") /\ user[r] = user[s] => user[r] \in raced

\* Without a race a change that will not take the flag down finds it down, a reset that
\* will not put it up finds it up.
StaleFlagInv ==
    \A r \in Requests : user[r] \notin raced =>
        /\ At(r, "changing") /\ ~flag[r] => ~mustChange[user[r]]
        /\ At(r, "resetting") /\ flag[r] => mustChange[user[r]]

CommonInv == TypeOK /\ LoadedInv /\ UnusedInv
FlagInv == CommonInv /\ ApartInv /\ StaleFlagInv /\ FlagFollowsPassword

-----------------------------------------------------------------------------
\* Before the first registration there is nothing that could be wrong.
LEMMA AccountsInitially == Init => FlagInv /\ OneAccountPerAddress
<1> SUFFICES ASSUME Init PROVE FlagInv /\ OneAccountPerAddress
  OBVIOUS
<1>1. TypeOK
  BY DEF Init, TypeOK
<1>2. Existing = {}
  BY DEF Init, Existing
<1>3. LoadedInv /\ UnusedInv /\ ApartInv /\ StaleFlagInv
  BY DEF Init, LoadedInv, UnusedInv, ApartInv, StaleFlagInv, At
<1> QED
  BY <1>1, <1>2, <1>3 DEF FlagInv, CommonInv, FlagFollowsPassword, OneAccountPerAddress

\* How a request begins: it is at its step with what it has loaded; no row has changed.
LEMMA Loads ==
  ASSUME CommonInv, NEW r \in Requests, NEW u \in Ids, NEW v, Load(r, u),
         NEW step \in {"renaming", "changing", "resetting"}, Goes(r, step, v),
         step = "renaming" => v \in Names,
         step = "changing" => v \in NewPasswords,
         step = "resetting" => v \in Temporary,
         raced' \subseteq Ids, generated' \subseteq Temporary
  PROVE  /\ CommonInv' /\ Existing' = Existing
         /\ pc'[r] = step /\ user'[r] = u /\ flag'[r] = mustChange[u]
         /\ \A s \in Requests \ {r} : pc'[s] = pc[s] /\ user'[s] = user[s] /\ flag'[s] = flag[s]
<1>1. Existing' = Existing /\ u \in Existing /\ UNCHANGED database
  BY DEF Goes, Load, database, Existing
<1>2. /\ pc'[r] = step /\ user'[r] = u /\ flag'[r] = mustChange[u] /\ value'[r] = v
      /\ \A s \in Requests \ {r} : /\ pc'[s] = pc[s] /\ user'[s] = user[s]
                                   /\ flag'[s] = flag[s] /\ value'[s] = value[s]
  BY DEF Goes, Load, CommonInv, TypeOK
<1>3. TypeOK'
  <2>1. v \in Addresses \union Names \union Passwords \union {None}
    BY PasswordsAssumption DEF Passwords
  <2>2. mustChange[u] \in BOOLEAN
    BY DEF CommonInv, TypeOK
  <2> QED
    BY <1>1, <2>1, <2>2 DEF Goes, Load, CommonInv, TypeOK, database
<1>4. LoadedInv'
  BY <1>1, <1>2 DEF CommonInv, LoadedInv, At
<1>5. UnusedInv'
  BY <1>1 DEF CommonInv, UnusedInv, database
<1> QED
  BY <1>1, <1>2, <1>3, <1>4, <1>5 DEF CommonInv

\* How a request ends: what it has done to the rows is typed, and no account goes away.
LEMMA Ends ==
  ASSUME CommonInv, NEW r \in Requests, End(r),
         email' \in [Ids -> Addresses \union {None}],
         password' \in [Ids -> Passwords \union {None}],
         mustChange' \in [Ids -> BOOLEAN],
         displayName' \in [Ids -> Names \union {None}],
         Existing \subseteq Existing', UnusedInv'
  PROVE  /\ CommonInv' /\ pc'[r] = "idle" /\ raced' = raced
         /\ \A s \in Requests \ {r} : pc'[s] = pc[s] /\ user'[s] = user[s] /\ flag'[s] = flag[s]
<1>1. /\ pc'[r] = "idle" /\ UNCHANGED history
      /\ \A s \in Requests \ {r} : /\ pc'[s] = pc[s] /\ user'[s] = user[s]
                                   /\ flag'[s] = flag[s] /\ value'[s] = value[s]
  BY DEF End, CommonInv, TypeOK
<1>2. TypeOK'
  BY DEF End, CommonInv, TypeOK, history
<1>3. LoadedInv'
  BY <1>1 DEF CommonInv, LoadedInv, At
<1> QED
  BY <1>1, <1>2, <1>3 DEF CommonInv, history

\* A request that ends and has written no flag and no password of an account that was
\* there keeps the invariant of the flag.
LEMMA EndsAside ==
  ASSUME FlagInv, NEW r \in Requests, CommonInv', pc'[r] = "idle", raced' = raced,
         \A s \in Requests \ {r} : pc'[s] = pc[s] /\ user'[s] = user[s] /\ flag'[s] = flag[s],
         UNCHANGED mustChange,
         \A u \in Existing' : \/ u \in Existing /\ password'[u] = password[u]
                              \/ u \notin Existing /\ password'[u] \in Chosen
  PROVE  FlagInv'
<1>1. ApartInv'
  BY DEF FlagInv, ApartInv, At
<1>2. StaleFlagInv'
  BY DEF FlagInv, StaleFlagInv, At
<1>3. FlagFollowsPassword'
  <2>1. \A u \in Existing' \ Existing : ~mustChange[u] /\ password'[u] \notin Temporary
    BY PasswordsAssumption DEF FlagInv, CommonInv, UnusedInv, Existing
  <2> QED
    BY <2>1 DEF FlagInv, FlagFollowsPassword
<1> QED
  BY <1>1, <1>2, <1>3 DEF FlagInv

\* The insertion gives a new row the address that was looked up.
LEMMA Inserted ==
  ASSUME CommonInv, NEW r \in Requests, RegisterInsert(r)
  PROVE  \E u \in Ids \ Existing, p \in Chosen :
           /\ email' = [email EXCEPT ![u] = value[r]] /\ value[r] \in Addresses
           /\ password' = [password EXCEPT ![u] = p]
           /\ displayName' \in [Ids -> Names \union {None}]
           /\ Existing' = Existing \union {u} /\ UNCHANGED mustChange /\ End(r)
           /\ \A w \in Existing : email[w] # value[r]
<1>1. PICK u \in Ids \ Existing, p \in Chosen, n \in Names :
        /\ email' = [email EXCEPT ![u] = value[r]]
        /\ password' = [password EXCEPT ![u] = p]
        /\ displayName' = [displayName EXCEPT ![u] = n]
  BY DEF RegisterInsert
<1>2. value[r] \in Addresses /\ value[r] # None
  BY NoneAssumption DEF RegisterInsert, CommonInv, LoadedInv, At
<1>3. Existing' = Existing \union {u}
  BY <1>1, <1>2 DEF CommonInv, TypeOK, Existing
<1>4. displayName' \in [Ids -> Names \union {None}]
  BY <1>1 DEF CommonInv, TypeOK
<1>5. \A w \in Existing : email[w] # value[r]
  BY DEF RegisterInsert, Taken, Existing
<1> QED
  BY <1>1, <1>2, <1>3, <1>4, <1>5 DEF RegisterInsert

\* A write of a password and of the flag of an account that is there.
LEMMA Written ==
  ASSUME CommonInv, NEW r \in Requests, NEW f \in BOOLEAN,
         pc[r] \in {"changing", "resetting"}, End(r),
         password' = [password EXCEPT ![user[r]] = value[r]],
         mustChange' = [mustChange EXCEPT ![user[r]] = f],
         UNCHANGED <<email, displayName>>
  PROVE  /\ CommonInv' /\ user[r] \in Existing /\ Existing' = Existing
         /\ pc'[r] = "idle" /\ raced' = raced
         /\ \A s \in Requests \ {r} : pc'[s] = pc[s] /\ user'[s] = user[s] /\ flag'[s] = flag[s]
<1>1. user[r] \in Existing /\ value[r] \in Passwords
  BY PasswordsAssumption DEF CommonInv, LoadedInv, At, Passwords
<1>2. Existing' = Existing
  BY DEF Existing
<1>3. /\ email' \in [Ids -> Addresses \union {None}]
      /\ password' \in [Ids -> Passwords \union {None}]
      /\ mustChange' \in [Ids -> BOOLEAN]
      /\ displayName' \in [Ids -> Names \union {None}]
  BY <1>1 DEF CommonInv, TypeOK
<1>4. UnusedInv'
  BY <1>1, <1>2 DEF CommonInv, TypeOK, UnusedInv, Existing
<1>5. /\ CommonInv' /\ pc'[r] = "idle" /\ raced' = raced
      /\ \A s \in Requests \ {r} : pc'[s] = pc[s] /\ user'[s] = user[s] /\ flag'[s] = flag[s]
  BY <1>2, <1>3, <1>4, Ends
<1> QED
  BY <1>1, <1>2, <1>5

\* Taking a request up leaves every row and what the other requests loaded as they were.
LEMMA Checked ==
  ASSUME CommonInv, NEW r \in Requests, NEW a \in Addresses, RegisterCheck(r, a)
  PROVE  /\ CommonInv' /\ UNCHANGED <<database, history, user, flag>> /\ Existing' = Existing
         /\ pc'[r] = "registering" /\ \A s \in Requests \ {r} : pc'[s] = pc[s]
<1>1. /\ UNCHANGED <<database, history, user, flag>>
      /\ pc'[r] = "registering" /\ value'[r] = a
      /\ \A s \in Requests \ {r} : pc'[s] = pc[s] /\ value'[s] = value[s]
  BY DEF RegisterCheck, Goes, CommonInv, TypeOK
<1>2. TypeOK'
  BY <1>1 DEF RegisterCheck, Goes, CommonInv, TypeOK, database, history
<1>3. Existing' = Existing
  BY <1>1 DEF Existing, database
<1>4. LoadedInv' /\ UnusedInv'
  BY <1>1, <1>3 DEF CommonInv, LoadedInv, UnusedInv, At, database
<1> QED
  BY <1>1, <1>2, <1>3, <1>4 DEF CommonInv

-----------------------------------------------------------------------------
\* The flag, where nobody chooses a temporary password again.

\* A change forgets the temporary password and the flag together.
LEMMA ChangeKeepsFlag ==
  ASSUME NewPasswords \subseteq Chosen, FlagInv, NEW r \in Requests, ChangeWrite(r)
  PROVE  FlagInv'
<1> DEFINE u == user[r]
           f == IF flag[r] THEN FALSE ELSE mustChange[u]
<1>1. /\ At(r, "changing") /\ value[r] \in Chosen \ Temporary /\ u \in Existing /\ u \in Ids
  BY PasswordsAssumption DEF ChangeWrite, FlagInv, CommonInv, LoadedInv, At, Existing
<1>2. f \in BOOLEAN /\ (u \notin raced => ~f)
  BY <1>1 DEF FlagInv, CommonInv, TypeOK, StaleFlagInv
<1>3. mustChange' = [mustChange EXCEPT ![u] = f]
  BY DEF ChangeWrite
<1> HIDE DEF f
<1>4. /\ CommonInv' /\ Existing' = Existing /\ pc'[r] = "idle" /\ raced' = raced
      /\ \A s \in Requests \ {r} : pc'[s] = pc[s] /\ user'[s] = user[s] /\ flag'[s] = flag[s]
  BY <1>2, <1>3, Written DEF ChangeWrite, FlagInv
<1>5. /\ \A v \in Ids \ {u} : mustChange'[v] = mustChange[v] /\ password'[v] = password[v]
      /\ mustChange'[u] = f /\ password'[u] = value[r]
  BY <1>1, <1>3 DEF ChangeWrite, FlagInv, CommonInv, TypeOK
<1>6. ApartInv'
  BY <1>4 DEF FlagInv, ApartInv, At
<1>7. StaleFlagInv'
  <2> SUFFICES ASSUME NEW s \in Requests \ {r}, user[s] \notin raced,
                      pc[s] \in {"changing", "resetting"}
               PROVE  /\ At(s, "changing") /\ ~flag[s] => ~mustChange'[user[s]]
                      /\ At(s, "resetting") /\ flag[s] => mustChange'[user[s]]
    BY <1>4 DEF StaleFlagInv, At
  <2>1. user[s] \in Ids
    BY DEF FlagInv, CommonInv, LoadedInv, Existing
  <2>2. CASE user[s] = u
    BY <1>1, <1>2, <1>5, <2>2 DEF FlagInv, ApartInv
  <2>3. CASE user[s] # u
    BY <1>5, <2>1, <2>3 DEF FlagInv, StaleFlagInv
  <2> QED
    BY <2>2, <2>3
<1>8. FlagFollowsPassword'
  BY <1>1, <1>2, <1>4, <1>5 DEF FlagInv, FlagFollowsPassword, Existing
<1> QED
  BY <1>4, <1>6, <1>7, <1>8 DEF FlagInv

\* A reset brings a temporary password and the flag together.
LEMMA ResetKeepsFlag ==
  ASSUME FlagInv, NEW r \in Requests, ResetWrite(r)
  PROVE  FlagInv'
<1> DEFINE u == user[r]
           f == IF flag[r] THEN mustChange[u] ELSE TRUE
<1>1. At(r, "resetting") /\ value[r] \in Temporary /\ u \in Existing /\ u \in Ids
  BY DEF ResetWrite, FlagInv, CommonInv, LoadedInv, At, Existing
<1>2. f \in BOOLEAN /\ (u \notin raced => f)
  BY <1>1 DEF FlagInv, CommonInv, TypeOK, StaleFlagInv
<1>3. mustChange' = [mustChange EXCEPT ![u] = f]
  BY DEF ResetWrite
<1> HIDE DEF f
<1>4. /\ CommonInv' /\ Existing' = Existing /\ pc'[r] = "idle" /\ raced' = raced
      /\ \A s \in Requests \ {r} : pc'[s] = pc[s] /\ user'[s] = user[s] /\ flag'[s] = flag[s]
  BY <1>2, <1>3, Written DEF ResetWrite, FlagInv
<1>5. /\ \A v \in Ids \ {u} : mustChange'[v] = mustChange[v] /\ password'[v] = password[v]
      /\ mustChange'[u] = f /\ password'[u] = value[r]
  BY <1>1, <1>3 DEF ResetWrite, FlagInv, CommonInv, TypeOK
<1>6. ApartInv'
  BY <1>4 DEF FlagInv, ApartInv, At
<1>7. StaleFlagInv'
  <2> SUFFICES ASSUME NEW s \in Requests \ {r}, user[s] \notin raced,
                      pc[s] \in {"changing", "resetting"}
               PROVE  /\ At(s, "changing") /\ ~flag[s] => ~mustChange'[user[s]]
                      /\ At(s, "resetting") /\ flag[s] => mustChange'[user[s]]
    BY <1>4 DEF StaleFlagInv, At
  <2>1. user[s] \in Ids
    BY DEF FlagInv, CommonInv, LoadedInv, Existing
  <2>2. CASE user[s] = u
    BY <1>1, <1>2, <1>5, <2>2 DEF FlagInv, ApartInv
  <2>3. CASE user[s] # u
    BY <1>5, <2>1, <2>3 DEF FlagInv, StaleFlagInv
  <2> QED
    BY <2>2, <2>3
<1>8. FlagFollowsPassword'
  BY <1>1, <1>2, <1>4, <1>5 DEF FlagInv, FlagFollowsPassword, Existing
<1> QED
  BY <1>4, <1>6, <1>7, <1>8 DEF FlagInv

\* A change or a reset that begins loads the flag of the moment, and is remembered where
\* it meets the other.
LEMMA LoadKeepsFlag ==
  ASSUME FlagInv, NEW r \in Requests, NEW u \in Ids, NEW v, Load(r, u),
         NEW step \in {"renaming", "changing", "resetting"}, Goes(r, step, v),
         step = "renaming" => v \in Names,
         step = "changing" => v \in NewPasswords /\ Beside(u, "resetting"),
         step = "resetting" => v \in Temporary /\ Beside(u, "changing"),
         step = "renaming" => raced' = raced,
         generated' \subseteq Temporary
  PROVE  FlagInv'
<1>1. raced \subseteq raced' /\ raced' \subseteq Ids
  BY DEF Beside, FlagInv, CommonInv, TypeOK
<1>2. /\ CommonInv' /\ Existing' = Existing
      /\ pc'[r] = step /\ user'[r] = u /\ flag'[r] = mustChange[u]
      /\ \A s \in Requests \ {r} : pc'[s] = pc[s] /\ user'[s] = user[s] /\ flag'[s] = flag[s]
  BY <1>1, Loads DEF FlagInv
<1>3. UNCHANGED <<password, mustChange>>
  BY DEF Goes, database
<1>4. ApartInv'
  <2>1. step = "changing" => \A s \in Requests : pc[s] = "resetting" /\ user[s] = u => u \in raced'
    BY DEF Beside
  <2>2. step = "resetting" => \A s \in Requests : pc[s] = "changing" /\ user[s] = u => u \in raced'
    BY DEF Beside
  <2> QED
    BY <1>1, <1>2, <2>1, <2>2 DEF FlagInv, ApartInv, At
<1>5. StaleFlagInv'
  BY <1>1, <1>2, <1>3 DEF FlagInv, StaleFlagInv, At
<1>6. FlagFollowsPassword'
  BY <1>1, <1>2, <1>3 DEF FlagInv, FlagFollowsPassword
<1> QED
  BY <1>2, <1>4, <1>5, <1>6 DEF FlagInv

\* A request that ends without a password: nothing that the flag depends on has changed.
LEMMA AsideKeepsFlag ==
  ASSUME FlagInv, NEW r \in Requests, End(r), UNCHANGED <<email, password, mustChange>>,
         displayName' \in [Ids -> Names \union {None}]
  PROVE  FlagInv'
<1>1. Existing' = Existing /\ UnusedInv'
  BY DEF Existing, FlagInv, CommonInv, UnusedInv
<1>2. /\ email' \in [Ids -> Addresses \union {None}]
      /\ password' \in [Ids -> Passwords \union {None}]
      /\ mustChange' \in [Ids -> BOOLEAN]
  BY DEF FlagInv, CommonInv, TypeOK
<1>3. /\ CommonInv' /\ pc'[r] = "idle" /\ raced' = raced
      /\ \A s \in Requests \ {r} : pc'[s] = pc[s] /\ user'[s] = user[s] /\ flag'[s] = flag[s]
  BY <1>1, <1>2, Ends DEF FlagInv
<1> QED
  BY <1>1, <1>3, EndsAside

\* A new account has the password that its owner chose, and no flag.
LEMMA RegisterKeepsFlag ==
  ASSUME FlagInv, NEW r \in Requests, RegisterInsert(r)
  PROVE  FlagInv'
<1>1. PICK u \in Ids \ Existing, p \in Chosen :
        /\ email' = [email EXCEPT ![u] = value[r]] /\ value[r] \in Addresses
        /\ password' = [password EXCEPT ![u] = p]
        /\ displayName' \in [Ids -> Names \union {None}]
        /\ Existing' = Existing \union {u} /\ UNCHANGED mustChange /\ End(r)
  BY Inserted DEF FlagInv
<1>2. /\ email' \in [Ids -> Addresses \union {None}]
      /\ password' \in [Ids -> Passwords \union {None}]
      /\ mustChange' \in [Ids -> BOOLEAN] /\ UnusedInv'
  BY <1>1 DEF FlagInv, CommonInv, TypeOK, UnusedInv, Passwords
<1>3. /\ CommonInv' /\ pc'[r] = "idle" /\ raced' = raced
      /\ \A s \in Requests \ {r} : pc'[s] = pc[s] /\ user'[s] = user[s] /\ flag'[s] = flag[s]
  BY <1>1, <1>2, Ends DEF FlagInv
<1>4. \A w \in Existing' : \/ w \in Existing /\ password'[w] = password[w]
                           \/ w \notin Existing /\ password'[w] \in Chosen
  BY <1>1 DEF FlagInv, CommonInv, TypeOK, Existing
<1> QED
  BY <1>1, <1>3, <1>4, EndsAside

\* Every step keeps the invariant of the flag: one case for each action.
LEMMA FlagStep ==
  ASSUME NewPasswords \subseteq Chosen, FlagInv, [Next]_vars
  PROVE  FlagInv'
<1>1. ASSUME NEW r \in Requests, NEW a \in Addresses, RegisterCheck(r, a) PROVE FlagInv'
  <2>1. /\ CommonInv' /\ UNCHANGED <<database, history, user, flag>> /\ Existing' = Existing
        /\ pc'[r] = "registering" /\ \A s \in Requests \ {r} : pc'[s] = pc[s]
    BY <1>1, Checked DEF FlagInv
  <2>2. ApartInv' /\ StaleFlagInv' /\ FlagFollowsPassword'
    BY <2>1 DEF FlagInv, ApartInv, StaleFlagInv, FlagFollowsPassword, At, database, history
  <2> QED
    BY <2>1, <2>2 DEF FlagInv
<1>2. ASSUME NEW r \in Requests, NEW u \in Ids, NEW n \in Names, RenameLoad(r, u, n) PROVE FlagInv'
  BY <1>2, LoadKeepsFlag DEF RenameLoad, history, FlagInv, CommonInv, TypeOK
<1>3. ASSUME NEW r \in Requests, NEW u \in Ids, NEW new \in NewPasswords, ChangeLoad(r, u, new)
      PROVE  FlagInv'
  BY <1>3, LoadKeepsFlag DEF ChangeLoad, FlagInv, CommonInv, TypeOK
<1>4. ASSUME NEW r \in Requests, NEW u \in Ids, ResetLoad(r, u) PROVE FlagInv'
  <2>1. PICK p \in Temporary : Goes(r, "resetting", p) /\ generated' = generated \union {p}
    BY <1>4 DEF ResetLoad
  <2>2. generated' \subseteq Temporary
    BY <2>1 DEF FlagInv, CommonInv, TypeOK
  <2> QED
    BY <1>4, <2>1, <2>2, LoadKeepsFlag DEF ResetLoad
<1>5. ASSUME NEW r \in Requests, RegisterDuplicate(r) \/ Abort(r) PROVE FlagInv'
  BY <1>5, AsideKeepsFlag DEF RegisterDuplicate, Abort, database, FlagInv, CommonInv, TypeOK
<1>6. ASSUME NEW r \in Requests, RenameWrite(r) PROVE FlagInv'
  <2>1. value[r] \in Names
    BY <1>6 DEF RenameWrite, FlagInv, CommonInv, LoadedInv, At
  <2>2. displayName' \in [Ids -> Names \union {None}]
    BY <1>6, <2>1 DEF RenameWrite, FlagInv, CommonInv, TypeOK
  <2> QED
    BY <1>6, <2>2, AsideKeepsFlag DEF RenameWrite
<1>7. CASE UNCHANGED vars
  BY <1>7 DEF vars, database, history, FlagInv, CommonInv, TypeOK, LoadedInv, UnusedInv,
              ApartInv, StaleFlagInv, FlagFollowsPassword, At, Existing
<1> QED
  BY <1>1, <1>2, <1>3, <1>4, <1>5, <1>6, <1>7, RegisterKeepsFlag, ChangeKeepsFlag,
     ResetKeepsFlag DEF Next, Refused

\* Where people do not choose a temporary password again and no change overlaps a reset,
\* an account is flagged exactly while a reset's password opens it (set_password and
\* set_temporary_password), although both write the flag only if they loaded the other.
THEOREM AccountsFlagFollowsPassword ==
  ASSUME NewPasswords \subseteq Chosen
  PROVE  Spec => []FlagFollowsPassword
<1>1. Init => FlagInv
  BY AccountsInitially
<1>2. FlagInv /\ [Next]_vars => FlagInv'
  BY FlagStep
<1>3. FlagInv => FlagFollowsPassword
  BY DEF FlagInv
<1> QED
  BY <1>1, <1>2, <1>3, PTL DEF Spec

\* The same of set_temporary_password alone: a temporary password that opens an account
\* need not be changed only where a reset and a change of that account overlapped
\* (AdminService.reset_password beside UserService.change_password).
THEOREM AccountsOnlyRacesUnflag ==
  ASSUME NewPasswords \subseteq Chosen
  PROVE  Spec => [](raced = {} => TemporaryMustBeReplaced)
<1>1. Init => FlagInv
  BY AccountsInitially
<1>2. FlagInv /\ [Next]_vars => FlagInv'
  BY FlagStep
<1>3. FlagInv => (raced = {} => TemporaryMustBeReplaced)
  <2> SUFFICES ASSUME FlagInv, raced = {}, NEW u \in Ids, password[u] \in Temporary
               PROVE  mustChange[u]
    BY DEF TemporaryMustBeReplaced
  <2>1. u \in Existing
    BY NoneAssumption DEF FlagInv, CommonInv, UnusedInv
  <2> QED
    BY <2>1 DEF FlagInv, FlagFollowsPassword
<1> QED
  BY <1>1, <1>2, <1>3, PTL DEF Spec

-----------------------------------------------------------------------------
\* The address, whatever passwords people choose.
AddressInv == CommonInv /\ OneAccountPerAddress

\* A step that writes no address keeps them apart.
LEMMA SameAddresses ==
  ASSUME AddressInv, CommonInv', UNCHANGED email
  PROVE  AddressInv'
  BY DEF AddressInv, OneAccountPerAddress, Existing

\* Every step keeps the addresses apart: only an insertion writes one, and the unique
\* constraint looks at it once more.
LEMMA AddressStep ==
  ASSUME AddressInv, [Next]_vars
  PROVE  AddressInv'
<1>1. ASSUME NEW r \in Requests, NEW a \in Addresses, RegisterCheck(r, a) PROVE AddressInv'
  BY <1>1, Checked, SameAddresses DEF AddressInv, database
<1>2. ASSUME NEW r \in Requests, NEW u \in Ids, NEW v, Load(r, u),
             NEW step \in {"renaming", "changing", "resetting"}, Goes(r, step, v),
             step = "renaming" => v \in Names,
             step = "changing" => v \in NewPasswords,
             step = "resetting" => v \in Temporary,
             raced' \subseteq Ids, generated' \subseteq Temporary
      PROVE  AddressInv'
  <2>1. CommonInv' /\ UNCHANGED email
    BY <1>2, Loads DEF AddressInv, Goes, database
  <2> QED
    BY <2>1, SameAddresses
<1>3. ASSUME NEW r \in Requests, End(r), UNCHANGED <<email, password, mustChange>>,
             displayName' \in [Ids -> Names \union {None}]
      PROVE  AddressInv'
  <2>1. Existing' = Existing /\ UnusedInv'
    BY <1>3 DEF Existing, AddressInv, CommonInv, UnusedInv
  <2>2. CommonInv'
    BY <1>3, <2>1, Ends DEF AddressInv, CommonInv, TypeOK
  <2> QED
    BY <1>3, <2>2, SameAddresses
<1>4. ASSUME NEW r \in Requests, RegisterInsert(r) PROVE AddressInv'
  <2>1. PICK u \in Ids \ Existing, p \in Chosen :
          /\ email' = [email EXCEPT ![u] = value[r]] /\ value[r] \in Addresses
          /\ password' = [password EXCEPT ![u] = p]
          /\ displayName' \in [Ids -> Names \union {None}]
          /\ Existing' = Existing \union {u} /\ UNCHANGED mustChange /\ End(r)
          /\ \A w \in Existing : email[w] # value[r]
    BY <1>4, Inserted DEF AddressInv
  <2>2. /\ email' \in [Ids -> Addresses \union {None}]
        /\ password' \in [Ids -> Passwords \union {None}]
        /\ mustChange' \in [Ids -> BOOLEAN] /\ UnusedInv'
    BY <2>1 DEF AddressInv, CommonInv, TypeOK, UnusedInv, Passwords
  <2>3. CommonInv'
    BY <2>1, <2>2, Ends DEF AddressInv
  <2>4. OneAccountPerAddress'
    BY <2>1 DEF AddressInv, CommonInv, TypeOK, OneAccountPerAddress, Existing
  <2> QED
    BY <2>3, <2>4 DEF AddressInv
<1>5. ASSUME NEW r \in Requests, NEW u \in Ids, NEW n \in Names, RenameLoad(r, u, n)
      PROVE  AddressInv'
  BY <1>5, <1>2 DEF RenameLoad, history, AddressInv, CommonInv, TypeOK
<1>6. ASSUME NEW r \in Requests, NEW u \in Ids, NEW new \in NewPasswords, ChangeLoad(r, u, new)
      PROVE  AddressInv'
  <2>1. raced' \subseteq Ids /\ generated' \subseteq Temporary
    BY <1>6 DEF ChangeLoad, Beside, AddressInv, CommonInv, TypeOK
  <2> QED
    BY <1>2, <1>6, <2>1 DEF ChangeLoad
<1>7. ASSUME NEW r \in Requests, NEW u \in Ids, ResetLoad(r, u) PROVE AddressInv'
  <2>1. PICK p \in Temporary : Goes(r, "resetting", p) /\ generated' = generated \union {p}
    BY <1>7 DEF ResetLoad
  <2>2. raced' \subseteq Ids /\ generated' \subseteq Temporary
    BY <1>7, <2>1 DEF ResetLoad, Beside, AddressInv, CommonInv, TypeOK
  <2> QED
    BY <1>2, <1>7, <2>1, <2>2 DEF ResetLoad
<1>8. ASSUME NEW r \in Requests, RegisterDuplicate(r) \/ Abort(r) PROVE AddressInv'
  BY <1>3, <1>8 DEF RegisterDuplicate, Abort, database, AddressInv, CommonInv, TypeOK
<1>9. ASSUME NEW r \in Requests, RenameWrite(r) PROVE AddressInv'
  <2>1. value[r] \in Names
    BY <1>9 DEF RenameWrite, AddressInv, CommonInv, LoadedInv, At
  <2>2. displayName' \in [Ids -> Names \union {None}]
    BY <1>9, <2>1 DEF RenameWrite, AddressInv, CommonInv, TypeOK
  <2> QED
    BY <1>3, <1>9, <2>2 DEF RenameWrite
<1>10. ASSUME NEW r \in Requests, ChangeWrite(r) \/ ResetWrite(r) PROVE AddressInv'
  <2>1. user[r] \in Ids
    BY <1>10 DEF ChangeWrite, ResetWrite, AddressInv, CommonInv, LoadedInv, At, Existing
  <2>2. PICK f \in BOOLEAN : mustChange' = [mustChange EXCEPT ![user[r]] = f]
    BY <1>10, <2>1 DEF ChangeWrite, ResetWrite, AddressInv, CommonInv, TypeOK
  <2>3. CommonInv' /\ UNCHANGED email
    BY <1>10, <2>2, Written DEF ChangeWrite, ResetWrite, AddressInv
  <2> QED
    BY <2>3, SameAddresses
<1>11. CASE UNCHANGED vars
  BY <1>11 DEF vars, database, history, AddressInv, CommonInv, TypeOK, LoadedInv, UnusedInv,
               OneAccountPerAddress, At, Existing
<1> QED
  BY <1>1, <1>4, <1>5, <1>6, <1>7, <1>8, <1>9, <1>10, <1>11 DEF Next, Refused

\* However many registrations of one address run at a time, one account comes of them.
THEOREM AccountsOnePerAddress == Spec => []OneAccountPerAddress
<1>1. Init => AddressInv
  BY AccountsInitially DEF FlagInv, AddressInv
<1>2. AddressInv /\ [Next]_vars => AddressInv'
  BY AddressStep
<1>3. AddressInv => OneAccountPerAddress
  BY DEF AddressInv
<1> QED
  BY <1>1, <1>2, <1>3, PTL DEF Spec

\* Every variable keeps its type.
THEOREM AccountsTypeOK == Spec => []TypeOK
<1>1. Init => AddressInv
  BY AccountsInitially DEF FlagInv, AddressInv
<1>2. AddressInv /\ [Next]_vars => AddressInv'
  BY AddressStep
<1>3. AddressInv => TypeOK
  BY DEF AddressInv, CommonInv
<1> QED
  BY <1>1, <1>2, <1>3, PTL DEF Spec
=============================================================================
