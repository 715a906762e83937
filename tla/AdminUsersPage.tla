-------------------------- MODULE AdminUsersPage --------------------------
(***************************************************************************)
(* frontend/src/pages/admin/AdminUsersPage.tsx with the hooks and API calls *)
(* behind it: a list of accounts, a suspend and a reset dialog, and requests *)
(* that go on when their dialog is closed.                                  *)
(*                                                                          *)
(* A temporary password is named by the account it opens.                   *)
(***************************************************************************)
CONSTANT Members   \* the accounts listed, the signed-in admin's own left out

VARIABLES isActive,            \* back end: account -> may it log in
          rows,                \* query.data: account -> is_active as listed
          suspendTarget, reasonCode,
          resetTarget, temporaryPassword,
          actionError,
          usersCall,           \* mutation -> its request, or Idle
          closedEarly          \* history: a dialog was closed with its request under way

usersVars == <<isActive, rows, suspendTarget, reasonCode, resetTarget,
               temporaryPassword, actionError, usersCall, closedEarly>>

Nobody == "nobody"
ASSUME NobodyAssumption == Nobody \notin Members

Idle == [user |-> Nobody, reply |-> "none"]
Mutations == {"suspend", "reinstate", "reset"}
IsPending(k) == usersCall[k] # Idle
DialogOpen == suspendTarget # Nobody \/ resetTarget # Nobody

UsersInit ==
    /\ isActive \in [Members -> BOOLEAN]
    /\ rows = isActive
    /\ suspendTarget = Nobody /\ reasonCode = ""
    /\ resetTarget = Nobody /\ temporaryPassword = Nobody
    /\ actionError = FALSE
    /\ usersCall = [k \in Mutations |-> Idle]
    /\ closedEarly = FALSE

-----------------------------------------------------------------------------
\* What the administrator does.  A dialog covers the page behind it.

\* renderActions: what the row of an account offers.
Offered(u) == {"reset", IF rows[u] THEN "suspend" ELSE "reinstate"}

OpenSuspend(u) ==
    /\ ~DialogOpen /\ "suspend" \in Offered(u)
    /\ actionError' = FALSE /\ suspendTarget' = u
    /\ UNCHANGED <<isActive, rows, reasonCode, resetTarget, temporaryPassword,
                   usersCall, closedEarly>>

TypeReason(text) ==
    /\ suspendTarget # Nobody
    /\ reasonCode' = text
    /\ UNCHANGED <<isActive, rows, suspendTarget, resetTarget, temporaryPassword,
                   actionError, usersCall, closedEarly>>

\* Cancel, Escape and the backdrop keep the reason code.
CloseSuspend ==
    /\ suspendTarget # Nobody
    /\ suspendTarget' = Nobody
    /\ closedEarly' = (closedEarly \/ IsPending("suspend"))
    /\ UNCHANGED <<isActive, rows, reasonCode, resetTarget, temporaryPassword,
                   actionError, usersCall>>

OpenReset(u) ==
    /\ ~DialogOpen /\ "reset" \in Offered(u)
    /\ actionError' = FALSE /\ resetTarget' = u
    /\ UNCHANGED <<isActive, rows, suspendTarget, reasonCode, temporaryPassword,
                   usersCall, closedEarly>>

\* Mutant: closing the reset dialog forgets to clear the password.
closeResetModal_KeepsPassword ==
    /\ resetTarget # Nobody
    /\ resetTarget' = Nobody
    /\ closedEarly' = (closedEarly \/ IsPending("reset"))
    /\ UNCHANGED <<isActive, rows, suspendTarget, reasonCode, temporaryPassword,
                   actionError, usersCall>>

closeResetModal ==
    /\ resetTarget # Nobody
    /\ resetTarget' = Nobody /\ temporaryPassword' = Nobody
    /\ closedEarly' = (closedEarly \/ IsPending("reset"))
    /\ UNCHANGED <<isActive, rows, suspendTarget, reasonCode, actionError, usersCall>>

\* mutateAsync.  The button of a mutation that is pending is disabled.
Send(k, u) ==
    /\ ~IsPending(k)
    /\ actionError' = FALSE
    /\ usersCall' = [usersCall EXCEPT ![k] = [user |-> u, reply |-> "none"]]
    /\ UNCHANGED <<isActive, rows, suspendTarget, reasonCode, resetTarget,
                   temporaryPassword, closedEarly>>

handleSuspend == suspendTarget # Nobody /\ reasonCode # "" /\ Send("suspend", suspendTarget)
handleReinstate(u) == ~DialogOpen /\ "reinstate" \in Offered(u) /\ Send("reinstate", u)
handleResetPassword ==
    resetTarget # Nobody /\ temporaryPassword = Nobody /\ Send("reset", resetTarget)

-----------------------------------------------------------------------------
\* The back end: an action on an admin's account or on one that is already in the
\* state asked for is refused, and any request may fail.
ServeUsers(k) ==
    /\ IsPending(k) /\ usersCall[k].reply = "none"
    /\ LET u == usersCall[k].user IN
       \/ /\ k = "reset" \/ isActive[u] = (k = "suspend")
          /\ isActive' = IF k = "reset" THEN isActive
                         ELSE [isActive EXCEPT ![u] = (k = "reinstate")]
          /\ usersCall' = [usersCall EXCEPT ![k].reply = "ok"]
       \/ /\ usersCall' = [usersCall EXCEPT ![k].reply = "error"]
          /\ UNCHANGED isActive
    /\ UNCHANGED <<rows, suspendTarget, reasonCode, resetTarget, temporaryPassword,
                   actionError, closedEarly>>

\* Another administrator.
Elsewhere(u) ==
    /\ isActive' = [isActive EXCEPT ![u] = ~@]
    /\ UNCHANGED <<rows, suspendTarget, reasonCode, resetTarget, temporaryPassword,
                   actionError, usersCall, closedEarly>>

\* The rest of a handler, after its await.  It does not look at what is open now.
Settle(k) ==
    /\ IsPending(k) /\ usersCall[k].reply # "none"
    /\ usersCall' = [usersCall EXCEPT ![k] = Idle]
    /\ IF usersCall[k].reply = "error"
       THEN /\ actionError' = TRUE
            /\ UNCHANGED <<suspendTarget, reasonCode, temporaryPassword>>
       ELSE /\ UNCHANGED actionError
            /\ IF k = "suspend" THEN suspendTarget' = Nobody /\ reasonCode' = ""
               ELSE UNCHANGED <<suspendTarget, reasonCode>>
            /\ temporaryPassword' = IF k = "reset" THEN usersCall[k].user
                                    ELSE temporaryPassword
    /\ UNCHANGED <<isActive, rows, resetTarget, closedEarly>>

\* The list is fetched again: after an action, or when the window gets the focus.
RefetchRows ==
    /\ rows # isActive
    /\ rows' = isActive
    /\ UNCHANGED <<isActive, suspendTarget, reasonCode, resetTarget, temporaryPassword,
                   actionError, usersCall, closedEarly>>

UsersNext ==
    \/ \E u \in Members : OpenSuspend(u) \/ OpenReset(u) \/ handleReinstate(u) \/ Elsewhere(u)
    \/ \E text \in {"", "a reason"} : TypeReason(text)
    \/ CloseSuspend \/ closeResetModal \/ handleSuspend \/ handleResetPassword
    \/ \E k \in Mutations : ServeUsers(k) \/ Settle(k)
    \/ RefetchRows

UsersSpec == UsersInit /\ [][UsersNext]_usersVars

-----------------------------------------------------------------------------
UsersTypeOK ==
    /\ isActive \in [Members -> BOOLEAN] /\ rows \in [Members -> BOOLEAN]
    /\ {suspendTarget, resetTarget, temporaryPassword} \subseteq Members \union {Nobody}
    /\ \A k \in Mutations : IsPending(k) => usersCall[k].user \in Members
    /\ ~(suspendTarget # Nobody /\ resetTarget # Nobody)

(* The dialog tells the administrator to relay the password it shows to the   *)
(* user in its title (AdminUsersPage.tsx:259-268), and api/admin.ts:35 says    *)
(* that it is shown exactly once.                                             *)
PasswordIsTheTargets ==
    temporaryPassword # Nobody /\ resetTarget # Nobody => temporaryPassword = resetTarget

(* As long as no dialog is closed over its own request, the dialog on screen   *)
(* is the one whose answer arrives: a password is shown for the account it     *)
(* opens, and a suspension closes the dialog that asked for it.                *)
AnswersMeetTheirDialog ==
    ~closedEarly =>
        /\ temporaryPassword # Nobody => temporaryPassword = resetTarget
        /\ IsPending("reset") => resetTarget = usersCall["reset"].user
        /\ IsPending("suspend") => suspendTarget = usersCall["suspend"].user

=============================================================================
