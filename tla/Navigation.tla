---------------------------- MODULE Navigation ----------------------------
(***************************************************************************)
(* Which page a browser tab shows: the routes of frontend/src/App.tsx, the  *)
(* guard of ProtectedRoute, LoginPage's way back, the links of Layout, and  *)
(* the navigations of AuthContext, which follow the answers to calls.       *)
(*                                                                          *)
(* ClientSession has the tokens.  Here a session is valid or not, and the   *)
(* point is the forced password change and who navigates last.              *)
(***************************************************************************)

VARIABLES isAdmin,      \* users.role of the account; never changes
          mustChange,   \* back end: users.must_change_password
          signedIn,     \* back end: does the browser hold a valid session
          authState,    \* AuthContext: state.status
          path, from,   \* the location and its state.from, or NoPath
          authCall,     \* the call of a form or of AuthContext: [kind, reply]
          pageCall,     \* a page's own request, the same
          logoutCall,   \* Layout's logout: "none", "asked" or "answered", in any way
          overtaken     \* history: since the tab was loaded and its forced form answered,
                        \* the password was changed behind that form, or a request
                        \* refused before the form's change is still to be told

navVars == <<isAdmin, mustChange, signedIn, authState, path, from, authCall, pageCall,
             logoutCall, overtaken>>
calls == <<authCall, pageCall, logoutCall>>
person == <<isAdmin, mustChange, signedIn>>
place == <<path, from>>

NoPath == "none"
NoCall == [kind |-> "none", reply |-> "none"]
Asked(k) == [kind |-> k, reply |-> "none"]
AdminPaths == {"/admin/users"}
MemberPaths == {"/my-listings", "/profile"} \union AdminPaths
Paths == {"/", "/login", "/register", "/change-password"} \union MemberPaths

\* The forms a page shows, and the session calls that follow.
Forms == {"login", "register", "change", "profile-change", "rename"}
Follows == {"restore", "profile", "profile-home"}
Replies == {"none", "ok", "401", "403", "lost"}

NavInit ==
    /\ isAdmin \in BOOLEAN /\ mustChange \in BOOLEAN /\ signedIn \in BOOLEAN
    /\ authState = "loading"
    /\ path \in Paths /\ from = NoPath
    /\ authCall = Asked("restore") /\ pageCall = NoCall /\ logoutCall = "none"
    /\ overtaken = FALSE

-----------------------------------------------------------------------------
\* Mutant: /change-password is wrapped in ProtectedRoute as well (App.tsx:36-39).
Guarded_Too(p) == p \in MemberPaths \union {"/change-password"}

Guarded(p) == p \in MemberPaths

\* Rendering a guarded page for a visitor who may not see it, or the login page for
\* one who is signed in, leads on.
MustRedirect ==
    \/ Guarded(path) /\ authState \in {"unauthenticated", "password-change-required"}
    \/ path \in AdminPaths /\ authState = "authenticated" /\ ~isAdmin
    \/ path = "/login" /\ authState = "authenticated"

Redirect ==
    /\ MustRedirect
    /\ CASE authState = "unauthenticated" -> path' = "/login" /\ from' = path
         [] authState = "password-change-required" -> path' = "/change-password" /\ from' = NoPath
         [] path = "/login" -> path' = (IF from = NoPath THEN "/" ELSE from) /\ from' = NoPath
         [] OTHER -> path' = "/" /\ from' = NoPath
    /\ UNCHANGED <<person, authState, calls, overtaken>>

\* A link of the header, its folded menu, or a page; or an address typed into a
\* history entry.  Links to members' pages are shown to members, and "List a copy",
\* which is as guarded as they are, to everybody.
Follow(p) ==
    /\ ~MustRedirect /\ p # path
    /\ p \in AdminPaths => authState = "authenticated" /\ isAdmin
    /\ path' = p /\ from' = NoPath
    /\ UNCHANGED <<person, authState, calls, overtaken>>

\* The browser loads the page anew: the location and its state stay, the rest is asked
\* for again, and what was on its way is not heard of.
ReloadTab ==
    /\ ~MustRedirect
    /\ authState' = "loading"
    /\ authCall' = Asked("restore") /\ pageCall' = NoCall /\ logoutCall' = "none"
    /\ overtaken' = FALSE
    /\ UNCHANGED <<person, place>>

-----------------------------------------------------------------------------
\* Each form disables its button while it waits.  One call of the forms and of
\* AuthContext is under way at a time, one page's and one logout beside it: a bound.
Shown(k) ==
    CASE k = "login" -> path = "/login" /\ authState # "authenticated"
      [] k = "register" -> path = "/register"
      [] k = "change" -> path = "/change-password"
      [] k \in {"profile-change", "rename"} -> path = "/profile" /\ authState = "authenticated"

Submit(k) ==
    /\ authCall = NoCall /\ Shown(k)
    /\ authCall' = Asked(k)
    /\ UNCHANGED <<person, authState, place, pageCall, logoutCall, overtaken>>

LoadPage ==
    /\ pageCall = NoCall /\ authState = "authenticated"
    /\ pageCall' = Asked("page")
    /\ UNCHANGED <<person, authState, place, authCall, logoutCall, overtaken>>

\* Its button is never disabled: beside any other call.
Logout ==
    /\ logoutCall = "none" /\ authState = "authenticated"
    /\ logoutCall' = "asked"
    /\ UNCHANGED <<person, authState, place, authCall, pageCall, overtaken>>

\* The back end.  The gate of get_current_user leaves an account whose password must
\* be changed only the change; any call can fail.
Verdicts(k) ==
    IF k \in {"login", "register"} THEN {"ok", "lost"}
    ELSE IF ~signedIn THEN {"401", "lost"}
    ELSE IF mustChange /\ k \notin {"restore", "change", "profile-change"} THEN {"403", "lost"}
    ELSE {"ok", "lost"}

ChangesPassword(k) == k \in {"change", "profile-change"}

ServeAuth ==
    /\ authCall # NoCall /\ authCall.reply = "none"
    /\ LET k == authCall.kind
       IN  \E r \in Verdicts(k), done \in BOOLEAN :
             /\ done => "ok" \in Verdicts(k)
             /\ r = "ok" => done
             /\ authCall' = [authCall EXCEPT !.reply = r]
             /\ signedIn' = (signedIn \/ (done /\ k = "login"))
             /\ mustChange' = (mustChange /\ ~(done /\ ChangesPassword(k)))
             /\ overtaken' = IF k = "change" /\ r = "ok" THEN pageCall.reply = "403"
                             ELSE overtaken \/ (mustChange /\ ~mustChange')
    /\ UNCHANGED <<isAdmin, authState, place, pageCall, logoutCall>>

ServePage ==
    /\ pageCall # NoCall /\ pageCall.reply = "none"
    /\ \E r \in Verdicts("page") : pageCall' = [pageCall EXCEPT !.reply = r]
    /\ UNCHANGED <<person, authState, place, authCall, logoutCall, overtaken>>

ServeLogoutCall ==
    /\ logoutCall = "asked" /\ logoutCall' = "answered"
    /\ \/ UNCHANGED signedIn
       \/ "ok" \in Verdicts("logout") /\ signedIn' = FALSE
    /\ UNCHANGED <<isAdmin, mustChange, authState, place, authCall, pageCall, overtaken>>

\* An administrator resets the password; the session ends by suspension or age; the
\* password is changed in another tab, or by a request that a reload left behind.
Reset ==
    /\ ~mustChange /\ mustChange' = TRUE
    /\ UNCHANGED <<isAdmin, signedIn, authState, place, calls, overtaken>>

SessionEnds ==
    /\ signedIn /\ signedIn' = FALSE
    /\ UNCHANGED <<isAdmin, mustChange, authState, place, calls, overtaken>>

PasswordChangedElsewhere ==
    /\ mustChange /\ mustChange' = FALSE
    /\ overtaken' = TRUE
    /\ UNCHANGED <<isAdmin, signedIn, authState, place, calls>>

-----------------------------------------------------------------------------
NavigateTo(status, p) == authState' = status /\ path' = p /\ from' = NoPath
Stay(status) == authState' = status /\ UNCHANGED place

\* AuthContext's two handlers, which client.ts calls on any answer of theirs.
OnPasswordChangeRequired == NavigateTo("password-change-required", "/change-password")
OnSessionExpired == NavigateTo("unauthenticated", "/login")
Handled(r) ==
    CASE r = "403" -> OnPasswordChangeRequired
      [] r = "401" -> OnSessionExpired
      [] OTHER -> Stay(authState)

\* Mutant: completePasswordChange goes home without asking the back end again.
completePasswordChange_Home ==
    authCall' = NoCall /\ path' = "/" /\ from' = NoPath /\ UNCHANGED authState

\* PasswordChangeForm's onSuccess: load the profile and, whatever it answers, go home.
completePasswordChange ==
    authCall' = Asked("profile-home") /\ UNCHANGED <<authState, place>>

\* loadCurrentUser.
ProfileAnswer ==
    LET status == CASE authCall.reply = "ok" -> "authenticated"
                    [] authCall.reply = "403" -> "password-change-required"
                    [] OTHER -> "unauthenticated"
    IN  /\ authCall' = NoCall
        /\ IF authCall.kind = "profile-home" THEN NavigateTo(status, "/")
           ELSE IF authCall.reply \in {"401", "403"} THEN Handled(authCall.reply)
           ELSE Stay(status)

\* The mount-time restore; when the request itself fails nobody catches it.
RestoreAnswer ==
    CASE authCall.reply = "ok" -> authCall' = Asked("profile") /\ Stay(authState)
      [] authCall.reply = "401" -> authCall' = NoCall /\ Stay("unauthenticated")
      [] OTHER -> authCall' = NoCall /\ Stay(authState)

FormAnswer ==
    CASE authCall.kind = "change" /\ authCall.reply = "ok" -> completePasswordChange
      [] authCall.kind \in {"login", "rename"} /\ authCall.reply = "ok" ->
            authCall' = Asked("profile") /\ Stay(authState)
      [] OTHER -> authCall' = NoCall /\ Handled(authCall.reply)

AuthAnswer ==
    /\ authCall.reply # "none"
    /\ CASE authCall.kind = "restore" -> RestoreAnswer
         [] authCall.kind \in {"profile", "profile-home"} -> ProfileAnswer
         [] OTHER -> FormAnswer
    /\ UNCHANGED <<person, pageCall, logoutCall, overtaken>>

PageAnswer ==
    /\ pageCall.reply # "none"
    /\ pageCall' = NoCall
    /\ Handled(pageCall.reply)
    /\ UNCHANGED <<person, authCall, logoutCall, overtaken>>

\* logout's finally: whatever the answer, if any.
LogoutAnswer ==
    /\ logoutCall = "answered" /\ logoutCall' = "none"
    /\ OnSessionExpired
    /\ UNCHANGED <<person, authCall, pageCall, overtaken>>

NavNext ==
    \/ Redirect \/ ReloadTab \/ LoadPage \/ Logout
    \/ ServeAuth \/ ServePage \/ ServeLogoutCall
    \/ AuthAnswer \/ PageAnswer \/ LogoutAnswer
    \/ Reset \/ SessionEnds \/ PasswordChangedElsewhere
    \/ \E p \in Paths : Follow(p)
    \/ \E k \in Forms : Submit(k)

\* Rendering <Navigate> navigates: the browser does not stop between the two.
NavFairness == WF_navVars(Redirect)

NavSpec == NavInit /\ [][NavNext]_navVars /\ NavFairness

-----------------------------------------------------------------------------
\* Type invariant of AuthContext, the router and the calls under way.
NavTypeOK ==
    /\ {isAdmin, mustChange, signedIn, overtaken} \subseteq BOOLEAN
    /\ authState \in {"loading", "unauthenticated", "password-change-required", "authenticated"}
    /\ path \in Paths /\ from \in Paths \union {NoPath}
    /\ authCall = NoCall \/ authCall \in [kind : Forms \union Follows, reply : Replies]
    /\ pageCall = NoCall \/ pageCall \in [kind : {"page"}, reply : Replies]
    /\ logoutCall \in {"none", "asked", "answered"}

\* The routes never lead in circles: every chain of redirects (ProtectedRoute,
\* LoginPage) comes to a page that is shown, for every state of the session that
\* answers and administrators bring about meanwhile.  App.tsx:36-39 names the loop.
RedirectsEnd == []<>(~MustRedirect)

\* Who has chosen a new password in the forced form is out of it once the answers are
\* in (AuthContext.tsx:143-146).  It holds its user wrongly only after a change behind
\* its back -- the profile's form, which tells nobody, another tab, or a lost answer --
\* or after a page's refusal from before the change that is told after it; and that only
\* until the tab is reloaded or the form is sent and answered again.
ForcedChangeEnds ==
    authState = "password-change-required" /\ authCall = NoCall /\ pageCall = NoCall
        /\ ~mustChange
    => overtaken
=============================================================================
