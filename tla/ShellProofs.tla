---------------------------- MODULE ShellProofs ----------------------------
(***************************************************************************)
(* Theorems about what every page runs in: the router with its guards       *)
(* (Navigation), the query client (QueryCache) and the dialogs (ModalFocus),*)
(* for any number of writes, queries and controls of a dialog.              *)
(*                                                                          *)
(* None of the properties is inductive.  ForcedChangeEnds speaks of calls   *)
(* that have all been answered; NothingHolds says which answers can still   *)
(* be under way once the password is no longer temporary.  OwnWritesShow    *)
(* speaks of what is shown; BehindInv follows an answer that a write made   *)
(* obsolete from the fetch into the cache and until the write's hook runs.  *)
(* That closing a dialog finds its trigger needs that no run of the effect  *)
(* in between has overwritten previouslyFocused, which FocusInv adds.       *)
(***************************************************************************)
EXTENDS Navigation, QueryCache, ModalFocus, TLAPS

\* Navigation: what the calls under way are, and what they can still bring about.

NavCalls == [kind : Forms \union Follows, reply : Replies]
NavPageCalls == [kind : {"page"}, reply : Replies]

NavShape ==
    /\ isAdmin \in BOOLEAN /\ mustChange \in BOOLEAN /\ signedIn \in BOOLEAN
    /\ overtaken \in BOOLEAN
    /\ authState \in {"loading", "unauthenticated", "password-change-required", "authenticated"}
    /\ path \in Paths /\ from \in Paths \union {NoPath}
    /\ authCall = NoCall \/ authCall \in NavCalls
    /\ pageCall = NoCall \/ pageCall \in NavPageCalls
    /\ logoutCall \in {"none", "asked", "answered"}

\* A new password, chosen in the forced form, leaves no refusal on its way, and the
\* forced change lasts only while the calls that end it are under way.
NothingHolds ==
    ~mustChange /\ ~overtaken =>
        /\ authCall.reply # "403" /\ pageCall.reply # "403"
        /\ authState = "password-change-required" =>
              \/ authCall.kind = "change" /\ authCall.reply = "ok"
              \/ authCall.kind = "profile-home"

NavInv == NavShape /\ NothingHolds

AuthStates == {"loading", "unauthenticated", "password-change-required", "authenticated"}

\* What the calls under way look like, whichever of them there are.
LEMMA NavCallFacts ==
    ASSUME NavShape
    PROVE  /\ authCall.kind \in Forms \union Follows \union {"none"} /\ authCall.reply \in Replies
           /\ pageCall.reply \in Replies
           /\ authCall = NoCall \/ authCall \in NavCalls
           /\ authCall.reply # "none" => authCall # NoCall
           /\ pageCall.reply # "none" => pageCall # NoCall
  BY DEF NavShape, NoCall, NavCalls, NavPageCalls, Replies

\* A call that is made is one, and has no answer yet.
LEMMA AskedIsACall ==
    /\ \A k \in Forms \union Follows :
          Asked(k) \in NavCalls /\ Asked(k).kind = k /\ Asked(k).reply = "none"
    /\ NoCall.kind = "none" /\ NoCall.reply = "none"
  BY DEF Asked, NavCalls, Replies, NoCall

\* The gate refuses nobody whose password need not be changed.
LEMMA VerdictsAreReplies ==
    \A k : Verdicts(k) \subseteq Replies /\ (~mustChange => "403" \notin Verdicts(k))
  BY DEF Verdicts, Replies

\* A handler leads to a page of the application, and into the forced change only by a refusal.
LEMMA HandledLeads ==
    ASSUME NavShape, NEW r \in Replies, Handled(r)
    PROVE  /\ authState' \in AuthStates /\ path' \in Paths /\ from' \in Paths \union {NoPath}
           /\ authState' = "password-change-required" => r = "403" \/ authState = authState'
<1>1. authState \in AuthStates /\ path \in Paths /\ from \in Paths \union {NoPath}
  BY DEF NavShape, AuthStates
<1>2. CASE r = "403"
  BY <1>2 DEF Handled, OnPasswordChangeRequired, NavigateTo, AuthStates, Paths
<1>3. CASE r = "401"
  BY <1>3 DEF Handled, OnSessionExpired, NavigateTo, AuthStates, Paths
<1>4. CASE r \notin {"401", "403"}
  BY <1>1, <1>4 DEF Handled, Stay, place
<1> QED
  BY <1>2, <1>3, <1>4

\* What the answer to a call of the session may bring about.
LEMMA AnswerLeads ==
    ASSUME NavShape, AuthAnswer
    PROVE  /\ authState' \in AuthStates /\ path' \in Paths /\ from' \in Paths \union {NoPath}
           /\ authCall' = NoCall \/ authCall' = Asked("profile") \/ authCall' = Asked("profile-home")
           /\ authCall.kind = "change" /\ authCall.reply = "ok" => authCall' = Asked("profile-home")
           /\ authState' = "password-change-required" =>
                 \/ authCall.reply = "403"
                 \/ authState = authState' /\ authCall.kind # "profile-home"
<1>0. /\ authState \in AuthStates /\ path \in Paths /\ from \in Paths \union {NoPath}
      /\ authCall.reply \in Replies /\ authCall.reply # "none"
  BY NavCallFacts DEF NavShape, AuthStates, AuthAnswer
<1>1. CASE authCall.kind = "restore"
  <2>1. RestoreAnswer
    BY <1>1 DEF AuthAnswer
  <2> QED
    BY <1>0, <1>1, <2>1 DEF RestoreAnswer, Stay, place, AuthStates
<1>2. CASE authCall.kind \in {"profile", "profile-home"}
  <2>1. PICK status \in AuthStates \ {"loading"} :
           /\ status = "password-change-required" => authCall.reply = "403"
           /\ authCall' = NoCall
           /\ IF authCall.kind = "profile-home" THEN NavigateTo(status, "/")
              ELSE IF authCall.reply \in {"401", "403"} THEN Handled(authCall.reply)
              ELSE Stay(status)
    <3> DEFINE status == CASE authCall.reply = "ok" -> "authenticated"
                           [] authCall.reply = "403" -> "password-change-required"
                           [] OTHER -> "unauthenticated"
    <3>1. ProfileAnswer
      BY <1>2 DEF AuthAnswer
    <3>2. /\ status \in AuthStates \ {"loading"}
          /\ status = "password-change-required" => authCall.reply = "403"
      BY DEF AuthStates
    <3>3. /\ authCall' = NoCall
          /\ IF authCall.kind = "profile-home" THEN NavigateTo(status, "/")
             ELSE IF authCall.reply \in {"401", "403"} THEN Handled(authCall.reply)
             ELSE Stay(status)
      BY <3>1 DEF ProfileAnswer
    <3> HIDE DEF status
    <3> QED
      BY <3>2, <3>3
  <2>2. CASE authCall.kind = "profile-home"
    BY <1>0, <2>1, <2>2 DEF NavigateTo, AuthStates, Paths
  <2>3. CASE authCall.kind = "profile" /\ authCall.reply \in {"401", "403"}
    BY <1>0, <2>1, <2>3, HandledLeads
  <2>4. CASE authCall.kind = "profile" /\ authCall.reply \notin {"401", "403"}
    BY <1>0, <2>1, <2>4 DEF Stay, place, AuthStates
  <2> QED
    BY <1>2, <2>2, <2>3, <2>4
<1>3. CASE authCall.kind \notin {"restore", "profile", "profile-home"}
  <2>1. FormAnswer
    BY <1>3 DEF AuthAnswer
  <2>2. CASE authCall.kind = "change" /\ authCall.reply = "ok"
    BY <1>0, <2>1, <2>2 DEF FormAnswer, completePasswordChange, place
  <2>3. CASE authCall.kind \in {"login", "rename"} /\ authCall.reply = "ok"
    BY <1>0, <2>1, <2>3 DEF FormAnswer, Stay, place
  <2>4. CASE /\ ~(authCall.kind = "change" /\ authCall.reply = "ok")
             /\ ~(authCall.kind \in {"login", "rename"} /\ authCall.reply = "ok")
    <3>1. authCall' = NoCall /\ Handled(authCall.reply)
      BY <2>1, <2>4 DEF FormAnswer
    <3> QED
      BY <1>0, <1>3, <2>4, <3>1, HandledLeads
  <2> QED
    BY <2>2, <2>3, <2>4
<1> QED
  BY <1>1, <1>2, <1>3

\* A browser that opens the application asks who is signed in and knows nothing.
LEMMA NavInitially == NavInit => NavInv
<1> SUFFICES ASSUME NavInit PROVE NavInv
  OBVIOUS
<1>1. NavShape
  BY DEF NavInit, NavShape, Asked, NoCall, NavCalls, Follows, Replies
<1>2. NothingHolds
  BY DEF NavInit, NothingHolds, Asked, NoCall
<1> QED
  BY <1>1, <1>2 DEF NavInv

\* Every step of the router, AuthContext and the network keeps the invariant.
LEMMA NavStep == NavInv /\ [NavNext]_navVars => NavInv'
<1> SUFFICES ASSUME NavInv, [NavNext]_navVars PROVE NavInv'
  OBVIOUS
<1>1. CASE Redirect
  <2>1. /\ UNCHANGED <<isAdmin, mustChange, signedIn, authState, authCall, pageCall,
                        logoutCall, overtaken>>
        /\ NavShape /\ NothingHolds /\ path \in Paths
    BY <1>1 DEF Redirect, person, calls, NavInv, NavShape
  <2>2. path' \in Paths /\ from' \in Paths \union {NoPath}
    <3>0. path = "/login" => authState = "authenticated"
      BY <1>1 DEF Redirect, MustRedirect, Guarded, MemberPaths, AdminPaths
    <3>1. CASE authState = "unauthenticated"
      <4>1. path' = "/login" /\ from' = path
        BY <1>1, <3>0, <3>1 DEF Redirect
      <4> QED
        BY <2>1, <4>1 DEF Paths
    <3>2. CASE authState = "password-change-required"
      <4>1. path' = "/change-password" /\ from' = NoPath
        BY <1>1, <3>0, <3>2 DEF Redirect
      <4> QED
        BY <4>1 DEF Paths
    <3>3. CASE authState \notin {"unauthenticated", "password-change-required"} /\ path = "/login"
      <4>1. path' = (IF from = NoPath THEN "/" ELSE from) /\ from' = NoPath
        BY <1>1, <3>3 DEF Redirect
      <4> QED
        BY <2>1, <4>1 DEF NavShape, Paths
    <3>4. CASE authState \notin {"unauthenticated", "password-change-required"} /\ path # "/login"
      <4>1. path' = "/" /\ from' = NoPath
        BY <1>1, <3>4 DEF Redirect
      <4> QED
        BY <4>1 DEF Paths
    <3> QED
      BY <3>1, <3>2, <3>3, <3>4
  <2>3. NavShape'
    BY <2>1, <2>2 DEF NavShape, NoCall, NavCalls, NavPageCalls
  <2>4. NothingHolds'
    BY <2>1 DEF NothingHolds
  <2> QED
    BY <2>3, <2>4 DEF NavInv
<1>2. CASE LoadPage
  <2>1. NavShape'
    BY <1>2 DEF LoadPage, NavInv, person, place, NavShape, Asked, NoCall, NavCalls,
           NavPageCalls, Forms, Follows, Replies
  <2>2. NothingHolds'
    BY <1>2 DEF LoadPage, NavInv, person, place, NavShape, NothingHolds, Asked, NoCall
  <2> QED
    BY <2>1, <2>2 DEF NavInv
<1>3. CASE ServeAuth
  <2>1. /\ NavShape /\ NothingHolds /\ authCall \in NavCalls
        /\ UNCHANGED <<isAdmin, authState, path, from, pageCall, logoutCall>>
    BY <1>3 DEF ServeAuth, NavInv, NavShape, place
  <2>2. PICK r \in Verdicts(authCall.kind), done \in BOOLEAN :
           /\ done => "ok" \in Verdicts(authCall.kind)
           /\ r = "ok" => done
           /\ authCall' = [authCall EXCEPT !.reply = r]
           /\ signedIn' = (signedIn \/ (done /\ authCall.kind = "login"))
           /\ mustChange' = (mustChange /\ ~(done /\ ChangesPassword(authCall.kind)))
           /\ overtaken' = IF authCall.kind = "change" /\ r = "ok"
                           THEN pageCall.reply = "403"
                           ELSE overtaken \/ (mustChange /\ ~mustChange')
    BY <1>3 DEF ServeAuth
  <2>3. r \in Replies /\ (~mustChange => r # "403")
    BY VerdictsAreReplies
  <2>4. authCall' \in NavCalls /\ authCall'.kind = authCall.kind /\ authCall'.reply = r
    BY <2>1, <2>2, <2>3 DEF NavCalls
  <2>5. mustChange' \in BOOLEAN /\ signedIn' \in BOOLEAN /\ overtaken' \in BOOLEAN
    BY <2>1, <2>2 DEF NavShape
  <2>6. NavShape'
    BY <2>1, <2>4, <2>5 DEF NavShape
  <2>7. ASSUME ~mustChange', ~overtaken'
        PROVE  /\ authCall'.reply # "403" /\ pageCall'.reply # "403"
               /\ authState' = "password-change-required" =>
                     \/ authCall'.kind = "change" /\ authCall'.reply = "ok"
                     \/ authCall'.kind = "profile-home"
    <3>1. CASE authCall.kind = "change" /\ r = "ok"
      <4>1. pageCall.reply # "403"
        BY <2>2, <2>7, <3>1
      <4> QED
        BY <2>1, <2>4, <3>1, <4>1
    <3>2. CASE ~(authCall.kind = "change" /\ r = "ok")
      <4>1. ~overtaken /\ ~mustChange
        BY <2>1, <2>2, <2>7, <3>2 DEF NavShape
      <4>2. authCall.reply = "none" /\ r # "403"
        BY <1>3, <2>3, <4>1 DEF ServeAuth
      <4>3. /\ pageCall.reply # "403"
            /\ authState = "password-change-required" => authCall.kind = "profile-home"
        BY <2>1, <4>1, <4>2 DEF NothingHolds
      <4> QED
        BY <2>1, <2>4, <4>2, <4>3
    <3> QED
      BY <3>1, <3>2
  <2>8. NothingHolds'
    BY <2>7 DEF NothingHolds
  <2> QED
    BY <2>6, <2>8 DEF NavInv
<1>4. CASE ServePage
  <2>1. /\ NavShape /\ NothingHolds /\ pageCall \in NavPageCalls
        /\ UNCHANGED <<isAdmin, mustChange, signedIn, authState, path, from, authCall,
                        logoutCall, overtaken>>
    BY <1>4 DEF ServePage, NavInv, NavShape, person, place
  <2>2. PICK r \in Verdicts("page") : pageCall' = [pageCall EXCEPT !.reply = r]
    BY <1>4 DEF ServePage
  <2>3. r \in Replies /\ (~mustChange => r # "403")
    BY VerdictsAreReplies
  <2>4. pageCall' \in NavPageCalls /\ pageCall'.reply = r
    BY <2>1, <2>2, <2>3 DEF NavPageCalls
  <2>5. NavShape'
    BY <2>1, <2>4 DEF NavShape, NoCall, NavCalls
  <2>6. NothingHolds'
    BY <2>1, <2>3, <2>4 DEF NothingHolds
  <2> QED
    BY <2>5, <2>6 DEF NavInv
<1>5. CASE AuthAnswer
  <2>1. /\ NavShape /\ NothingHolds
        /\ UNCHANGED <<isAdmin, mustChange, signedIn, pageCall, logoutCall, overtaken>>
    BY <1>5 DEF AuthAnswer, NavInv, person
  <2>2. /\ authState' \in AuthStates /\ path' \in Paths /\ from' \in Paths \union {NoPath}
        /\ authCall' = NoCall \/ authCall' = Asked("profile") \/ authCall' = Asked("profile-home")
        /\ authCall.kind = "change" /\ authCall.reply = "ok" => authCall' = Asked("profile-home")
        /\ authState' = "password-change-required" =>
              \/ authCall.reply = "403"
              \/ authState = authState' /\ authCall.kind # "profile-home"
    BY <1>5, <2>1, AnswerLeads
  <2>3. /\ authCall' = NoCall \/ authCall' \in NavCalls
        /\ authCall'.reply = "none"
        /\ authCall' = Asked("profile-home") => authCall'.kind = "profile-home"
    <3>1. "profile" \in Forms \union Follows /\ "profile-home" \in Forms \union Follows
      BY DEF Follows
    <3> QED
      BY <2>2, <3>1, AskedIsACall
  <2>4. NavShape'
    BY <2>1, <2>2, <2>3 DEF NavShape, AuthStates
  <2>5. NothingHolds'
    BY <2>1, <2>2, <2>3 DEF NothingHolds
  <2> QED
    BY <2>4, <2>5 DEF NavInv
<1>6. CASE PageAnswer
  <2>1. /\ NavShape /\ NothingHolds /\ pageCall' = NoCall /\ Handled(pageCall.reply)
        /\ UNCHANGED <<isAdmin, mustChange, signedIn, authCall, logoutCall, overtaken>>
    BY <1>6 DEF PageAnswer, NavInv, person
  <2>2. /\ authState' \in AuthStates /\ path' \in Paths /\ from' \in Paths \union {NoPath}
        /\ authState' = "password-change-required" => pageCall.reply = "403" \/ authState = authState'
    BY <2>1, NavCallFacts, HandledLeads
  <2>3. NavShape'
    BY <2>1, <2>2 DEF NavShape, AuthStates
  <2>4. NothingHolds'
    BY <2>1, <2>2, AskedIsACall DEF NothingHolds
  <2> QED
    BY <2>3, <2>4 DEF NavInv
<1>7. CASE Reset
  <2>1. NavShape'
    BY <1>7 DEF Reset, NavInv, calls, place, NavShape
  <2>2. NothingHolds'
    BY <1>7 DEF Reset, NavInv, NothingHolds
  <2> QED
    BY <2>1, <2>2 DEF NavInv
<1>8. CASE SessionEnds
  <2>1. NavShape'
    BY <1>8 DEF SessionEnds, NavInv, calls, place, NavShape
  <2>2. NothingHolds'
    BY <1>8 DEF SessionEnds, NavInv, calls, NothingHolds
  <2> QED
    BY <2>1, <2>2 DEF NavInv
<1>9. ASSUME NEW p \in Paths, Follow(p) PROVE NavInv'
  <2>1. NavShape'
    BY <1>9 DEF Follow, NavInv, person, calls, NavShape
  <2>2. NothingHolds'
    BY <1>9 DEF Follow, NavInv, person, calls, NothingHolds
  <2> QED
    BY <2>1, <2>2 DEF NavInv
<1>10. ASSUME NEW k \in Forms, Submit(k) PROVE NavInv'
  <2>1. NavShape'
    BY <1>10 DEF Submit, NavInv, person, place, NavShape, Asked, NoCall, NavCalls,
           NavPageCalls, Forms, Follows, Replies
  <2>2. NothingHolds'
    BY <1>10 DEF Submit, NavInv, person, place, NavShape, NothingHolds, Asked, NoCall
  <2> QED
    BY <2>1, <2>2 DEF NavInv
<1>11. CASE UNCHANGED navVars
  <2>1. NavShape'
    BY <1>11 DEF navVars, NavInv, person, place, NavShape, Asked, NoCall, NavCalls,
           NavPageCalls, Forms, Follows, Replies
  <2>2. NothingHolds'
    BY <1>11 DEF navVars, NavInv, person, place, NavShape, NothingHolds, Asked, NoCall
  <2> QED
    BY <2>1, <2>2 DEF NavInv
<1>12. CASE ReloadTab
  <2>1. authCall' \in NavCalls /\ authCall'.reply = "none" /\ pageCall'.reply = "none"
    BY <1>12, AskedIsACall DEF ReloadTab, Follows
  <2>2. NavShape'
    BY <1>12, <2>1 DEF ReloadTab, NavInv, person, place, NavShape
  <2>3. NothingHolds'
    BY <1>12, <2>1 DEF ReloadTab, NothingHolds
  <2> QED
    BY <2>2, <2>3 DEF NavInv
<1>13. CASE Logout
  <2>1. NavShape'
    BY <1>13 DEF Logout, NavInv, person, place, NavShape
  <2>2. NothingHolds'
    BY <1>13 DEF Logout, NavInv, person, NothingHolds
  <2> QED
    BY <2>1, <2>2 DEF NavInv
<1>14. CASE ServeLogoutCall
  <2>1. NavShape'
    BY <1>14 DEF ServeLogoutCall, NavInv, place, NavShape
  <2>2. NothingHolds'
    BY <1>14 DEF ServeLogoutCall, NavInv, NothingHolds
  <2> QED
    BY <2>1, <2>2 DEF NavInv
<1>15. CASE LogoutAnswer
  <2>1. NavShape'
    BY <1>15 DEF LogoutAnswer, OnSessionExpired, NavigateTo, NavInv, person, NavShape, Paths
  <2>2. NothingHolds'
    BY <1>15 DEF LogoutAnswer, OnSessionExpired, NavigateTo, NavInv, person, NothingHolds
  <2> QED
    BY <2>1, <2>2 DEF NavInv
<1>16. CASE PasswordChangedElsewhere
  <2>1. NavShape'
    BY <1>16 DEF PasswordChangedElsewhere, NavInv, calls, place, NavShape
  <2>2. NothingHolds'
    BY <1>16 DEF PasswordChangedElsewhere, NothingHolds
  <2> QED
    BY <2>1, <2>2 DEF NavInv
<1> QED
  BY <1>1, <1>2, <1>3, <1>4, <1>5, <1>6, <1>7, <1>8, <1>9, <1>10, <1>11, <1>12, <1>13, <1>14,
     <1>15, <1>16 DEF NavNext

\* What the invariant says of the forced change and of the types.
LEMMA NavGives == NavInv => NavTypeOK /\ ForcedChangeEnds
<1> SUFFICES ASSUME NavInv PROVE NavTypeOK /\ ForcedChangeEnds
  OBVIOUS
<1>1. NavTypeOK
  BY DEF NavInv, NavShape, NavTypeOK, NavCalls, NavPageCalls
<1>2. ForcedChangeEnds
  BY AskedIsACall DEF NavInv, NothingHolds, ForcedChangeEnds
<1> QED
  BY <1>1, <1>2

\* The inductive invariant of the router, the guards and the session's calls.
THEOREM NavInvariant == NavSpec => []NavInv
<1>1. NavInit => NavInv
  BY NavInitially
<1>2. NavInv /\ [NavNext]_navVars => NavInv'
  BY NavStep
<1> QED
  BY <1>1, <1>2, PTL DEF NavSpec

\* Once every answer is in, the forced change holds nobody whose password has been
\* changed, except after a change behind the forced form's back or a refusal from before
\* the change that is told after it; and a reload, or an answer to the form that no such
\* refusal follows, ends these exceptions too.
THEOREM NavForcedChangeEnds == NavSpec => []ForcedChangeEnds
<1>1. NavInv => ForcedChangeEnds
  BY NavGives
<1> QED
  BY <1>1, NavInvariant, PTL
-----------------------------------------------------------------------------
\* QueryCache: answers that a write made obsolete.

CacheShape ==
    /\ CacheTypeOK
    /\ isStale \in [Queries -> BOOLEAN]
    /\ written \in BOOLEAN /\ answerDropped \in BOOLEAN
    /\ written => mutation # "none"

\* Why an answer may be behind and unmarked: one of the named exceptions, or the write
\* is committed and its hook, still to run, will mark it.
Excused(q) ==
    \/ q \in crossed \/ q \in uncovered \/ answerDropped
    \/ written /\ q \in Invalidates(mutation)

BehindInv ==
    \A q \in Queries :
        /\ data[q] = "behind" => isStale[q] \/ Excused(q)
        /\ fetching[q] = "behind" => Excused(q)

CacheInv == CacheShape /\ BehindInv

\* Every answer that a write changes is named by its hook or left to age.
LEMMA ChangesAreNamed == \A m : Changes(m) \subseteq Invalidates(m) \union LeftToAge(m)
  BY DEF Changes, Invalidates, LeftToAge, ListQueries

\* The cache starts empty.
LEMMA CacheInitially == CacheInit => CacheInv
  BY DEF CacheInit, CacheInv, CacheShape, CacheTypeOK, BehindInv

\* Every step of the query client and of a mutation keeps the invariant.
LEMMA CacheStep == CacheInv /\ [CacheNext]_cacheVars => CacheInv'
<1> SUFFICES ASSUME CacheInv, [CacheNext]_cacheVars PROVE CacheInv'
  OBVIOUS
<1>0. /\ CacheShape /\ BehindInv
      /\ mounted \subseteq Queries
      /\ data \in [Queries -> {"none", "current", "behind"}]
      /\ fetching \in [Queries -> {"idle", "asked", "current", "behind"}]
      /\ isStale \in [Queries -> BOOLEAN]
      /\ mutation \in WriteKinds \union {"none"} /\ written \in BOOLEAN
  BY DEF CacheInv, CacheShape, CacheTypeOK
<1>1. ASSUME NEW q \in Queries, MountQuery(q) PROVE CacheInv'
  <2>1. CacheShape'
    BY <1>0, <1>1 DEF MountQuery, CacheShape, CacheTypeOK
  <2>2. \A p \in Queries : fetching'[p] = "behind" => fetching[p] = "behind"
    BY <1>0, <1>1 DEF MountQuery
  <2>3. BehindInv'
    BY <1>0, <1>1, <2>2 DEF MountQuery, BehindInv, Excused
  <2> QED
    BY <2>1, <2>3 DEF CacheInv
<1>2. ASSUME NEW q \in Queries, UnmountQuery(q) PROVE CacheInv'
  <2>1. CacheShape'
    BY <1>0, <1>2 DEF UnmountQuery, CacheShape, CacheTypeOK
  <2>2. BehindInv'
    BY <1>0, <1>2 DEF UnmountQuery, BehindInv, Excused
  <2> QED
    BY <2>1, <2>2 DEF CacheInv
<1>3. ASSUME NEW q \in Queries, Refocus(q) PROVE CacheInv'
  <2>1. CacheShape'
    BY <1>0, <1>3 DEF Refocus, CacheShape, CacheTypeOK
  <2>2. \A p \in Queries : fetching'[p] = "behind" => fetching[p] = "behind"
    BY <1>0, <1>3 DEF Refocus
  <2>3. BehindInv'
    BY <1>0, <1>3, <2>2 DEF Refocus, BehindInv, Excused
  <2> QED
    BY <2>1, <2>3 DEF CacheInv
<1>4. ASSUME NEW q \in Queries, Read(q) PROVE CacheInv'
  <2>1. CacheShape'
    BY <1>0, <1>4 DEF Read, CacheShape, CacheTypeOK
  <2>2. \A p \in Queries : fetching'[p] = "behind" => fetching[p] = "behind"
    BY <1>0, <1>4 DEF Read
  <2>3. BehindInv'
    BY <1>0, <1>4, <2>2 DEF Read, BehindInv, Excused
  <2> QED
    BY <2>1, <2>3 DEF CacheInv
<1>5. ASSUME NEW q \in Queries, Receive(q) PROVE CacheInv'
  <2>1. CacheShape'
    BY <1>0, <1>5 DEF Receive, CacheShape, CacheTypeOK
  <2>2. /\ UNCHANGED <<mutation, written, answerDropped>>
        /\ \A p \in Queries : fetching'[p] = IF p = q THEN "idle" ELSE fetching[p]
        /\ \A p \in Queries \ {q} : p \in crossed' <=> p \in crossed
        /\ \A p \in Queries \ {q} : p \in uncovered' <=> p \in uncovered
        /\ \A p \in Queries \ {q} : data'[p] = data[p] /\ isStale'[p] = isStale[p]
    BY <1>0, <1>5 DEF Receive
  <2>3. ASSUME data'[q] = "behind" PROVE isStale'[q] \/ Excused(q)'
    <3>1. CASE UNCHANGED <<data, isStale, crossed, uncovered>>
      BY <1>0, <2>2, <2>3, <3>1 DEF BehindInv, Excused
    <3>2. CASE data' = [data EXCEPT ![q] = fetching[q]]
      <4>1. fetching[q] = "behind"
        BY <1>0, <2>3, <3>2
      <4>2. UNCHANGED <<crossed, uncovered>>
        BY <1>5, <4>1 DEF Receive
      <4> QED
        BY <1>0, <2>2, <4>1, <4>2 DEF BehindInv, Excused
    <3> QED
      BY <1>5, <3>1, <3>2 DEF Receive
  <2>4. BehindInv'
    BY <1>0, <2>2, <2>3 DEF BehindInv, Excused
  <2> QED
    BY <2>1, <2>4 DEF CacheInv
<1>6. ASSUME NEW m \in WriteKinds, Write(m) PROVE CacheInv'
  <2>1. CacheShape'
    BY <1>0, <1>6, WriteKindsAssumption DEF Write, CacheShape, CacheTypeOK
  <2>2. BehindInv'
    BY <1>0, <1>6 DEF Write, CacheShape, BehindInv, Excused
  <2> QED
    BY <2>1, <2>2 DEF CacheInv
<1>7. CASE Commit
  <2>1. CacheShape'
    BY <1>0, <1>7 DEF Commit, Behind, CacheShape, CacheTypeOK
  <2>2. ASSUME NEW q \in Queries, data'[q] = "behind" \/ fetching'[q] = "behind"
        PROVE  (data'[q] = data[q] /\ fetching'[q] = fetching[q]) \/ q \in Changes(mutation)
    BY <1>0, <1>7 DEF Commit, Behind
  <2>3. ASSUME NEW q \in Queries, q \in Changes(mutation) PROVE Excused(q)'
    BY <1>7, <2>3, ChangesAreNamed DEF Commit, Excused
  <2>4. ASSUME NEW q \in Queries, Excused(q) PROVE Excused(q)'
    BY <1>7, <2>4 DEF Commit, Excused
  <2>5. BehindInv'
    BY <1>0, <1>7, <2>2, <2>3, <2>4 DEF Commit, BehindInv
  <2> QED
    BY <2>1, <2>5 DEF CacheInv
<1>8. CASE Succeed
  <2> DEFINE marked == Invalidates(mutation) \intersect Queries
             Restarts(q) == q \in marked \intersect mounted
                              /\ (fetching[q] = "idle" \/ data[q] # "none")
  <2>1. CacheShape'
    BY <1>0, <1>8 DEF Succeed, CacheShape, CacheTypeOK
  <2>2. /\ UNCHANGED <<data, uncovered, answerDropped>> /\ written' = FALSE
        /\ \A q \in Queries : isStale'[q] = (isStale[q] \/ q \in marked)
        /\ \A q \in Queries : fetching'[q] = IF Restarts(q) THEN "asked" ELSE fetching[q]
        /\ crossed' = crossed \union {q \in marked : ~Restarts(q) /\ fetching[q] = "behind"}
    BY <1>8 DEF Succeed
  <2>3. ASSUME NEW q \in Queries, fetching'[q] = "behind" PROVE Excused(q)'
    BY <1>0, <2>2, <2>3 DEF BehindInv, Excused
  <2>4. ASSUME NEW q \in Queries, data'[q] = "behind" PROVE isStale'[q] \/ Excused(q)'
    BY <1>0, <2>2, <2>4 DEF BehindInv, Excused
  <2>5. BehindInv'
    BY <2>3, <2>4 DEF BehindInv
  <2> QED
    BY <2>1, <2>5 DEF CacheInv
<1>9. CASE Fail
  <2>1. CacheShape'
    BY <1>0, <1>9 DEF Fail, CacheShape, CacheTypeOK
  <2>2. BehindInv'
    BY <1>0, <1>9 DEF Fail, BehindInv, Excused
  <2> QED
    BY <2>1, <2>2 DEF CacheInv
<1>10. CASE UNCHANGED cacheVars
  <2>1. CacheShape'
    BY <1>0, <1>10 DEF cacheVars, CacheShape, CacheTypeOK
  <2>2. BehindInv'
    BY <1>0, <1>10 DEF cacheVars, BehindInv, Excused
  <2> QED
    BY <2>1, <2>2 DEF CacheInv
<1> QED
  BY <1>1, <1>2, <1>3, <1>4, <1>5, <1>6, <1>7, <1>8, <1>9, <1>10 DEF CacheNext

\* What the invariant says of the answers that the cache shows.
LEMMA CacheGives == CacheInv => CacheTypeOK /\ OwnWritesShow
  BY DEF CacheInv, CacheShape, BehindInv, Excused, OwnWritesShow

\* The inductive invariant of the query client and its mutations.
THEOREM CacheInvariant == CacheSpec => []CacheInv
<1>1. CacheInit => CacheInv
  BY CacheInitially
<1>2. CacheInv /\ [CacheNext]_cacheVars => CacheInv'
  BY CacheStep
<1> QED
  BY <1>1, <1>2, PTL DEF CacheSpec

\* After a write of the user's own every query that shows what it changed is marked stale or
\* is fetched again, for all queries and kinds of write of the hooks: an obsolete answer
\* stays unmarked only if its fetch crossed the write, the hook leaves it to age, or the
\* write's answer was lost.
THEOREM CacheOwnWritesShow == CacheSpec => []OwnWritesShow
<1>1. CacheInv => OwnWritesShow
  BY CacheGives
<1> QED
  BY <1>1, CacheInvariant, PTL
-----------------------------------------------------------------------------
\* ModalFocus: where the focus is while a dialog is open, and after.

\* While the dialog is open and its trigger there, the ref remembers the trigger.
Remembered == modalOpen /\ triggerThere => previouslyFocused = Trigger

FocusInv ==
    /\ FocusTypeOK
    /\ modalOpen \in BOOLEAN /\ triggerThere \in BOOLEAN
    /\ FocusTrapped /\ FocusReturns /\ Remembered

\* The places that the properties name are elements of the page.
LEMMA PlacesExist == {Trigger, Page, Panel, Body} \subseteq Elements
<1> USE DEF Trigger, Page, Panel, Body, Elements
<1>1. Trigger \in Elements
  BY SomeControl
<1>2. Page \in Elements
  BY SomeControl
<1>3. Panel \in Elements
  BY SomeControl
<1>4. Body \in Elements
  BY SomeControl
<1> QED
  BY <1>1, <1>2, <1>3, <1>4

\* The focus starts on the control that opens the dialog.
LEMMA FocusInitially == FocusInit => FocusInv
<1> SUFFICES ASSUME FocusInit PROVE FocusInv
  OBVIOUS
<1> USE DEF Trigger, Page, Panel, Body, Elements
<1>1. FocusTypeOK
  BY SomeControl, PlacesExist DEF FocusInit, FocusTypeOK
<1>2. modalOpen = FALSE /\ triggerThere = TRUE /\ FocusReturns
  BY DEF FocusInit, FocusReturns
<1> QED
  BY <1>1, <1>2 DEF FocusInv, FocusTrapped, Remembered

\* Running the effect again keeps a trigger that is still there.
LEMMA EffectKeepsTrigger ==
  ASSUME FocusInv, modalOpen, RunEffectAgain
  PROVE  /\ activeElement' = 1 /\ 1 \in 1..Controls
         /\ previouslyFocused' \in Elements
         /\ triggerThere => previouslyFocused' = Trigger
  BY SomeControl DEF FocusInv, FocusTypeOK, Remembered, RunEffectAgain, CanFocus,
                     Trigger, Page, Panel, Body, Elements

\* Every step keeps the invariant: one case for each action.
LEMMA FocusStep == FocusInv /\ [FocusNext]_focusVars => FocusInv'
<1> SUFFICES ASSUME FocusInv, [FocusNext]_focusVars PROVE FocusInv'
  OBVIOUS
<1> USE SomeControl DEF FocusInv, FocusTypeOK, FocusTrapped, FocusReturns, Remembered,
       Trigger, Page, Panel, Body, Elements
<1>1. CASE OpenModal
  BY <1>1 DEF OpenModal
<1>2. CASE Type
  <2>1. modalOpen /\ RunEffectAgain /\ typed' \in 1..Controls
    BY <1>2 DEF Type
  <2> QED
    BY <1>2, <2>1, EffectKeepsTrigger DEF Type
<1>3. CASE RenderAgain
  BY <1>3, EffectKeepsTrigger DEF RenderAgain
<1>4. CASE ShiftTab
  BY <1>4 DEF ShiftTab
<1>5. CASE Tab
  BY <1>5 DEF Tab
<1>6. CASE TabFromElsewhere
  BY <1>6 DEF TabFromElsewhere
<1>7. CASE LoseControl
  BY <1>7 DEF LoseControl
<1>8. CASE TriggerGoes
  <2>1. FocusTypeOK'
    BY <1>8, PlacesExist DEF TriggerGoes
  <2>2. (modalOpen \in BOOLEAN /\ triggerThere \in BOOLEAN)'
    BY <1>8 DEF TriggerGoes
  <2>3. (FocusTrapped /\ FocusReturns /\ Remembered)'
    BY <1>8 DEF TriggerGoes
  <2> QED
    BY <2>1, <2>2, <2>3
<1>9. CASE CloseModal
  <2>1. FocusTypeOK'
    BY <1>9, PlacesExist DEF CloseModal, CanFocus
  <2>2. (modalOpen \in BOOLEAN /\ triggerThere \in BOOLEAN)'
    BY <1>9 DEF CloseModal
  <2>3. (FocusTrapped /\ FocusReturns /\ Remembered)'
    BY <1>9 DEF CloseModal, CanFocus
  <2> QED
    BY <2>1, <2>2, <2>3
<1>10. CASE UNCHANGED focusVars
  BY <1>10 DEF focusVars
<1> QED
  BY <1>1, <1>2, <1>3, <1>4, <1>5, <1>6, <1>7, <1>8, <1>9, <1>10 DEF FocusNext

\* The inductive invariant of Modal's effect and key handler.
THEOREM FocusInvariant == FocusSpec => []FocusInv
<1>1. FocusInit => FocusInv
  BY FocusInitially
<1>2. FocusInv /\ [FocusNext]_focusVars => FocusInv'
  BY FocusStep
<1> QED
  BY <1>1, <1>2, PTL DEF FocusSpec

\* Tab and Shift+Tab never leave an open dialog's controls, however many there are;
\* only the mouse or a control that is disabled takes the focus out of them.
THEOREM ModalFocusTrapped == FocusSpec => []FocusTrapped
<1>1. FocusInv => FocusTrapped
  BY DEF FocusInv
<1> QED
  BY <1>1, FocusInvariant, PTL

\* However often the effect runs while the dialog is open, closing it gives the focus
\* back to the control that opened it.
THEOREM ModalFocusReturns == FocusSpec => []FocusReturns
<1>1. FocusInv => FocusReturns
  BY DEF FocusInv
<1> QED
  BY <1>1, FocusInvariant, PTL

\* The field that is typed in is the first control of its dialog.
FieldComesFirst == typed \in {0, 1}

\* The effect focuses the first control again, which is the field.
LEMMA TypingStep ==
  ASSUME TypingKeepsFocus, FieldComesFirst, FieldComesFirst', [FocusNext]_focusVars
  PROVE  TypingKeepsFocus'
<1> USE SomeControl DEF TypingKeepsFocus, FieldComesFirst, Trigger, Page, Panel, Body
<1>1. CASE OpenModal \/ ShiftTab \/ Tab \/ LoseControl \/ CloseModal
  BY <1>1 DEF OpenModal, ShiftTab, Tab, LoseControl, CloseModal
<1>2. CASE Type \/ RenderAgain
  BY <1>2 DEF Type, RenderAgain, RunEffectAgain
<1>3. CASE TabFromElsewhere
  BY <1>3 DEF TabFromElsewhere
<1>4. CASE TriggerGoes
  BY <1>4 DEF TriggerGoes
<1>5. CASE UNCHANGED focusVars
  BY <1>5 DEF focusVars
<1> QED
  BY <1>1, <1>2, <1>3, <1>4, <1>5 DEF FocusNext

\* A keystroke takes the focus out of its field only in a dialog with a control before
\* the field: where the field comes first, the effect that every rendering runs again
\* leaves the focus in it (Modal's useEffect on onClose).
THEOREM ModalTypingKeepsFocusInFirstField ==
  FocusSpec /\ []FieldComesFirst => []TypingKeepsFocus
<1>1. FocusInit => TypingKeepsFocus
  BY DEF FocusInit, TypingKeepsFocus
<1> QED
  BY <1>1, TypingStep, PTL DEF FocusSpec
=============================================================================
