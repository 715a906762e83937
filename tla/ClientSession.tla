--------------------------- MODULE ClientSession ---------------------------
(***************************************************************************)
(* The browser's side of a session: frontend/src/api/client.ts, the token   *)
(* store and AuthContext, in several tabs that share one refresh cookie,    *)
(* against the back end's refresh-token chains (TokenChains).               *)
(*                                                                          *)
(* A call is one apiFetch; `restore' is the start-up restoreSession().  One *)
(* step is what JavaScript does between two network events.  Answers can be *)
(* lost, arrive late and out of order; a tab can be reloaded at any moment, *)
(* which forgets everything but the cookie.                                 *)
(***************************************************************************)
EXTENDS Naturals, FiniteSets

CONSTANTS Tabs, Slots,   \* a tab has as many calls under way as it has slots
          Boot,          \* the slot that start-up uses
          Tokens, None,
          MaxPosts,      \* bound on the refresh requests in the network
          MaxReloads     \* bound on the page loads after the first, all tabs together

Kinds == {"restore", "profile", "page", "login", "logout"}
Stages == {"held", "sent", "served", "renewing"}
CallReplies == Tokens \union {"none", "ok", "401"}
Calls == [kind : Kinds, stage : Stages, try : {1, 2}, bearer : BOOLEAN,
          sent : Tokens \union {None}, reply : CallReplies]

ASSUME BootIsASlot == Boot \in Slots
ASSUME NoneIsNothing == None \notin Tokens \union Tabs \union Calls
ASSUME TokensAreNoReplies == {"none", "ok", "401"} \intersect Tokens = {}

VARIABLES issued, live, family,   \* the back end's refresh tokens
          cookie,                 \* the browser's refresh cookie
          accessToken,            \* tokenStore: tab -> "none", "good" or "old" (expired)
          refreshInFlight,        \* client.ts: tab -> is there an unsettled promise
          posts,                  \* POST /auth/refresh requests in the network
          call,                   \* tab -> slot -> apiFetch under way, or None
          status,                 \* AuthContext: tab -> state.status
          reloads,
          \* History, for the properties:
          rotated,    \* tokens exchanged for a successor
          mishap,     \* an exchange's answer was lost, or two pages refreshed at once
          straggler,  \* tab -> did it sign out with another call under way
          cutOff      \* tab -> did the network fail under its start-up refresh

backend == <<issued, live, family>>
sessionVars == <<issued, live, family, cookie, accessToken, refreshInFlight,
                 posts, call, status, reloads, rotated, mishap, straggler, cutOff>>

Chains == INSTANCE TokenChains WITH NoToken <- None

\* The next secret that secrets.token_urlsafe draws; which one does not matter.
NextToken == IF issued = Tokens THEN {} ELSE {CHOOSE n \in Tokens : n \notin issued}

Post(t, s) == [tab |-> t, slot |-> s, sent |-> cookie, reply |-> "none"]
Call(k, st, try) == [kind |-> k, stage |-> st, try |-> try, bearer |-> FALSE,
                     sent |-> None, reply |-> "none"]

\* performFetch reads the token store and the browser adds the cookie when it sends;
\* only a logout looks at the cookie.
SentCall(k, try, token, jar) ==
    [kind |-> k, stage |-> "sent", try |-> try, bearer |-> (token = "good"),
     sent |-> IF k = "logout" THEN jar ELSE None, reply |-> "none"]

\* performFetch up to its fetch: a call waits for a refresh that is under way.
Dispatch(t, k) ==
    IF refreshInFlight[t] THEN Call(k, "held", 1)
    ELSE SentCall(k, 1, accessToken[t], cookie)

SessionInit ==
    /\ Chains!ChainInit
    /\ cookie = None
    /\ accessToken = [t \in Tabs |-> "none"]
    /\ refreshInFlight = [t \in Tabs |-> TRUE]
    /\ posts = {Post(t, Boot) : t \in Tabs}
    /\ call = [t \in Tabs |-> [s \in Slots |->
                  IF s = Boot THEN Call("restore", "renewing", 1) ELSE None]]
    /\ status = [t \in Tabs |-> "loading"]
    /\ rotated = {}
    /\ mishap = FALSE
    /\ straggler = [t \in Tabs |-> FALSE]
    /\ cutOff = [t \in Tabs |-> FALSE]
    /\ reloads = 0

-----------------------------------------------------------------------------
\* What the user and the pages start.

Begin(t, s, k) ==
    /\ call[t][s] = None
    /\ call' = [call EXCEPT ![t][s] = Dispatch(t, k)]
    /\ UNCHANGED <<backend, cookie, accessToken, refreshInFlight, posts, status,
                   reloads, rotated, mishap, straggler, cutOff>>

\* Data of a page that needs a session; ProfilePage's refreshUser is a profile.
BeginRequest(t, s) ==
    /\ status[t] = "authenticated"
    /\ \E k \in {"page", "profile"} : Begin(t, s, k)

\* The login button is disabled while a login is being submitted.
BeginLogin(t, s) ==
    /\ status[t] = "unauthenticated"
    /\ \A o \in Slots : call[t][o] # None => call[t][o].kind \notin {"login", "profile"}
    /\ Begin(t, s, "login")

BeginLogout(t, s) ==
    /\ status[t] = "authenticated"
    /\ Begin(t, s, "logout")

\* A full page load: memory is gone, start-up restores from the cookie.  The old
\* page's requests stay in the network, but nobody waits for them.
Reload(t) ==
    /\ reloads < MaxReloads /\ Cardinality(posts) < MaxPosts
    /\ posts' = {IF p.tab = t THEN [p EXCEPT !.tab = None] ELSE p : p \in posts}
                   \union {Post(t, Boot)}
    /\ mishap' = (mishap \/ posts # {})
    /\ call' = [call EXCEPT ![t] = [s \in Slots |->
                  IF s = Boot THEN Call("restore", "renewing", 1) ELSE None]]
    /\ accessToken' = [accessToken EXCEPT ![t] = "none"]
    /\ refreshInFlight' = [refreshInFlight EXCEPT ![t] = TRUE]
    /\ status' = [status EXCEPT ![t] = "loading"]
    /\ straggler' = [straggler EXCEPT ![t] = FALSE]
    /\ cutOff' = [cutOff EXCEPT ![t] = FALSE]
    /\ reloads' = reloads + 1
    /\ UNCHANGED <<backend, cookie, rotated>>

\* The fifteen minutes of the access token pass.
ExpireAccess(t) ==
    /\ accessToken[t] = "good"
    /\ accessToken' = [accessToken EXCEPT ![t] = "old"]
    /\ UNCHANGED <<backend, cookie, refreshInFlight, posts, call, status,
                   reloads, rotated, mishap, straggler, cutOff>>

-----------------------------------------------------------------------------
\* The back end answers.  Its transactions are the subject of Sessions.tla.

Reply(t, s, r) ==
    call' = [call EXCEPT ![t][s].stage = "served", ![t][s].reply = r]

ServeRequest(t, s) ==
    /\ call[t][s] # None /\ call[t][s].stage = "sent"
    /\ call[t][s].kind \in {"page", "profile"}
    /\ Reply(t, s, IF call[t][s].bearer THEN "ok" ELSE "401")
    /\ UNCHANGED <<backend, cookie, accessToken, refreshInFlight, posts, status,
                   reloads, rotated, mishap, straggler, cutOff>>

\* The form's password may be wrong: a 401 that is not retried.
ServeLogin(t, s) ==
    /\ call[t][s] # None /\ call[t][s].stage = "sent" /\ call[t][s].kind = "login"
    /\ \/ Reply(t, s, "401") /\ UNCHANGED backend
       \/ \E n \in NextToken : Chains!Open(n) /\ Reply(t, s, n)
    /\ UNCHANGED <<cookie, accessToken, refreshInFlight, posts, status,
                   reloads, rotated, mishap, straggler, cutOff>>

ServeLogout(t, s) ==
    /\ call[t][s] # None /\ call[t][s].stage = "sent" /\ call[t][s].kind = "logout"
    /\ \/ /\ call[t][s].bearer
          /\ Chains!Retire({call[t][s].sent} \intersect live)
          /\ Reply(t, s, "ok")
       \/ /\ ~call[t][s].bearer
          /\ Reply(t, s, "401")
          /\ UNCHANGED backend
    /\ UNCHANGED <<cookie, accessToken, refreshInFlight, posts, status,
                   reloads, rotated, mishap, straggler, cutOff>>

\* POST /auth/refresh: rotate a live token; a token that is not live any more
\* revokes its family.  Without a cookie, above the rate limit or in an outage
\* the answer is an error too, and performRefresh treats all errors alike.
ServeRefresh(p) ==
    /\ p.reply = "none"
    /\ \E r \in NextToken \union {"401"} :
          /\ posts' = (posts \ {p}) \union {[p EXCEPT !.reply = r]}
          /\ \/ r \in Tokens /\ p.sent \in live /\ Chains!Rotate(p.sent, r)
             \/ r = "401" /\ p.sent \in issued \ live
                          /\ Chains!Retire({k \in live : family[k] = family[p.sent]})
             \/ r = "401" /\ UNCHANGED backend
          /\ rotated' = IF r \in Tokens THEN rotated \union {p.sent} ELSE rotated
    /\ UNCHANGED <<cookie, accessToken, refreshInFlight, call, status,
                   reloads, mishap, straggler, cutOff>>

-----------------------------------------------------------------------------
\* What JavaScript does with an answer.

InTab(t, stage) == {s \in Slots : call[t][s] # None /\ call[t][s].stage = stage}

\* Mutant: logout without its finally, loadCurrentUser without setAccessToken(null).
Finish_KeepsToken(t, S, out) ==
    /\ call' = [call EXCEPT ![t] = [s \in Slots |-> IF s \in S THEN None ELSE call[t][s]]]
    /\ status' = IF out THEN [status EXCEPT ![t] = "unauthenticated"] ELSE status
    /\ straggler' = IF out
                     THEN [straggler EXCEPT ![t] = \E s \in Slots : call'[t][s] # None]
                     ELSE straggler
    /\ UNCHANGED accessToken

\* The calls S of a tab end.  With `out' the tab is signed out as well: the token
\* store is emptied and the status becomes unauthenticated.
Finish(t, S, out) ==
    /\ call' = [call EXCEPT ![t] = [s \in Slots |-> IF s \in S THEN None ELSE call[t][s]]]
    /\ accessToken' = IF out THEN [accessToken EXCEPT ![t] = "none"] ELSE accessToken
    /\ status' = IF out THEN [status EXCEPT ![t] = "unauthenticated"] ELSE status
    /\ straggler' = IF out
                     THEN [straggler EXCEPT ![t] = \E s \in Slots : call'[t][s] # None]
                     ELSE straggler

\* loadCurrentUser's catch and logout's finally sign out on any error.
SignsOut(t, S) == \E s \in S : call[t][s].kind \in {"profile", "logout"}

\* Mutant: refreshAccessToken without the shared promise.
Renew_Alone(t, s) ==
    /\ call' = [call EXCEPT ![t][s] = Call(@.kind, "renewing", 1)]
    /\ Cardinality(posts) < MaxPosts
    /\ posts' = posts \union {Post(t, s)}
    /\ refreshInFlight' = [refreshInFlight EXCEPT ![t] = TRUE]
    /\ mishap' = (mishap \/ \E p \in posts : p.tab # t)
    /\ UNCHANGED <<accessToken, cookie, status, straggler>>

\* Mutant: the refresh goes through performFetch and waits for itself.
Renew_ThroughPerformFetch(t, s) ==
    /\ call' = [call EXCEPT ![t][s] = Call(@.kind, "renewing", 1)]
    /\ refreshInFlight' = [refreshInFlight EXCEPT ![t] = TRUE]
    /\ UNCHANGED <<accessToken, cookie, status, straggler, posts, mishap>>

\* refreshAccessToken: start a refresh, or wait for the one under way.
Renew(t, s) ==
    /\ call' = [call EXCEPT ![t][s] = Call(@.kind, "renewing", 1)]
    /\ IF refreshInFlight[t]
       THEN UNCHANGED <<posts, refreshInFlight, mishap>>
       ELSE /\ Cardinality(posts) < MaxPosts
            /\ posts' = posts \union {Post(t, s)}
            /\ refreshInFlight' = [refreshInFlight EXCEPT ![t] = TRUE]
            /\ mishap' = (mishap \/ \E p \in posts : p.tab # t)
    /\ UNCHANGED <<accessToken, cookie, status, straggler>>

ArriveOk(t, s) ==
    LET c == call[t][s] IN
    /\ c.reply \notin {"none", "401"}
    /\ CASE c.kind = "login" ->
              /\ cookie' = c.reply
              /\ accessToken' = [accessToken EXCEPT ![t] = "good"]
              /\ call' = [call EXCEPT ![t][s] =
                            IF refreshInFlight[t] THEN Call("profile", "held", 1)
                            ELSE SentCall("profile", 1, "good", c.reply)]
              /\ UNCHANGED <<status, straggler>>
         [] c.kind = "profile" ->
              /\ call' = [call EXCEPT ![t][s] = None]
              /\ status' = [status EXCEPT ![t] = "authenticated"]
              /\ UNCHANGED <<cookie, accessToken, straggler>>
         [] c.kind = "logout" -> cookie' = None /\ Finish(t, {s}, TRUE)
         [] OTHER -> Finish(t, {s}, FALSE) /\ UNCHANGED cookie
    /\ UNCHANGED <<posts, refreshInFlight, mishap>>

\* A 401 is retried once, behind a refresh; a login's 401 is about the password.
ArriveRefused(t, s) ==
    /\ call[t][s].reply = "401"
    /\ IF call[t][s].try = 1 /\ call[t][s].kind # "login" THEN Renew(t, s)
       ELSE /\ Finish(t, {s}, SignsOut(t, {s}))
            /\ UNCHANGED <<cookie, posts, refreshInFlight, mishap>>

Arrive(t, s) ==
    /\ s \in InTab(t, "served")
    /\ ArriveOk(t, s) \/ ArriveRefused(t, s)
    /\ UNCHANGED <<backend, rotated, reloads, cutOff>>

\* fetch rejects: the request or its answer was lost.
LoseCall(t, s) ==
    /\ s \in InTab(t, "sent") \union InTab(t, "served")
    /\ Finish(t, {s}, SignsOut(t, {s}))
    /\ UNCHANGED <<backend, cookie, posts, refreshInFlight, reloads, rotated,
                   mishap, cutOff>>

\* The shared promise resolves to a token: the calls that asked for the refresh
\* are repeated, those that were held back go out, start-up loads the profile.
Resume(t, n) ==
    /\ accessToken' = [accessToken EXCEPT ![t] = "good"]
    /\ call' = [call EXCEPT ![t] = [s \in Slots |->
          LET c == call[t][s] IN
          IF s \in InTab(t, "renewing")
            THEN IF c.kind = "restore" THEN SentCall("profile", 1, "good", n)
                 ELSE SentCall(c.kind, 2, "good", n)
          ELSE IF s \in InTab(t, "held") THEN SentCall(c.kind, 1, "good", n)
          ELSE c]]
    /\ UNCHANGED <<status, straggler>>

\* Mutant: start-up returns without a setState when there is no session to restore.
Expire_OnlyHandlers(t) ==
    /\ accessToken' = [accessToken EXCEPT ![t] = "none"]
    /\ status' = IF \E s \in InTab(t, "renewing") : call[t][s].kind # "restore"
                 THEN [status EXCEPT ![t] = "unauthenticated"] ELSE status
    /\ call' = [call EXCEPT ![t] = [s \in Slots |->
          IF s \in InTab(t, "renewing") THEN None
          ELSE IF s \in InTab(t, "held") THEN SentCall(call[t][s].kind, 1, "none", cookie)
          ELSE call[t][s]]]
    /\ straggler' = [straggler EXCEPT ![t] = \E s \in Slots : call'[t][s] # None]

\* It resolves to null: the session is over, the calls that asked for the refresh
\* fail, those that were held back go out without a token.
Expire(t) ==
    /\ accessToken' = [accessToken EXCEPT ![t] = "none"]
    /\ status' = [status EXCEPT ![t] = "unauthenticated"]
    /\ call' = [call EXCEPT ![t] = [s \in Slots |->
          IF s \in InTab(t, "renewing") THEN None
          ELSE IF s \in InTab(t, "held") THEN SentCall(call[t][s].kind, 1, "none", cookie)
          ELSE call[t][s]]]
    /\ straggler' = [straggler EXCEPT ![t] = \E s \in Slots : call'[t][s] # None]

ArriveRefresh(p) ==
    /\ p.reply # "none"
    /\ posts' = posts \ {p}
    /\ cookie' = IF p.reply = "401" THEN cookie ELSE p.reply
    /\ IF p.tab = None   \* the page that asked is gone
       THEN UNCHANGED <<accessToken, refreshInFlight, call, status, straggler>>
       ELSE /\ refreshInFlight' = [refreshInFlight EXCEPT ![p.tab] = FALSE]
            /\ IF p.reply = "401" THEN Expire(p.tab) ELSE Resume(p.tab, p.reply)
    /\ UNCHANGED <<backend, reloads, rotated, mishap, cutOff>>

\* performRefresh rejects, and with it everything that waits for the promise.
\* Start-up's effect has no catch: the status stays loading.
LoseRefresh(p) ==
    /\ posts' = posts \ {p}
    /\ mishap' = (mishap \/ p.reply \in Tokens)
    /\ IF p.tab = None
       THEN UNCHANGED <<accessToken, refreshInFlight, call, status, straggler, cutOff>>
       ELSE LET waiting == InTab(p.tab, "renewing") \union InTab(p.tab, "held") IN
            /\ refreshInFlight' = [refreshInFlight EXCEPT ![p.tab] = FALSE]
            /\ Finish(p.tab, waiting, SignsOut(p.tab, waiting))
            /\ cutOff' = [cutOff EXCEPT ![p.tab] =
                  @ \/ \E s \in waiting : call[p.tab][s].kind = "restore"]
    /\ UNCHANGED <<backend, cookie, reloads, rotated>>

\* The user's sessions are revoked: suspension, or a logout elsewhere.
Revoked ==
    /\ live # {} /\ Chains!Retire(live)
    /\ UNCHANGED <<cookie, accessToken, refreshInFlight, posts, call, status,
                   reloads, rotated, mishap, straggler, cutOff>>

-----------------------------------------------------------------------------
User(t, s) == BeginRequest(t, s) \/ BeginLogin(t, s) \/ BeginLogout(t, s)

Network(t, s) ==
    \/ ServeRequest(t, s) \/ ServeLogin(t, s) \/ ServeLogout(t, s)
    \/ Arrive(t, s) \/ LoseCall(t, s)

Refreshing(t) ==
    \E p \in posts : p.tab \in {t, None} /\ (ServeRefresh(p) \/ ArriveRefresh(p) \/ LoseRefresh(p))

SessionNext ==
    \/ \E t \in Tabs, s \in Slots : User(t, s) \/ Network(t, s)
    \/ \E t \in Tabs : Refreshing(t) \/ Reload(t) \/ ExpireAccess(t)
    \/ Revoked

\* A request is answered or fails; a browser runs the code that waits for it.
SessionFairness ==
    \A t \in Tabs : WF_sessionVars(Refreshing(t)) /\ \A s \in Slots : WF_sessionVars(Network(t, s))

SessionSpec == SessionInit /\ [][SessionNext]_sessionVars /\ SessionFairness

-----------------------------------------------------------------------------
SessionTypeOK ==
    /\ cookie \in Tokens \union {None}
    /\ accessToken \in [Tabs -> {"none", "good", "old"}]
    /\ refreshInFlight \in [Tabs -> BOOLEAN]
    /\ call \in [Tabs -> [Slots -> Calls \union {None}]]
    /\ \A t \in Tabs : (\E p \in posts : p.tab = t) = refreshInFlight[t]
    /\ status \in [Tabs -> {"loading", "unauthenticated", "authenticated"}]

(* client.ts:30-38: concurrent 401s share one refresh, so that no page        *)
(* presents a refresh token that it has already exchanged (the back end takes  *)
(* that for theft).  What remains is a lost answer and a second page that      *)
(* refreshes at the same moment.                                               *)
SpentTokenOnlyAfterMishap ==
    \A p \in posts : p.reply = "none" /\ p.sent \in rotated => mishap

(* AuthContext's logout, expiry and failed profile load leave no access token  *)
(* behind in a tab that says it is signed out -- unless another call was still *)
(* under way then, whose late refresh puts a token back.                       *)
SignedOutForgets ==
    \A t \in Tabs :
        /\ status[t] = "unauthenticated" /\ \A s \in Slots : call[t][s] = None
        /\ ~straggler[t]
        => accessToken[t] = "none"

(* A page load ends with a decision between signed in and signed out, whatever *)
(* the refresh answers; only a network failure of the refresh itself leaves    *)
(* the page loading (AuthContext.tsx:83 catches nothing).                      *)
LoadingEnds ==
    \A t \in Tabs : status[t] = "loading" ~> (status[t] # "loading" \/ cutOff[t])

(* Every apiFetch settles, although calls wait for a refresh and the refresh   *)
(* is waited for by the calls that need it.                                    *)
CallsSettle ==
    \A t \in Tabs, s \in Slots : call[t][s] # None ~> call[t][s] = None

=============================================================================
