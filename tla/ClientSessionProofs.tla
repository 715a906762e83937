------------------------ MODULE ClientSessionProofs ------------------------
(***************************************************************************)
(* Theorems about ClientSession, for every number of tabs, calls, tokens    *)
(* and reloads.                                                             *)
(*                                                                          *)
(* SpentTokenOnlyAfterMishap is not inductive.  SessionInv adds what keeps  *)
(* it true: a tab has at most one refresh in the network (FlightInv), while *)
(* nothing has gone wrong all tabs together have at most one, and the       *)
(* cookie is spent only while the answer that replaces it is under way      *)
(* (SpentInv); a login's token is in nobody else's hands, so that setting   *)
(* the cookie to it never brings a spent one back (LoginInv).               *)
(*                                                                          *)
(* SignedOutForgets needs to know what a tab that is signed out can still   *)
(* be doing: a login, whose profile is then being loaded with the new       *)
(* token (QuietInv), and that a refresh has somebody who asked for it.      *)
(* The type invariant adds the other direction (TypedInv): a flag that is   *)
(* up has a refresh in the network.                                         *)
(***************************************************************************)
EXTENDS ClientSession, TLAPS

PostRecs == [tab : Tabs \union {None}, slot : Slots, sent : Tokens \union {None},
             reply : Tokens \union {"none", "401"}]

CallsInv == call \in [Tabs -> [Slots -> Calls \union {None}]]

\* What the tokens are that requests, answers and the browser carry.
TokensInv ==
    /\ issued \subseteq Tokens /\ live \subseteq issued /\ rotated \subseteq issued
    /\ cookie \in issued \union {None}
    /\ posts \subseteq PostRecs
    /\ \A p \in posts : /\ p.sent \in issued \union {None}
                        /\ p.reply \in Tokens => p.reply \in issued /\ p.sent \in issued

\* A login's answer under way brings a token that is in nobody else's hands.
LoginInv ==
    \A t \in Tabs, s \in Slots : call[t][s] # None =>
        /\ call[t][s].kind = "login" => call[t][s].reply # "ok"
        /\ call[t][s].reply \in Tokens =>
             /\ call[t][s].reply \in issued \ rotated
             /\ call[t][s].reply # cookie
             /\ \A p \in posts : call[t][s].reply \notin {p.sent, p.reply}
             /\ \A u \in Tabs, o \in Slots :
                   call[u][o] # None /\ call[u][o].reply = call[t][s].reply => u = t /\ o = s

\* A tab has the one refresh that its flag announces.
FlightInv ==
    /\ refreshInFlight \in [Tabs -> BOOLEAN]
    /\ \A p \in posts : p.tab \in Tabs => refreshInFlight[p.tab]
    /\ \A p, q \in posts : p.tab = q.tab /\ p.tab \in Tabs => p = q

\* Without a mishap only one refresh presents a token, and a token that is spent is the
\* browser's cookie only until the answer that replaces it has arrived.
SpentInv ==
    /\ mishap \in BOOLEAN
    /\ ~mishap =>
         /\ \A p, q \in posts : p.sent # None => p = q
         /\ \A p \in posts : p.reply \notin rotated
         /\ cookie \in rotated => \E p \in posts : p.reply \in Tokens
    /\ SpentTokenOnlyAfterMishap

SessionInv == CallsInv /\ TokensInv /\ LoginInv /\ FlightInv /\ SpentInv

-----------------------------------------------------------------------------
\* At start-up every tab has asked for its first refresh and holds nothing.
LEMMA SessionInitially == SessionInit => SessionInv
<1> SUFFICES ASSUME SessionInit PROVE SessionInv
  OBVIOUS
<1> USE BootIsASlot, NoneIsNothing, TokensAreNoReplies
<1>1. CallsInv
  BY DEF SessionInit, CallsInv, Calls, Kinds, Stages, CallReplies, Call
<1>2. TokensInv
  BY DEF SessionInit, TokensInv, PostRecs, Post, Chains!ChainInit
<1>3. LoginInv
  BY DEF SessionInit, LoginInv, Call
<1>4. FlightInv
  BY DEF SessionInit, FlightInv, Post
<1>5. SpentInv
  <2>1. \A p \in posts : p.sent = None /\ p.reply = "none"
    BY DEF SessionInit, Post
  <2> QED
    BY <2>1 DEF SessionInit, SpentInv, SpentTokenOnlyAfterMishap
<1> QED
  BY <1>1, <1>2, <1>3, <1>4, <1>5 DEF SessionInv

\* The calls that a step leaves with a token in their answer are those that had it.
NothingNew ==
    \A t \in Tabs, s \in Slots : call'[t][s] # None =>
        /\ call'[t][s].kind = "login" => call'[t][s].reply # "ok"
        /\ call'[t][s].reply \in Tokens => call'[t][s] = call[t][s]

\* A step that draws no token keeps LoginInv, whatever it does to the requests.
LEMMA NoNewAnswer ==
  ASSUME SessionInv, NothingNew, cookie' \in {cookie, None} \union {p.reply : p \in posts},
         rotated' = rotated, issued' = issued,
         \A p \in posts' : p \in posts \/ (p.sent = cookie /\ p.reply = "none")
                           \/ \E q \in posts : p.sent = q.sent /\ p.reply = q.reply
  PROVE  LoginInv'
  BY NoneIsNothing, TokensAreNoReplies DEF SessionInv, LoginInv, NothingNew, TokensInv, CallsInv

\* What the two ways of making a call make.
LEMMA NewCalls ==
  ASSUME NEW k \in Kinds, NEW st \in Stages, NEW try \in {1, 2}, NEW token,
         NEW jar \in Tokens \union {None}
  PROVE  /\ Call(k, st, try) \in Calls /\ Call(k, st, try).kind = k
         /\ Call(k, st, try).reply = "none"
         /\ SentCall(k, try, token, jar) \in Calls /\ SentCall(k, try, token, jar).kind = k
         /\ SentCall(k, try, token, jar).reply = "none"
  BY DEF Call, SentCall, Calls, Stages, CallReplies

\* A call that is dispatched, held back or sent, has no answer yet.
LEMMA Dispatched ==
  ASSUME SessionInv, NEW t \in Tabs, NEW k \in Kinds
  PROVE  /\ Dispatch(t, k) \in Calls /\ Dispatch(t, k).kind = k
         /\ Dispatch(t, k).reply = "none"
  BY NewCalls DEF Dispatch, Stages, SessionInv, TokensInv

\* The back end's answer touches the one call that it answers.
LEMMA ReplyIsOneCall ==
  ASSUME CallsInv, NEW t \in Tabs, NEW s \in Slots, call[t][s] # None, NEW r \in CallReplies,
         Reply(t, s, r)
  PROVE  /\ CallsInv'
         /\ call'[t][s] # None => call'[t][s].reply = r /\ call'[t][s].kind = call[t][s].kind
         /\ \A u \in Tabs, o \in Slots : <<u, o>> # <<t, s>> => call'[u][o] = call[u][o]
<1> DEFINE c == call[t][s]
           d == [[c EXCEPT !.stage = "served"] EXCEPT !.reply = r]
<1>1. c \in Calls
  BY DEF CallsInv
<1>2. d \in Calls /\ d.reply = r /\ d.kind = c.kind
  BY <1>1 DEF Calls, Stages
<1>3. call' = [call EXCEPT ![t][s] = d]
  BY DEF Reply, CallsInv
<1> HIDE DEF c, d
<1>4. /\ CallsInv' /\ call'[t][s] = d
      /\ \A u \in Tabs, o \in Slots : <<u, o>> # <<t, s>> => call'[u][o] = call[u][o]
  BY <1>2, <1>3 DEF CallsInv
<1> QED
  BY <1>2, <1>4 DEF c

-----------------------------------------------------------------------------
\* Steps of the user and of the page.

\* A call that the user or a page starts.
LEMMA BeginStep ==
  ASSUME SessionInv, NEW t \in Tabs, NEW s \in Slots, NEW k \in Kinds, Begin(t, s, k)
  PROVE  SessionInv'
<1> DEFINE d == Dispatch(t, k)
<1>1. d \in Calls /\ d.reply = "none"
  BY Dispatched
<1> HIDE DEF d
<1>2. call' = [call EXCEPT ![t][s] = d]
  BY DEF Begin, d
<1>3. CallsInv'
  BY <1>1, <1>2 DEF SessionInv, CallsInv
<1>4. NothingNew
  BY <1>1, <1>2, TokensAreNoReplies DEF NothingNew, SessionInv, CallsInv, LoginInv
<1>5. LoginInv'
  BY <1>4, NoNewAnswer DEF Begin, backend
<1>6. TokensInv' /\ FlightInv' /\ SpentInv'
  BY DEF Begin, backend, SessionInv, TokensInv, FlightInv, SpentInv, SpentTokenOnlyAfterMishap
<1> QED
  BY <1>3, <1>5, <1>6 DEF SessionInv

\* A refresh presents the cookie of the moment.
LEMMA NewPost ==
  ASSUME SessionInv, NEW t \in Tabs, NEW s \in Slots
  PROVE  /\ Post(t, s) \in PostRecs /\ Post(t, s).tab = t
         /\ Post(t, s).sent = cookie /\ Post(t, s).reply = "none"
  BY DEF Post, PostRecs, SessionInv, TokensInv

\* A reload disowns the refresh under way and sends another: if there was one, a mishap.
LEMMA ReloadStep ==
  ASSUME SessionInv, NEW t \in Tabs, Reload(t)
  PROVE  SessionInv'
<1> DEFINE restore == Call("restore", "renewing", 1)
           new == Post(t, Boot)
<1>1. restore \in Calls /\ restore.reply = "none"
  BY NewCalls DEF Kinds, Stages
<1>2. new \in PostRecs /\ new.tab = t /\ new.sent = cookie /\ new.reply = "none"
  BY NewPost, BootIsASlot
<1>3. /\ call' = [call EXCEPT ![t] = [s \in Slots |-> IF s = Boot THEN restore ELSE None]]
      /\ UNCHANGED <<backend, cookie, rotated>>
      /\ refreshInFlight' = [refreshInFlight EXCEPT ![t] = TRUE]
      /\ mishap' = (mishap \/ posts # {})
      /\ posts' = {IF p.tab = t THEN [p EXCEPT !.tab = None] ELSE p : p \in posts} \union {new}
  BY DEF Reload
<1> HIDE DEF restore, new
<1>4. \A p \in posts' : p = new \/ \E q \in posts :
         /\ p \in PostRecs /\ p.sent = q.sent /\ p.reply = q.reply
         /\ p.tab # t /\ (p.tab \in Tabs => p = q)
  BY <1>3, NoneIsNothing DEF SessionInv, TokensInv, PostRecs
<1>5. CallsInv'
  BY <1>1, <1>3 DEF SessionInv, CallsInv
<1>6. NothingNew
  BY <1>1, <1>3, TokensAreNoReplies DEF NothingNew, SessionInv, CallsInv, LoginInv
<1>7. LoginInv'
  BY <1>2, <1>3, <1>4, <1>6, NoNewAnswer DEF backend
<1>8. TokensInv'
  BY <1>2, <1>3, <1>4, TokensAreNoReplies DEF SessionInv, TokensInv, backend
<1>9. FlightInv'
  BY <1>2, <1>3, <1>4 DEF SessionInv, FlightInv
<1>10. SpentInv'
  <2>1. mishap' \in BOOLEAN /\ (mishap' \/ (~mishap /\ posts' = {new}))
    BY <1>3 DEF SessionInv, SpentInv
  <2>2. ~mishap' => new.sent \notin rotated
    BY <1>2, <1>3 DEF SessionInv, SpentInv
  <2> QED
    BY <1>2, <1>3, <2>1, <2>2, TokensAreNoReplies DEF SessionInv, SpentInv, TokensInv,
       SpentTokenOnlyAfterMishap
<1> QED
  BY <1>5, <1>7, <1>8, <1>9, <1>10 DEF SessionInv

\* A step that touches none of the invariant's state but what is left to `live'.
LEMMA ElsewhereStep ==
  ASSUME SessionInv, live' \subseteq live,
         UNCHANGED <<issued, cookie, refreshInFlight, posts, call, rotated, mishap>>
  PROVE  SessionInv'
  BY DEF SessionInv, CallsInv, TokensInv, LoginInv, FlightInv, SpentInv, SpentTokenOnlyAfterMishap

-----------------------------------------------------------------------------
\* Steps of the back end.

\* A token that the back end draws has not been seen.
LEMMA FreshToken ==
  ASSUME SessionInv, NEW n \in NextToken
  PROVE  n \in Tokens \ issued
  BY DEF NextToken, SessionInv, TokensInv

\* Requests for data touch no refresh token.
LEMMA ServeRequestStep ==
  ASSUME SessionInv, NEW t \in Tabs, NEW s \in Slots, ServeRequest(t, s)
  PROVE  SessionInv'
<1>1. PICK r \in {"ok", "401"} : Reply(t, s, r)
  BY DEF ServeRequest
<1>2. call[t][s] # None /\ call[t][s].kind \in {"page", "profile"}
  BY DEF ServeRequest
<1>3. CallsInv' /\ NothingNew
  BY <1>1, <1>2, ReplyIsOneCall, TokensAreNoReplies
     DEF CallReplies, SessionInv, LoginInv, NothingNew
<1>4. LoginInv'
  BY <1>3, NoNewAnswer DEF ServeRequest, backend
<1>5. TokensInv' /\ FlightInv' /\ SpentInv'
  BY DEF ServeRequest, backend, SessionInv, TokensInv, FlightInv, SpentInv,
     SpentTokenOnlyAfterMishap
<1> QED
  BY <1>3, <1>4, <1>5 DEF SessionInv

\* A logout ends the presented token's row and exchanges nothing.
LEMMA ServeLogoutStep ==
  ASSUME SessionInv, NEW t \in Tabs, NEW s \in Slots, ServeLogout(t, s)
  PROVE  SessionInv'
<1>1. PICK r \in {"ok", "401"} : Reply(t, s, r)
  BY DEF ServeLogout
<1>2. call[t][s] # None /\ call[t][s].kind = "logout"
  BY DEF ServeLogout
<1>3. CallsInv' /\ NothingNew
  BY <1>1, <1>2, ReplyIsOneCall, TokensAreNoReplies
     DEF CallReplies, SessionInv, LoginInv, NothingNew
<1>4. issued' = issued /\ live' \subseteq live
      /\ UNCHANGED <<cookie, refreshInFlight, posts, rotated, mishap>>
  BY DEF ServeLogout, Chains!Retire, backend
<1>5. LoginInv'
  BY <1>3, <1>4, NoNewAnswer
<1>6. TokensInv' /\ FlightInv' /\ SpentInv'
  BY <1>4 DEF SessionInv, TokensInv, FlightInv, SpentInv, SpentTokenOnlyAfterMishap
<1> QED
  BY <1>3, <1>5, <1>6 DEF SessionInv

\* A login draws a token that nobody has yet.
LEMMA ServeLoginStep ==
  ASSUME SessionInv, NEW t \in Tabs, NEW s \in Slots, ServeLogin(t, s)
  PROVE  SessionInv'
<1>1. call[t][s] # None /\ call[t][s].kind = "login"
      /\ UNCHANGED <<cookie, refreshInFlight, posts, rotated, mishap>>
  BY DEF ServeLogin
<1>2. CASE Reply(t, s, "401") /\ UNCHANGED backend
  <2>1. CallsInv' /\ NothingNew
    BY <1>1, <1>2, ReplyIsOneCall, TokensAreNoReplies
       DEF CallReplies, SessionInv, LoginInv, NothingNew
  <2>2. LoginInv'
    BY <1>1, <1>2, <2>1, NoNewAnswer DEF backend
  <2>3. TokensInv' /\ FlightInv' /\ SpentInv'
    BY <1>1, <1>2 DEF backend, SessionInv, TokensInv, FlightInv, SpentInv,
       SpentTokenOnlyAfterMishap
  <2> QED
    BY <2>1, <2>2, <2>3 DEF SessionInv
<1>3. ASSUME NEW n \in NextToken, Chains!Open(n), Reply(t, s, n) PROVE SessionInv'
  <2>1. n \in Tokens \ issued /\ issued' = issued \union {n} /\ live' = live \union {n}
    BY <1>3, FreshToken DEF Chains!Open
  <2>2. /\ CallsInv'
        /\ call'[t][s] # None => call'[t][s].reply = n
        /\ \A u \in Tabs, o \in Slots : <<u, o>> # <<t, s>> => call'[u][o] = call[u][o]
    BY <1>1, <1>3, <2>1, ReplyIsOneCall DEF CallReplies, SessionInv
  <2>3. TokensInv'
    BY <1>1, <2>1 DEF SessionInv, TokensInv
  <2>4. FlightInv' /\ SpentInv'
    BY <1>1, <2>1 DEF SessionInv, FlightInv, SpentInv, SpentTokenOnlyAfterMishap
  <2>5. n \notin rotated /\ n # cookie /\ n # "ok" /\ \A p \in posts : n \notin {p.sent, p.reply}
    BY <2>1, TokensAreNoReplies, NoneIsNothing DEF SessionInv, TokensInv
  <2>6. \A u \in Tabs, o \in Slots : call[u][o] # None => call[u][o].reply # n
    BY <2>1 DEF SessionInv, LoginInv
  <2>7. LoginInv'
    BY <1>1, <2>1, <2>2, <2>5, <2>6 DEF SessionInv, LoginInv
  <2> QED
    BY <2>2, <2>3, <2>4, <2>7 DEF SessionInv
<1> QED
  BY <1>2, <1>3 DEF ServeLogin

\* The refresh endpoint: only a token of a live row is exchanged, and only for a new one.
LEMMA ServeRefreshStep ==
  ASSUME SessionInv, NEW p \in posts, ServeRefresh(p)
  PROVE  SessionInv'
<1>1. PICK r \in NextToken \union {"401"} :
        /\ posts' = (posts \ {p}) \union {[p EXCEPT !.reply = r]}
        /\ \/ r \in Tokens /\ p.sent \in live /\ Chains!Rotate(p.sent, r)
           \/ r = "401" /\ issued' = issued /\ live' \subseteq live
        /\ rotated' = IF r \in Tokens THEN rotated \union {p.sent} ELSE rotated
  BY DEF ServeRefresh, Chains!Retire, backend
<1>2. p.reply = "none" /\ UNCHANGED <<cookie, refreshInFlight, call, mishap>>
  BY DEF ServeRefresh
<1> DEFINE q == [p EXCEPT !.reply = r]
<1>3. q \in PostRecs /\ q.reply = r /\ q.sent = p.sent /\ q.tab = p.tab
  BY <1>1, FreshToken DEF SessionInv, TokensInv, PostRecs
<1>4. posts' = (posts \ {p}) \union {q}
  BY <1>1
<1> HIDE DEF q
<1>5. CallsInv'
  BY <1>2 DEF SessionInv, CallsInv
<1>6. FlightInv'
  BY <1>2, <1>3, <1>4 DEF SessionInv, FlightInv
<1>7. CASE r = "401"
  <2>1. issued' = issued /\ live' \subseteq live /\ rotated' = rotated
    BY <1>1, <1>7, TokensAreNoReplies
  <2>2. TokensInv'
    BY <1>2, <1>3, <1>4, <1>7, <2>1, TokensAreNoReplies DEF SessionInv, TokensInv
  <2>3. LoginInv'
    BY <1>2, <1>3, <1>4, <1>7, <2>1, TokensAreNoReplies DEF SessionInv, LoginInv
  <2>4. SpentInv'
    BY <1>2, <1>3, <1>4, <1>7, <2>1, TokensAreNoReplies
       DEF SessionInv, TokensInv, SpentInv, SpentTokenOnlyAfterMishap
  <2> QED
    BY <1>5, <1>6, <2>2, <2>3, <2>4 DEF SessionInv
<1>8. CASE r \in NextToken
  <2>1. /\ r \in Tokens \ issued /\ p.sent \in live
        /\ issued' = issued \union {r} /\ live' = (live \ {p.sent}) \union {r}
        /\ rotated' = rotated \union {p.sent}
    BY <1>1, <1>8, FreshToken, TokensAreNoReplies DEF Chains!Rotate
  <2>2. TokensInv'
    BY <1>2, <1>3, <1>4, <2>1 DEF SessionInv, TokensInv
  <2>3. LoginInv'
    BY <1>2, <1>3, <1>4, <2>1 DEF SessionInv, LoginInv
  <2>4. SpentInv'
    <3>1. p.sent # None /\ p.sent # r /\ r \notin rotated
      BY <2>1, NoneIsNothing DEF SessionInv, TokensInv
    <3>2. ~mishap => posts' = {q}
      BY <1>4, <3>1 DEF SessionInv, SpentInv
    <3>3. r # "none"
      BY <2>1, TokensAreNoReplies
    <3> QED
      BY <1>2, <1>3, <1>4, <2>1, <3>1, <3>2, <3>3 DEF SessionInv, SpentInv, SpentTokenOnlyAfterMishap
  <2> QED
    BY <1>5, <1>6, <2>2, <2>3, <2>4 DEF SessionInv
<1> QED
  BY <1>7, <1>8

-----------------------------------------------------------------------------
\* Steps of JavaScript.

\* Calls that end, with or without the tab being signed out.
LEMMA Finished ==
  ASSUME SessionInv, NEW t \in Tabs, NEW S, NEW out, Finish(t, S, out)
  PROVE  CallsInv' /\ NothingNew
  BY TokensAreNoReplies DEF Finish, NothingNew, SessionInv, CallsInv, LoginInv

\* A refresh that a 401 starts: if it is the only one, it presents a token that nobody
\* has exchanged.
LEMMA Renewed ==
  ASSUME SessionInv, NEW t \in Tabs, NEW s \in Slots, call[t][s] # None, Renew(t, s),
         UNCHANGED <<issued, live, rotated>>
  PROVE  SessionInv'
<1> DEFINE c == Call(call[t][s].kind, "renewing", 1)
<1>1. c \in Calls /\ c.reply = "none"
  <2>1. call[t][s].kind \in Kinds
    BY DEF SessionInv, CallsInv, Calls
  <2> QED
    BY <2>1 DEF Call, Calls, Stages, CallReplies
<1> HIDE DEF c
<1>2. call' = [call EXCEPT ![t][s] = c] /\ cookie' = cookie
  BY DEF Renew, c, SessionInv, CallsInv
<1>3. CallsInv'
  BY <1>1, <1>2 DEF SessionInv, CallsInv
<1>4. NothingNew
  BY <1>1, <1>2, TokensAreNoReplies DEF NothingNew, SessionInv, CallsInv, LoginInv
<1>5. CASE refreshInFlight[t]
  <2>1. UNCHANGED <<posts, refreshInFlight, mishap>>
    BY <1>5 DEF Renew
  <2>2. LoginInv'
    BY <1>2, <1>4, <2>1, NoNewAnswer
  <2>3. TokensInv' /\ FlightInv' /\ SpentInv'
    BY <1>2, <2>1 DEF SessionInv, TokensInv, FlightInv, SpentInv, SpentTokenOnlyAfterMishap
  <2> QED
    BY <1>3, <2>2, <2>3 DEF SessionInv
<1>6. CASE ~refreshInFlight[t]
  <2> DEFINE new == Post(t, s)
  <2>1. new \in PostRecs /\ new.tab = t /\ new.sent = cookie /\ new.reply = "none"
    BY NewPost
  <2>2. /\ posts' = posts \union {new}
        /\ refreshInFlight' = [refreshInFlight EXCEPT ![t] = TRUE]
        /\ mishap' = (mishap \/ \E p \in posts : p.tab # t)
    BY <1>6 DEF Renew
  <2> HIDE DEF new
  <2>3. \A p \in posts : p.tab # t
    BY <1>6 DEF SessionInv, FlightInv
  <2>4. LoginInv'
    BY <1>2, <1>4, <2>1, <2>2, NoNewAnswer
  <2>5. TokensInv'
    BY <1>2, <2>1, <2>2, TokensAreNoReplies DEF SessionInv, TokensInv
  <2>6. FlightInv'
    BY <2>1, <2>2, <2>3 DEF SessionInv, FlightInv
  <2>7. mishap' \in BOOLEAN /\ (~mishap' => ~mishap /\ posts = {} /\ posts' = {new})
    BY <2>2, <2>3 DEF SessionInv, SpentInv
  <2>8. ~mishap' => cookie \notin rotated
    BY <2>7 DEF SessionInv, SpentInv
  <2>9. SpentInv'
    BY <1>2, <2>1, <2>2, <2>7, <2>8, TokensAreNoReplies
       DEF SessionInv, SpentInv, TokensInv, SpentTokenOnlyAfterMishap
  <2> QED
    BY <1>3, <2>4, <2>5, <2>6, <2>9 DEF SessionInv
<1> QED
  BY <1>5, <1>6 DEF SessionInv, FlightInv

\* A call ends and leaves the refreshes alone.
LEMMA CallEnds ==
  ASSUME SessionInv, NEW t \in Tabs, NEW S, NEW out, Finish(t, S, out),
         cookie' \in {cookie, None},
         UNCHANGED <<issued, live, rotated, posts, refreshInFlight, mishap>>
  PROVE  SessionInv'
<1>1. CallsInv' /\ NothingNew
  BY Finished
<1>2. LoginInv'
  BY <1>1, NoNewAnswer
<1>3. TokensInv' /\ FlightInv' /\ SpentInv'
  BY NoneIsNothing
     DEF SessionInv, TokensInv, FlightInv, SpentInv, SpentTokenOnlyAfterMishap
<1> QED
  BY <1>1, <1>2, <1>3 DEF SessionInv

\* Only a login's answer sets the cookie here, to a token in nobody else's hands.
LEMMA ArriveStep ==
  ASSUME SessionInv, NEW t \in Tabs, NEW s \in Slots, Arrive(t, s)
  PROVE  SessionInv'
<1> DEFINE c == call[t][s]
<1>1. c # None /\ UNCHANGED <<issued, live, rotated>>
  BY DEF Arrive, InTab, backend
<1>2. CASE ArriveRefused(t, s)
  <2>1. CASE Renew(t, s)
    BY <1>1, <2>1, Renewed
  <2>2. CASE Finish(t, {s}, SignsOut(t, {s})) /\ UNCHANGED <<cookie, posts, refreshInFlight, mishap>>
    BY <1>1, <2>2, CallEnds
  <2> QED
    BY <1>2, <2>1, <2>2 DEF ArriveRefused
<1>3. CASE ArriveOk(t, s)
  <2>1. UNCHANGED <<posts, refreshInFlight, mishap>> /\ c.reply \notin {"none", "401"}
    BY <1>3 DEF ArriveOk
  <2>2. CASE c.kind = "login"
    <3> DEFINE d == IF refreshInFlight[t] THEN Call("profile", "held", 1)
                    ELSE SentCall("profile", 1, "good", c.reply)
    <3>1. c.reply \in Tokens
      BY <1>1, <2>1, <2>2 DEF SessionInv, CallsInv, Calls, CallReplies, LoginInv
    <3>2. d \in Calls /\ d.reply = "none"
      BY <3>1, NewCalls DEF Kinds, Stages
    <3>3. cookie' = c.reply /\ call' = [call EXCEPT ![t][s] = d]
      BY <1>3, <2>2 DEF ArriveOk
    <3> HIDE DEF d
    <3>4. /\ c.reply \in issued \ rotated
          /\ \A p \in posts : c.reply \notin {p.sent, p.reply}
          /\ \A u \in Tabs, o \in Slots :
                call[u][o] # None /\ call[u][o].reply = c.reply => u = t /\ o = s
      BY <1>1, <3>1 DEF SessionInv, LoginInv
    <3>5. CallsInv'
      BY <3>2, <3>3 DEF SessionInv, CallsInv
    <3>6. NothingNew
      BY <3>2, <3>3, TokensAreNoReplies DEF NothingNew, SessionInv, CallsInv, LoginInv
    <3>7. \A u \in Tabs, o \in Slots :
             call'[u][o] # None /\ call'[u][o].reply \in Tokens =>
               call'[u][o] = call[u][o] /\ <<u, o>> # <<t, s>>
      BY <3>2, <3>3, <3>6, TokensAreNoReplies DEF NothingNew, SessionInv, CallsInv
    <3>8. LoginInv'
      <4> HIDE DEF c
      <4> QED
        BY <1>1, <2>1, <3>3, <3>4, <3>6, <3>7 DEF SessionInv, LoginInv, NothingNew
    <3>9. TokensInv' /\ FlightInv' /\ SpentInv'
      BY <1>1, <2>1, <3>3, <3>4 DEF SessionInv, TokensInv, FlightInv, SpentInv, SpentTokenOnlyAfterMishap
    <3> QED
      BY <3>5, <3>8, <3>9 DEF SessionInv
  <2>3. CASE c.kind = "profile"
    <3>1. call' = [call EXCEPT ![t][s] = None] /\ cookie' = cookie
      BY <1>3, <2>3 DEF ArriveOk
    <3>2. CallsInv' /\ NothingNew
      BY <3>1, TokensAreNoReplies DEF NothingNew, SessionInv, CallsInv, LoginInv
    <3>3. LoginInv'
      BY <1>1, <2>1, <3>1, <3>2, NoNewAnswer
    <3>4. TokensInv' /\ FlightInv' /\ SpentInv'
      BY <1>1, <2>1, <3>1
         DEF SessionInv, TokensInv, FlightInv, SpentInv, SpentTokenOnlyAfterMishap
    <3> QED
      BY <3>2, <3>3, <3>4 DEF SessionInv
  <2>4. CASE c.kind \notin {"login", "profile"}
    <3>1. PICK out \in BOOLEAN : Finish(t, {s}, out) /\ cookie' \in {cookie, None}
      BY <1>3, <2>4 DEF ArriveOk
    <3> QED
      BY <1>1, <2>1, <3>1, CallEnds
  <2> QED
    BY <2>2, <2>3, <2>4
<1> QED
  BY <1>2, <1>3 DEF Arrive

\* A call that fails sets nothing.
LEMMA LoseCallStep ==
  ASSUME SessionInv, NEW t \in Tabs, NEW s \in Slots, LoseCall(t, s)
  PROVE  SessionInv'
  BY CallEnds DEF LoseCall, backend

\* What both ends of a refresh do to the posts and to the tab that asked.
PostEnds(p) ==
    /\ posts' = posts \ {p}
    /\ refreshInFlight' = IF p.tab = None THEN refreshInFlight
                          ELSE [refreshInFlight EXCEPT ![p.tab] = FALSE]
    /\ UNCHANGED <<issued, live, rotated>>

\* A refresh leaves the network; if its answer was lost after an exchange, a mishap.
LEMMA EndOfAPost ==
  ASSUME SessionInv, NEW p \in posts, PostEnds(p), CallsInv', NothingNew,
         \/ cookie' = cookie /\ mishap' = (mishap \/ p.reply \in Tokens)
         \/ cookie' = p.reply /\ p.reply \in Tokens /\ mishap' = mishap
  PROVE  SessionInv'
<1>1. LoginInv'
  BY NoNewAnswer DEF PostEnds
<1>2. TokensInv'
  BY DEF PostEnds, SessionInv, TokensInv
<1>3. FlightInv'
  BY NoneIsNothing DEF PostEnds, SessionInv, TokensInv, PostRecs, FlightInv
<1>4. SpentInv'
  BY DEF PostEnds, SessionInv, SpentInv, SpentTokenOnlyAfterMishap
<1> QED
  BY <1>1, <1>2, <1>3, <1>4 DEF SessionInv

\* The exchange's answer replaces the spent cookie.
LEMMA ArriveRefreshStep ==
  ASSUME SessionInv, NEW p \in posts, ArriveRefresh(p)
  PROVE  SessionInv'
<1>1. PostEnds(p) /\ mishap' = mishap
  BY DEF ArriveRefresh, PostEnds, backend
<1>2. p.reply \in Tokens \union {"401"} /\ p.tab \in Tabs \union {None}
  BY DEF ArriveRefresh, SessionInv, TokensInv, PostRecs
<1>3. cookie' = IF p.reply = "401" THEN cookie ELSE p.reply
  BY DEF ArriveRefresh
<1>4. CallsInv' /\ NothingNew
  <2>1. CASE p.tab = None
    <3>1. call' = call
      BY <2>1 DEF ArriveRefresh
    <3> QED
      BY <3>1 DEF SessionInv, CallsInv, LoginInv, NothingNew
  <2>2. CASE p.tab # None /\ p.reply = "401"
    <3>1. p.tab \in Tabs /\ Expire(p.tab)
      BY <1>2, <2>2 DEF ArriveRefresh
    <3>2. \A s \in Slots :
             \/ call'[p.tab][s] = None
             \/ call'[p.tab][s] = call[p.tab][s]
             \/ /\ call[p.tab][s] \in Calls
                /\ call'[p.tab][s] = SentCall(call[p.tab][s].kind, 1, "none", cookie)
      BY <3>1 DEF Expire, InTab, SessionInv, CallsInv
    <3>3. \A s \in Slots : call[p.tab][s] \in Calls =>
             /\ SentCall(call[p.tab][s].kind, 1, "none", cookie) \in Calls
             /\ SentCall(call[p.tab][s].kind, 1, "none", cookie).reply = "none"
      BY DEF SentCall, Calls, Stages, CallReplies, SessionInv, TokensInv
    <3>4. \A t \in Tabs \ {p.tab} : call'[t] = call[t]
      BY <3>1 DEF Expire, SessionInv, CallsInv
    <3>5. call' \in [Tabs -> [Slots -> Calls \union {None}]]
      <4>1. call' = [call EXCEPT ![p.tab] = call'[p.tab]] /\ DOMAIN call'[p.tab] = Slots
            /\ call'[p.tab] = [s \in Slots |-> call'[p.tab][s]]
        BY <3>1 DEF Expire, SessionInv, CallsInv
      <4>2. \A s \in Slots : call'[p.tab][s] \in Calls \union {None}
        BY <3>1, <3>2, <3>3 DEF SessionInv, CallsInv
      <4> QED
        BY <3>1, <4>1, <4>2 DEF SessionInv, CallsInv
    <3>6. NothingNew
      BY <3>1, <3>2, <3>3, <3>4, TokensAreNoReplies DEF NothingNew, SessionInv, LoginInv
    <3> QED
      BY <3>5, <3>6 DEF CallsInv
  <2>3. CASE p.tab # None /\ p.reply # "401"
    <3>1. p.tab \in Tabs /\ Resume(p.tab, p.reply) /\ p.reply \in Tokens
      BY <1>2, <2>3 DEF ArriveRefresh
    <3>2. \A s \in Slots :
             \/ call'[p.tab][s] = call[p.tab][s]
             \/ /\ call[p.tab][s] \in Calls
                /\ \E k \in {call[p.tab][s].kind, "profile"}, try \in {1, 2} :
                     call'[p.tab][s] = SentCall(k, try, "good", p.reply)
      <4> SUFFICES ASSUME NEW s \in Slots, call'[p.tab][s] # call[p.tab][s]
                   PROVE  /\ call[p.tab][s] \in Calls
                          /\ \E k \in {call[p.tab][s].kind, "profile"}, try \in {1, 2} :
                               call'[p.tab][s] = SentCall(k, try, "good", p.reply)
        OBVIOUS
      <4> DEFINE c == call[p.tab][s]
      <4>1. \/ call'[p.tab][s] = SentCall("profile", 1, "good", p.reply)
            \/ call'[p.tab][s] = SentCall(c.kind, 2, "good", p.reply)
            \/ call'[p.tab][s] = SentCall(c.kind, 1, "good", p.reply)
        BY <3>1 DEF Resume, SessionInv, CallsInv
      <4>2. s \in InTab(p.tab, "renewing") \union InTab(p.tab, "held")
        BY <3>1 DEF Resume, SessionInv, CallsInv
      <4>3. c \in Calls
        BY <3>1, <4>2 DEF InTab, SessionInv, CallsInv
      <4> QED
        BY <4>1, <4>3
    <3>3. \A s \in Slots : call[p.tab][s] \in Calls =>
             \A k \in {call[p.tab][s].kind, "profile"}, try \in {1, 2} :
               /\ SentCall(k, try, "good", p.reply) \in Calls
               /\ SentCall(k, try, "good", p.reply).reply = "none"
      BY <3>1 DEF SentCall, Calls, Kinds, Stages, CallReplies
    <3>4. \A t \in Tabs \ {p.tab} : call'[t] = call[t]
      BY <3>1 DEF Resume, SessionInv, CallsInv
    <3>5. call' \in [Tabs -> [Slots -> Calls \union {None}]]
      <4>1. call' = [call EXCEPT ![p.tab] = call'[p.tab]]
            /\ call'[p.tab] = [s \in Slots |-> call'[p.tab][s]]
        BY <3>1 DEF Resume, SessionInv, CallsInv
      <4>2. \A s \in Slots : call'[p.tab][s] \in Calls \union {None}
        BY <3>1, <3>2, <3>3 DEF SessionInv, CallsInv
      <4> QED
        BY <3>1, <4>1, <4>2 DEF SessionInv, CallsInv
    <3>6. NothingNew
      BY <3>1, <3>2, <3>3, <3>4, TokensAreNoReplies DEF NothingNew, SessionInv, LoginInv
    <3> QED
      BY <3>5, <3>6 DEF CallsInv
  <2> QED
    BY <2>1, <2>2, <2>3
<1>5. CASE p.reply = "401"
  <2>1. cookie' = cookie /\ mishap' = (mishap \/ p.reply \in Tokens)
    BY <1>1, <1>3, <1>5, TokensAreNoReplies DEF SessionInv, SpentInv
  <2> QED
    BY <1>1, <1>4, <2>1, EndOfAPost
<1>6. CASE p.reply # "401"
  BY <1>1, <1>2, <1>3, <1>4, <1>6, EndOfAPost
<1> QED
  BY <1>5, <1>6

\* A lost exchange leaves the spent token in the cookie, and is a mishap.
LEMMA LoseRefreshStep ==
  ASSUME SessionInv, NEW p \in posts, LoseRefresh(p)
  PROVE  SessionInv'
<1>1. PostEnds(p) /\ cookie' = cookie /\ mishap' = (mishap \/ p.reply \in Tokens)
  BY DEF LoseRefresh, PostEnds, backend
<1>2. CallsInv' /\ NothingNew
  <2>1. CASE p.tab = None
    <3>1. call' = call
      BY <2>1 DEF LoseRefresh
    <3> QED
      BY <3>1 DEF SessionInv, CallsInv, LoginInv, NothingNew
  <2>2. CASE p.tab # None
    <3>1. p.tab \in Tabs
      BY <2>2 DEF SessionInv, TokensInv, PostRecs
    <3>2. PICK S, out : Finish(p.tab, S, out)
      BY <2>2 DEF LoseRefresh
    <3> QED
      BY <3>1, <3>2, Finished
  <2> QED
    BY <2>1, <2>2
<1> QED
  BY <1>1, <1>2, EndOfAPost

-----------------------------------------------------------------------------
\* Every step keeps the invariant: one case for each action.
LEMMA SessionStep == SessionInv /\ [SessionNext]_sessionVars => SessionInv'
<1> SUFFICES ASSUME SessionInv, [SessionNext]_sessionVars PROVE SessionInv'
  OBVIOUS
<1>1. ASSUME NEW t \in Tabs, NEW s \in Slots, User(t, s) PROVE SessionInv'
  <2>1. PICK k \in Kinds : Begin(t, s, k)
    BY <1>1 DEF User, BeginRequest, BeginLogin, BeginLogout, Kinds
  <2> QED
    BY <2>1, BeginStep
<1>2. ASSUME NEW t \in Tabs, NEW s \in Slots, Network(t, s) PROVE SessionInv'
  BY <1>2, ServeRequestStep, ServeLoginStep, ServeLogoutStep, ArriveStep, LoseCallStep DEF Network
<1>3. ASSUME NEW t \in Tabs, Refreshing(t) PROVE SessionInv'
  BY <1>3, ServeRefreshStep, ArriveRefreshStep, LoseRefreshStep DEF Refreshing
<1>4. ASSUME NEW t \in Tabs, Reload(t) PROVE SessionInv'
  BY <1>4, ReloadStep
<1>5. ASSUME NEW t \in Tabs, ExpireAccess(t) PROVE SessionInv'
  BY <1>5, ElsewhereStep DEF ExpireAccess, backend
<1>6. CASE Revoked
  BY <1>6, ElsewhereStep DEF Revoked, Chains!Retire
<1>7. CASE UNCHANGED sessionVars
  BY <1>7, ElsewhereStep DEF sessionVars, backend
<1> QED
  BY <1>1, <1>2, <1>3, <1>4, <1>5, <1>6, <1>7 DEF SessionNext

\* The inductive invariant of a browser's tabs, their calls and the refresh cookie.
THEOREM SessionInvariant == SessionSpec => []SessionInv
<1>1. SessionInit => SessionInv
  BY SessionInitially
<1>2. SessionInv /\ [SessionNext]_sessionVars => SessionInv'
  BY SessionStep
<1> QED
  BY <1>1, <1>2, PTL DEF SessionSpec

\* However many tabs, concurrent calls, reloads and sign-ins there are, a spent refresh
\* token is presented again only after an exchange's answer was lost or two pages
\* refreshed at once: the shared promise of client.ts does what its comment says.
THEOREM ClientNeverReusesAToken == SessionSpec => []SpentTokenOnlyAfterMishap
<1>1. SessionInv => SpentTokenOnlyAfterMishap
  BY DEF SessionInv, SpentInv
<1> QED
  BY <1>1, SessionInvariant, PTL

-----------------------------------------------------------------------------
\* What a tab that is signed out still has under way.

TabsInv ==
    /\ accessToken \in [Tabs -> {"none", "good", "old"}]
    /\ status \in [Tabs -> {"loading", "unauthenticated", "authenticated"}]
    /\ straggler \in [Tabs -> BOOLEAN]

\* A refresh under way has a call that asked for it, which is no login.
AskedFor(t) ==
    /\ refreshInFlight[t] => \E s \in Slots : call[t][s] # None /\ call[t][s].stage = "renewing"
    /\ \A s \in Slots : call[t][s] # None /\ call[t][s].stage = "renewing"
                          => call[t][s].kind # "login"

\* Unless it signed out in the middle of other calls, a tab that is signed out has at most
\* a login under way, and a token only while the login's profile is being loaded.
Quiet(t) ==
    status[t] = "unauthenticated" /\ ~straggler[t] =>
        /\ \A s \in Slots : call[t][s] # None => call[t][s].kind \in {"login", "profile"}
        /\ \A s, o \in Slots : call[t][s] # None /\ call[t][o] # None => s = o
        /\ accessToken[t] = "none"
           \/ \E s \in Slots : call[t][s] # None /\ call[t][s].kind = "profile"

QuietInv == SessionInv /\ TabsInv /\ \A t \in Tabs : AskedFor(t) /\ Quiet(t)

\* The call that start-up makes.
LEMMA RestoreCall ==
  /\ Call("restore", "renewing", 1) # None
  /\ Call("restore", "renewing", 1).stage = "renewing"
  /\ Call("restore", "renewing", 1).kind = "restore"
<1>1. Call("restore", "renewing", 1) \in Calls
  BY NewCalls DEF Kinds, Stages
<1> QED
  BY <1>1, NoneIsNothing DEF Call

\* At start-up the restore is what asked for the refresh.
LEMMA QuietInitially == SessionInit => QuietInv
<1> SUFFICES ASSUME SessionInit PROVE QuietInv
  OBVIOUS
<1>1. TabsInv
  BY DEF SessionInit, TabsInv
<1>2. ASSUME NEW t \in Tabs PROVE AskedFor(t) /\ Quiet(t)
  <2>1. \A s \in Slots : call[t][s] = IF s = Boot THEN Call("restore", "renewing", 1) ELSE None
    BY DEF SessionInit
  <2>2. /\ Call("restore", "renewing", 1) # None
        /\ Call("restore", "renewing", 1).stage = "renewing"
        /\ Call("restore", "renewing", 1).kind = "restore"
    BY RestoreCall
  <2>3. AskedFor(t)
    BY <2>1, <2>2, BootIsASlot DEF AskedFor
  <2>4. Quiet(t)
    BY DEF SessionInit, Quiet
  <2> QED
    BY <2>3, <2>4
<1> QED
  BY <1>1, <1>2, SessionInitially DEF QuietInv

\* A step that leaves a tab alone keeps what is said of it.
LEMMA LeftAlone ==
  ASSUME NEW t \in Tabs, AskedFor(t), Quiet(t), call'[t] = call[t],
         refreshInFlight'[t] = refreshInFlight[t], status'[t] = status[t],
         straggler'[t] = straggler[t], accessToken'[t] = accessToken[t]
  PROVE  AskedFor(t)' /\ Quiet(t)'
  BY DEF AskedFor, Quiet

\* In a tab that is signed out only a login begins, and only when nothing else is under way.
LEMMA QuietBegin ==
  ASSUME QuietInv, SessionInv', NEW t \in Tabs, NEW s \in Slots, User(t, s)
  PROVE  QuietInv'
<1>1. PICK k \in Kinds : Begin(t, s, k) /\ (k = "login" \/ status[t] = "authenticated")
                        /\ (k = "login" => BeginLogin(t, s))
  BY DEF User, BeginRequest, BeginLogin, BeginLogout, Kinds
<1> DEFINE d == Dispatch(t, k)
<1>2. d \in Calls /\ d.kind = k /\ d.stage # "renewing"
  BY Dispatched DEF Dispatch, Call, SentCall, QuietInv
<1> HIDE DEF d
<1>3. /\ call[t][s] = None /\ call' = [call EXCEPT ![t][s] = d]
      /\ UNCHANGED <<accessToken, refreshInFlight, status, straggler>>
  BY <1>1 DEF Begin, d
<1>4. /\ call'[t][s] = d /\ \A o \in Slots \ {s} : call'[t][o] = call[t][o]
      /\ \A u \in Tabs \ {t} : call'[u] = call[u]
  BY <1>3 DEF QuietInv, SessionInv, CallsInv
<1>5. AskedFor(t)'
  BY <1>2, <1>3, <1>4 DEF QuietInv, AskedFor
<1>6. Quiet(t)'
  <2>1. k = "login" => \A o \in Slots : call[t][o] # None => call[t][o].kind \notin {"login", "profile"}
    BY <1>1 DEF BeginLogin
  <2> QED
    BY <1>1, <1>2, <1>3, <1>4, <2>1 DEF QuietInv, Quiet
<1>7. \A u \in Tabs \ {t} : AskedFor(u)' /\ Quiet(u)'
  BY <1>3, <1>4, LeftAlone DEF QuietInv
<1>8. TabsInv'
  BY <1>3 DEF QuietInv, TabsInv
<1> QED
  BY <1>5, <1>6, <1>7, <1>8 DEF QuietInv

\* A page that loads is not signed out yet.
LEMMA QuietReload ==
  ASSUME QuietInv, SessionInv', NEW t \in Tabs, Reload(t)
  PROVE  QuietInv'
<1> DEFINE restore == Call("restore", "renewing", 1)
<1>1. restore # None /\ restore.stage = "renewing" /\ restore.kind = "restore"
  BY RestoreCall
<1>2. /\ call'[t] = [s \in Slots |-> IF s = Boot THEN restore ELSE None]
      /\ status'[t] = "loading"
      /\ \A u \in Tabs \ {t} :
            /\ call'[u] = call[u] /\ refreshInFlight'[u] = refreshInFlight[u]
            /\ status'[u] = status[u] /\ straggler'[u] = straggler[u]
            /\ accessToken'[u] = accessToken[u]
  BY DEF Reload, QuietInv, TabsInv, SessionInv, CallsInv, FlightInv
<1> HIDE DEF restore
<1>3. AskedFor(t)'
  BY <1>1, <1>2, BootIsASlot DEF AskedFor
<1>4. Quiet(t)'
  BY <1>2 DEF Quiet
<1>5. \A u \in Tabs \ {t} : AskedFor(u)' /\ Quiet(u)'
  BY <1>2, LeftAlone DEF QuietInv
<1>6. TabsInv'
  BY DEF Reload, QuietInv, TabsInv
<1> QED
  BY <1>3, <1>4, <1>5, <1>6 DEF QuietInv

\* The back end's answers change neither what a call is nor whether it is there.
LEMMA QuietServe ==
  ASSUME QuietInv, SessionInv', NEW t \in Tabs, NEW s \in Slots,
         ServeRequest(t, s) \/ ServeLogin(t, s) \/ ServeLogout(t, s)
  PROVE  QuietInv'
<1>1. /\ call[t][s] # None /\ call[t][s].stage = "sent"
      /\ UNCHANGED <<accessToken, refreshInFlight, status, straggler>>
  BY DEF ServeRequest, ServeLogin, ServeLogout
<1>2. PICK r \in CallReplies : Reply(t, s, r)
  BY FreshToken DEF ServeRequest, ServeLogin, ServeLogout, CallReplies, QuietInv
<1> DEFINE c == call[t][s]
           d == [[c EXCEPT !.stage = "served"] EXCEPT !.reply = r]
<1>3. c \in Calls
  BY <1>1 DEF QuietInv, SessionInv, CallsInv
<1>4. d \in Calls /\ d.kind = c.kind /\ d.stage = "served"
  BY <1>3 DEF Calls, Stages
<1>5. call' = [call EXCEPT ![t][s] = d]
  BY <1>2 DEF Reply, QuietInv, SessionInv, CallsInv
<1> HIDE DEF d
<1>6. /\ call'[t][s] = d /\ d # None /\ \A o \in Slots \ {s} : call'[t][o] = call[t][o]
      /\ \A u \in Tabs \ {t} : call'[u] = call[u]
  BY <1>4, <1>5, NoneIsNothing DEF QuietInv, SessionInv, CallsInv
<1>7. AskedFor(t)'
  BY <1>1, <1>4, <1>6 DEF QuietInv, AskedFor
<1>8. Quiet(t)'
  BY <1>1, <1>4, <1>6 DEF QuietInv, Quiet
<1>9. \A u \in Tabs \ {t} : AskedFor(u)' /\ Quiet(u)'
  BY <1>1, <1>6, LeftAlone DEF QuietInv
<1>10. TabsInv'
  BY <1>1 DEF QuietInv, TabsInv
<1> QED
  BY <1>7, <1>8, <1>9, <1>10 DEF QuietInv

\* A step that changes one tab only.
OnlyIn(t) ==
    \A u \in Tabs \ {t} :
        /\ call'[u] = call[u] /\ refreshInFlight'[u] = refreshInFlight[u]
        /\ status'[u] = status[u] /\ straggler'[u] = straggler[u]
        /\ accessToken'[u] = accessToken[u]

\* Such a step is looked at in its own tab only.
LEMMA OneTab ==
  ASSUME QuietInv, SessionInv', TabsInv', NEW t \in Tabs, OnlyIn(t), AskedFor(t)', Quiet(t)'
  PROVE  QuietInv'
<1>1. \A u \in Tabs \ {t} : AskedFor(u)' /\ Quiet(u)'
  BY LeftAlone DEF QuietInv, OnlyIn
<1> QED
  BY <1>1 DEF QuietInv

\* Calls of a tab end; if one of them was the load of a profile, the tab signs out.
LEMMA QuietFinish ==
  ASSUME QuietInv, NEW t \in Tabs, NEW S, NEW out \in BOOLEAN, Finish(t, S, out),
         \A s \in Slots : s \in S /\ call[t][s] # None /\ call[t][s].kind = "profile" => out
  PROVE  /\ TabsInv' /\ Quiet(t)'
         /\ \A s \in Slots : call'[t][s] = IF s \in S THEN None ELSE call[t][s]
         /\ \A u \in Tabs \ {t} : /\ call'[u] = call[u] /\ status'[u] = status[u]
                                 /\ straggler'[u] = straggler[u]
                                 /\ accessToken'[u] = accessToken[u]
<1>1. TabsInv'
  BY DEF Finish, QuietInv, TabsInv
<1>2. /\ \A s \in Slots : call'[t][s] = IF s \in S THEN None ELSE call[t][s]
      /\ \A u \in Tabs \ {t} : /\ call'[u] = call[u] /\ status'[u] = status[u]
                              /\ straggler'[u] = straggler[u]
                              /\ accessToken'[u] = accessToken[u]
  BY DEF Finish, QuietInv, TabsInv, SessionInv, CallsInv
<1>3. CASE out
  <2>1. /\ accessToken'[t] = "none"
        /\ straggler'[t] = \E s \in Slots : call'[t][s] # None
    BY <1>3 DEF Finish, QuietInv, TabsInv
  <2>2. Quiet(t)'
    BY <2>1 DEF Quiet
  <2> QED
    BY <1>1, <1>2, <2>2
<1>4. CASE ~out
  <2>1. accessToken'[t] = accessToken[t] /\ straggler'[t] = straggler[t] /\ status'[t] = status[t]
    BY <1>4 DEF Finish
  <2>2. \A s \in Slots : call'[t][s] # None => call'[t][s] = call[t][s]
    BY <1>2
  <2>3. \A s \in Slots : call[t][s] # None /\ call[t][s].kind = "profile" => call'[t][s] = call[t][s]
    BY <1>2, <1>4
  <2>4. Quiet(t)
    BY DEF QuietInv
  <2>5. Quiet(t)'
    BY <2>1, <2>2, <2>3, <2>4 DEF Quiet
  <2> QED
    BY <1>1, <1>2, <2>5
<1> QED
  BY <1>3, <1>4

\* A profile that fails to load takes the token with it.
LEMMA QuietLoseCall ==
  ASSUME QuietInv, SessionInv', NEW t \in Tabs, NEW s \in Slots, LoseCall(t, s)
  PROVE  QuietInv'
<1>1. /\ call[t][s] # None /\ call[t][s].stage # "renewing" /\ refreshInFlight' = refreshInFlight
      /\ Finish(t, {s}, SignsOut(t, {s}))
  BY DEF LoseCall, InTab
<1>2. SignsOut(t, {s}) \in BOOLEAN /\ (call[t][s].kind = "profile" => SignsOut(t, {s}))
  BY DEF SignsOut
<1>3. /\ TabsInv' /\ Quiet(t)'
      /\ \A o \in Slots : call'[t][o] = IF o = s THEN None ELSE call[t][o]
      /\ OnlyIn(t)
  BY <1>1, <1>2, QuietFinish DEF OnlyIn
<1>4. AskedFor(t)'
  BY <1>1, <1>3 DEF QuietInv, AskedFor
<1> QED
  BY <1>3, <1>4, OneTab

\* A refused call asks for a refresh: in a tab that is signed out, only a profile does.
LEMMA QuietRenew ==
  ASSUME QuietInv, SessionInv', NEW t \in Tabs, NEW s \in Slots, call[t][s] # None,
         call[t][s].kind # "login", Renew(t, s)
  PROVE  QuietInv'
<1> DEFINE c == call[t][s]
           d == Call(c.kind, "renewing", 1)
<1>1. d # None /\ d.kind = c.kind /\ d.stage = "renewing"
  <2>1. c.kind \in Kinds
    BY DEF QuietInv, SessionInv, CallsInv, Calls
  <2>2. d \in Calls
    BY <2>1, NewCalls DEF Stages
  <2> QED
    BY <2>2, NoneIsNothing DEF Call
<1>2. /\ call' = [call EXCEPT ![t][s] = d]
      /\ UNCHANGED <<accessToken, status, straggler>>
      /\ \A u \in Tabs \ {t} : refreshInFlight'[u] = refreshInFlight[u]
  BY DEF Renew, QuietInv, SessionInv, CallsInv, FlightInv
<1> HIDE DEF d
<1>3. /\ call'[t][s] = d /\ \A o \in Slots \ {s} : call'[t][o] = call[t][o]
      /\ \A u \in Tabs \ {t} : call'[u] = call[u]
  BY <1>2 DEF QuietInv, SessionInv, CallsInv
<1>4. AskedFor(t)'
  BY <1>1, <1>3 DEF QuietInv, AskedFor
<1>5. Quiet(t)'
  BY <1>1, <1>2, <1>3 DEF QuietInv, Quiet
<1>6. TabsInv' /\ OnlyIn(t)
  BY <1>2, <1>3 DEF QuietInv, TabsInv, OnlyIn
<1> QED
  BY <1>4, <1>5, <1>6, OneTab

\* A login's answer stores the token and starts to load the profile in the same step.
LEMMA QuietArrive ==
  ASSUME QuietInv, SessionInv', NEW t \in Tabs, NEW s \in Slots, Arrive(t, s)
  PROVE  QuietInv'
<1> DEFINE c == call[t][s]
<1>1. c # None /\ c.stage = "served"
  BY DEF Arrive, InTab
<1>2. ASSUME NEW out \in BOOLEAN, Finish(t, {s}, out), refreshInFlight' = refreshInFlight,
             c.kind = "profile" => out
      PROVE  QuietInv'
  <2>1. /\ TabsInv' /\ Quiet(t)'
        /\ \A o \in Slots : call'[t][o] = IF o = s THEN None ELSE call[t][o]
        /\ OnlyIn(t)
    BY <1>2, QuietFinish DEF OnlyIn
  <2>2. AskedFor(t)'
    BY <1>1, <1>2, <2>1 DEF QuietInv, AskedFor
  <2> QED
    BY <2>1, <2>2, OneTab
<1>3. CASE ArriveRefused(t, s)
  <2>1. CASE c.try = 1 /\ c.kind # "login"
    <3>1. Renew(t, s)
      BY <1>3, <2>1 DEF ArriveRefused
    <3> QED
      BY <1>1, <2>1, <3>1, QuietRenew
  <2>2. CASE ~(c.try = 1 /\ c.kind # "login")
    <3>1. Finish(t, {s}, SignsOut(t, {s})) /\ refreshInFlight' = refreshInFlight
      BY <1>3, <2>2 DEF ArriveRefused
    <3>2. SignsOut(t, {s}) \in BOOLEAN /\ (c.kind = "profile" => SignsOut(t, {s}))
      BY DEF SignsOut
    <3> QED
      BY <1>2, <3>1, <3>2
  <2> QED
    BY <2>1, <2>2
<1>4. CASE ArriveOk(t, s) /\ c.kind = "login"
  <2> DEFINE d == IF refreshInFlight[t] THEN Call("profile", "held", 1)
                  ELSE SentCall("profile", 1, "good", c.reply)
  <2>1. /\ accessToken' = [accessToken EXCEPT ![t] = "good"]
        /\ call' = [call EXCEPT ![t][s] = d]
        /\ UNCHANGED <<status, straggler, refreshInFlight>>
    BY <1>4 DEF ArriveOk
  <2>2. d # None /\ d.kind = "profile" /\ d.stage # "renewing"
    <3>1. c.reply \in Tokens
      BY <1>1, <1>4 DEF ArriveOk, QuietInv, SessionInv, CallsInv, Calls, CallReplies, LoginInv
    <3>2. d \in Calls
      BY <3>1, NewCalls DEF Kinds, Stages
    <3> QED
      BY <3>2, NoneIsNothing DEF Call, SentCall
  <2> HIDE DEF d
  <2>3. /\ call'[t][s] = d /\ \A o \in Slots \ {s} : call'[t][o] = call[t][o]
        /\ \A u \in Tabs \ {t} : call'[u] = call[u]
    BY <2>1 DEF QuietInv, SessionInv, CallsInv
  <2>4. AskedFor(t)'
    BY <1>1, <2>1, <2>2, <2>3 DEF QuietInv, AskedFor
  <2>5. Quiet(t)'
    BY <1>1, <2>1, <2>2, <2>3 DEF QuietInv, Quiet
  <2>6. TabsInv' /\ OnlyIn(t)
    BY <2>1, <2>3 DEF QuietInv, TabsInv, OnlyIn
  <2> QED
    BY <2>4, <2>5, <2>6, OneTab
<1>5. CASE ArriveOk(t, s) /\ c.kind = "profile"
  <2>1. /\ call' = [call EXCEPT ![t][s] = None]
        /\ status' = [status EXCEPT ![t] = "authenticated"]
        /\ UNCHANGED <<accessToken, straggler, refreshInFlight>>
    BY <1>5 DEF ArriveOk
  <2>2. /\ call'[t][s] = None /\ \A o \in Slots \ {s} : call'[t][o] = call[t][o]
        /\ \A u \in Tabs \ {t} : call'[u] = call[u]
    BY <2>1 DEF QuietInv, SessionInv, CallsInv
  <2>3. AskedFor(t)'
    BY <1>1, <2>1, <2>2 DEF QuietInv, AskedFor
  <2>4. Quiet(t)' /\ TabsInv' /\ OnlyIn(t)
    BY <2>1, <2>2 DEF QuietInv, TabsInv, Quiet, OnlyIn
  <2> QED
    BY <2>3, <2>4, OneTab
<1>6. CASE ArriveOk(t, s) /\ c.kind \notin {"login", "profile"}
  <2>1. PICK out \in BOOLEAN : Finish(t, {s}, out) /\ refreshInFlight' = refreshInFlight
    BY <1>6 DEF ArriveOk
  <2> QED
    BY <1>2, <1>6, <2>1
<1> QED
  BY <1>3, <1>4, <1>5, <1>6 DEF Arrive

\* A step that changes no tab at all.
LEMMA QuietElsewhere ==
  ASSUME QuietInv, SessionInv',
         UNCHANGED <<accessToken, refreshInFlight, call, status, straggler>>
  PROVE  QuietInv'
<1>1. \A t \in Tabs : AskedFor(t)' /\ Quiet(t)'
  BY LeftAlone DEF QuietInv
<1>2. TabsInv'
  BY DEF QuietInv, TabsInv
<1> QED
  BY <1>1, <1>2 DEF QuietInv

\* A token that expires was there before.
LEMMA QuietExpireAccess ==
  ASSUME QuietInv, SessionInv', NEW t \in Tabs, ExpireAccess(t)
  PROVE  QuietInv'
<1>1. /\ accessToken[t] = "good" /\ accessToken' = [accessToken EXCEPT ![t] = "old"]
      /\ UNCHANGED <<refreshInFlight, call, status, straggler>>
  BY DEF ExpireAccess
<1>2. TabsInv' /\ OnlyIn(t)
  BY <1>1 DEF QuietInv, TabsInv, OnlyIn
<1>3. AskedFor(t)'
  BY <1>1 DEF QuietInv, AskedFor
<1>4. Quiet(t)'
  BY <1>1 DEF QuietInv, TabsInv, Quiet
<1> QED
  BY <1>2, <1>3, <1>4, OneTab

\* No session any more: whoever asked gets nothing, and the tab is signed out.
LEMMA QuietExpire ==
  ASSUME QuietInv, SessionInv', NEW t \in Tabs, Expire(t),
         refreshInFlight' = [refreshInFlight EXCEPT ![t] = FALSE]
  PROVE  QuietInv'
<1>1. /\ accessToken'[t] = "none"
      /\ straggler'[t] = \E s \in Slots : call'[t][s] # None
      /\ refreshInFlight'[t] = FALSE
  BY DEF Expire, QuietInv, TabsInv, SessionInv, FlightInv
<1>2. Quiet(t)'
  BY <1>1 DEF Quiet
<1>3. ASSUME NEW s \in Slots, call'[t][s] # None PROVE call'[t][s].stage # "renewing"
  <2>1. call'[t][s] = IF s \in InTab(t, "renewing") THEN None
                      ELSE IF s \in InTab(t, "held") THEN SentCall(call[t][s].kind, 1, "none", cookie)
                      ELSE call[t][s]
    BY DEF Expire, QuietInv, SessionInv, CallsInv
  <2> QED
    BY <1>3, <2>1 DEF InTab, SentCall
<1>4. AskedFor(t)'
  BY <1>1, <1>3 DEF AskedFor
<1>5. TabsInv' /\ OnlyIn(t)
  BY DEF Expire, QuietInv, TabsInv, OnlyIn, SessionInv, CallsInv, FlightInv
<1> QED
  BY <1>2, <1>4, <1>5, OneTab

\* A new token: in a tab that is signed out it is the profile's, which goes on with it.
LEMMA QuietResume ==
  ASSUME QuietInv, SessionInv', NEW t \in Tabs, NEW n \in Tokens, Resume(t, n),
         refreshInFlight[t], refreshInFlight' = [refreshInFlight EXCEPT ![t] = FALSE]
  PROVE  QuietInv'
<1>1. /\ status'[t] = status[t] /\ straggler'[t] = straggler[t] /\ ~refreshInFlight'[t]
  BY DEF Resume, QuietInv, SessionInv, FlightInv
<1>2. ASSUME NEW s \in Slots
      PROVE  /\ s \in InTab(t, "renewing") => \E k \in {call[t][s].kind, "profile"}, try \in {1, 2} :
                   /\ call[t][s].kind = "profile" => k = "profile"
                   /\ call'[t][s] = SentCall(k, try, "good", n)
             /\ s \in InTab(t, "held") =>
                   call'[t][s] = SentCall(call[t][s].kind, 1, "good", n)
             /\ s \notin InTab(t, "renewing") \union InTab(t, "held") => call'[t][s] = call[t][s]
  <2>1. call'[t][s] = IF s \in InTab(t, "renewing")
                        THEN IF call[t][s].kind = "restore" THEN SentCall("profile", 1, "good", n)
                             ELSE SentCall(call[t][s].kind, 2, "good", n)
                      ELSE IF s \in InTab(t, "held") THEN SentCall(call[t][s].kind, 1, "good", n)
                      ELSE call[t][s]
    BY DEF Resume, QuietInv, SessionInv, CallsInv
  <2>2. s \in InTab(t, "held") => s \notin InTab(t, "renewing")
    BY DEF InTab
  <2> QED
    BY <2>1, <2>2
<1>3. ASSUME NEW s \in Slots, call'[t][s] # None PROVE call'[t][s].stage # "renewing"
  <2>1. \A k, try : SentCall(k, try, "good", n).stage = "sent"
    BY DEF SentCall
  <2>2. CASE s \in InTab(t, "renewing") \union InTab(t, "held")
    <3>1. PICK k, try : call'[t][s] = SentCall(k, try, "good", n)
      BY <1>2, <2>2
    <3> QED
      BY <2>1, <3>1
  <2>3. CASE s \notin InTab(t, "renewing") \union InTab(t, "held")
    <3>1. call'[t][s] = call[t][s]
      BY <1>2, <2>3
    <3> QED
      BY <1>3, <2>3, <3>1 DEF InTab
  <2> QED
    BY <2>2, <2>3
<1>4. AskedFor(t)'
  BY <1>1, <1>3 DEF AskedFor
<1>5. Quiet(t)'
  <2> SUFFICES ASSUME status[t] = "unauthenticated", ~straggler[t]
               PROVE  Quiet(t)'
    BY <1>1 DEF Quiet
  <2>1. PICK s \in Slots : call[t][s] # None /\ call[t][s].stage = "renewing"
    BY DEF QuietInv, AskedFor
  <2>2. call[t][s].kind = "profile"
    BY <2>1 DEF QuietInv, AskedFor, Quiet
  <2>3. \A o \in Slots \ {s} : call[t][o] = None
    BY <2>1 DEF QuietInv, Quiet
  <2>4. \A o \in Slots \ {s} : call'[t][o] = None
    BY <1>2, <2>3 DEF InTab
  <2>5. PICK try \in {1, 2} : call'[t][s] = SentCall("profile", try, "good", n)
    BY <1>2, <2>1, <2>2 DEF InTab
  <2>6. call'[t][s] # None /\ call'[t][s].kind = "profile"
    <3>1. SentCall("profile", try, "good", n) \in Calls
      BY NewCalls DEF Kinds, Stages
    <3> QED
      BY <2>5, <3>1, NoneIsNothing DEF SentCall
  <2> QED
    BY <2>4, <2>6 DEF Quiet
<1>6. TabsInv' /\ OnlyIn(t)
  BY DEF Resume, QuietInv, TabsInv, OnlyIn, SessionInv, CallsInv, FlightInv
<1> QED
  BY <1>4, <1>5, <1>6, OneTab

\* The three ways a refresh ends, for a page that is there or gone.
LEMMA QuietRefreshEnds ==
  ASSUME QuietInv, SessionInv', NEW p \in posts, ArriveRefresh(p) \/ LoseRefresh(p)
  PROVE  QuietInv'
<1> DEFINE t == p.tab
<1>1. CASE t = None
  <2>1. UNCHANGED <<accessToken, refreshInFlight, call, status, straggler>>
    BY <1>1 DEF ArriveRefresh, LoseRefresh
  <2> QED
    BY <2>1, QuietElsewhere
<1>2. CASE t # None
  <2>1. t \in Tabs /\ refreshInFlight[t] /\ p.reply \in Tokens \union {"none", "401"}
    BY <1>2 DEF QuietInv, SessionInv, TokensInv, FlightInv, PostRecs
  <2>2. refreshInFlight' = [refreshInFlight EXCEPT ![t] = FALSE]
    BY <1>2 DEF ArriveRefresh, LoseRefresh
  <2>3. CASE ArriveRefresh(p) /\ p.reply = "401"
    <3>1. Expire(t)
      BY <1>2, <2>3 DEF ArriveRefresh
    <3> QED
      BY <2>1, <2>2, <3>1, QuietExpire
  <2>4. CASE ArriveRefresh(p) /\ p.reply # "401"
    <3>1. Resume(t, p.reply) /\ p.reply \in Tokens
      BY <1>2, <2>1, <2>4 DEF ArriveRefresh
    <3> QED
      BY <2>1, <2>2, <3>1, QuietResume
  <2>5. CASE LoseRefresh(p)
    <3> DEFINE waiting == InTab(t, "renewing") \union InTab(t, "held")
    <3>1. Finish(t, waiting, SignsOut(t, waiting))
      BY <1>2, <2>5 DEF LoseRefresh
    <3>2. /\ SignsOut(t, waiting) \in BOOLEAN
          /\ \A s \in Slots : s \in waiting /\ call[t][s].kind = "profile" => SignsOut(t, waiting)
      BY DEF SignsOut
    <3>3. /\ TabsInv' /\ Quiet(t)'
          /\ \A s \in Slots : call'[t][s] = IF s \in waiting THEN None ELSE call[t][s]
          /\ \A u \in Tabs \ {t} : /\ call'[u] = call[u] /\ status'[u] = status[u]
                                  /\ straggler'[u] = straggler[u]
                                  /\ accessToken'[u] = accessToken[u]
      <4> HIDE DEF waiting
      <4> QED
        BY <2>1, <3>1, <3>2, QuietFinish
    <3>4. OnlyIn(t) /\ ~refreshInFlight'[t]
      BY <2>1, <2>2, <3>3 DEF OnlyIn, QuietInv, SessionInv, FlightInv
    <3>5. \A s \in Slots : call'[t][s] # None => call'[t][s].stage # "renewing"
      BY <3>3 DEF InTab
    <3>6. AskedFor(t)'
      BY <3>4, <3>5 DEF AskedFor
    <3> QED
      BY <2>1, <3>3, <3>4, <3>6, OneTab
  <2> QED
    BY <2>3, <2>4, <2>5
<1> QED
  BY <1>1, <1>2

-----------------------------------------------------------------------------
\* Every step keeps QuietInv: one case for each action.
LEMMA QuietStep == QuietInv /\ [SessionNext]_sessionVars => QuietInv'
<1> SUFFICES ASSUME QuietInv, [SessionNext]_sessionVars PROVE QuietInv'
  OBVIOUS
<1>1. SessionInv'
  BY SessionStep DEF QuietInv
<1>2. ASSUME NEW t \in Tabs, NEW s \in Slots, User(t, s) PROVE QuietInv'
  BY <1>1, <1>2, QuietBegin
<1>3. ASSUME NEW t \in Tabs, NEW s \in Slots, Network(t, s) PROVE QuietInv'
  BY <1>1, <1>3, QuietServe, QuietArrive, QuietLoseCall DEF Network
<1>4. ASSUME NEW t \in Tabs, Refreshing(t) PROVE QuietInv'
  <2>1. PICK p \in posts : ServeRefresh(p) \/ ArriveRefresh(p) \/ LoseRefresh(p)
    BY <1>4 DEF Refreshing
  <2>2. CASE ServeRefresh(p)
    BY <1>1, <2>2, QuietElsewhere DEF ServeRefresh
  <2> QED
    BY <1>1, <2>1, <2>2, QuietRefreshEnds
<1>5. ASSUME NEW t \in Tabs, Reload(t) PROVE QuietInv'
  BY <1>1, <1>5, QuietReload
<1>6. ASSUME NEW t \in Tabs, ExpireAccess(t) PROVE QuietInv'
  BY <1>1, <1>6, QuietExpireAccess
<1>7. CASE Revoked
  BY <1>1, <1>7, QuietElsewhere DEF Revoked
<1>8. CASE UNCHANGED sessionVars
  BY <1>1, <1>8, QuietElsewhere DEF sessionVars
<1> QED
  BY <1>2, <1>3, <1>4, <1>5, <1>6, <1>7, <1>8 DEF SessionNext

\* Whatever the order of answers, losses and reloads: a tab that says it is signed out,
\* waits for no call and left none behind when it signed out, holds no access token.
THEOREM ClientSignedOutForgets == SessionSpec => []SignedOutForgets
<1>1. SessionInit => QuietInv
  BY QuietInitially
<1>2. QuietInv /\ [SessionNext]_sessionVars => QuietInv'
  BY QuietStep
<1>3. QuietInv => SignedOutForgets
  BY DEF QuietInv, Quiet, SignedOutForgets
<1> QED
  BY <1>1, <1>2, <1>3, PTL DEF SessionSpec
-----------------------------------------------------------------------------
\* A tab's flag is up only while its refresh is in the network.
Flagged == \A t \in Tabs : refreshInFlight[t] => \E p \in posts : p.tab = t

TypedInv == QuietInv /\ Flagged

\* A step that neither raises a flag nor takes a post away keeps the flags true.
LEMMA FlagsStay ==
  ASSUME Flagged, UNCHANGED refreshInFlight, posts \subseteq posts'
  PROVE  Flagged'
  BY DEF Flagged

\* The flag and the post of a refresh come with the first call that asks for it.
LEMMA RenewFlags ==
  ASSUME SessionInv, Flagged, NEW t \in Tabs, NEW s \in Slots, Renew(t, s)
  PROVE  Flagged'
<1>1. CASE refreshInFlight[t]
  BY <1>1, FlagsStay DEF Renew
<1>2. CASE ~refreshInFlight[t]
  <2>1. /\ posts' = posts \union {Post(t, s)} /\ Post(t, s).tab = t
        /\ \A u \in Tabs \ {t} : refreshInFlight'[u] = refreshInFlight[u]
    BY <1>2 DEF Renew, Post, SessionInv, FlightInv
  <2> QED
    BY <2>1 DEF Flagged
<1> QED
  BY <1>1, <1>2

\* What becomes of a flag when its tab's refresh ends: it goes down with the post.
LEMMA EndedFlags ==
  ASSUME SessionInv, Flagged, NEW p \in posts, posts' = posts \ {p},
         IF p.tab = None THEN UNCHANGED refreshInFlight
         ELSE refreshInFlight' = [refreshInFlight EXCEPT ![p.tab] = FALSE]
  PROVE  Flagged'
<1> SUFFICES ASSUME NEW t \in Tabs, refreshInFlight'[t] PROVE \E q \in posts' : q.tab = t
  BY DEF Flagged
<1>1. p.tab \in Tabs \union {None} /\ None \notin Tabs
  BY NoneIsNothing DEF SessionInv, TokensInv, PostRecs
<1>2. refreshInFlight[t] /\ p.tab # t
  BY <1>1 DEF SessionInv, FlightInv
<1>3. PICK q \in posts : q.tab = t
  BY <1>2 DEF Flagged
<1> QED
  BY <1>2, <1>3

\* Every step keeps TypedInv: one case for each action.
LEMMA TypedStep == TypedInv /\ [SessionNext]_sessionVars => TypedInv'
<1> SUFFICES ASSUME TypedInv, [SessionNext]_sessionVars PROVE TypedInv'
  OBVIOUS
<1>0. SessionInv /\ Flagged /\ QuietInv'
  BY QuietStep DEF TypedInv, QuietInv
<1> SUFFICES Flagged'
  BY <1>0 DEF TypedInv
<1>1. ASSUME NEW t \in Tabs, NEW s \in Slots, User(t, s) PROVE Flagged'
  <2>1. UNCHANGED <<refreshInFlight, posts>>
    BY <1>1 DEF User, BeginRequest, BeginLogin, BeginLogout, Begin
  <2> QED
    BY <1>0, <2>1, FlagsStay
<1>2. ASSUME NEW t \in Tabs, NEW s \in Slots, Network(t, s) PROVE Flagged'
  <2>1. UNCHANGED <<refreshInFlight, posts>> \/ Renew(t, s)
    <3>1. CASE ServeRequest(t, s)
      BY <3>1 DEF ServeRequest
    <3>2. CASE ServeLogin(t, s)
      BY <3>2 DEF ServeLogin
    <3>3. CASE ServeLogout(t, s)
      BY <3>3 DEF ServeLogout
    <3>4. CASE Arrive(t, s)
      BY <3>4 DEF Arrive, ArriveOk, ArriveRefused
    <3>5. CASE LoseCall(t, s)
      BY <3>5 DEF LoseCall
    <3> QED
      BY <1>2, <3>1, <3>2, <3>3, <3>4, <3>5 DEF Network
  <2> QED
    BY <1>0, <2>1, FlagsStay, RenewFlags
<1>3. ASSUME NEW t \in Tabs, Refreshing(t) PROVE Flagged'
  <2>1. PICK p \in posts : ServeRefresh(p) \/ ArriveRefresh(p) \/ LoseRefresh(p)
    BY <1>3 DEF Refreshing
  <2>2. CASE ServeRefresh(p)
    <3>1. PICK r : posts' = (posts \ {p}) \union {[p EXCEPT !.reply = r]}
      BY <2>2 DEF ServeRefresh
    <3>2. [p EXCEPT !.reply = r].tab = p.tab
      BY <1>0 DEF SessionInv, TokensInv, PostRecs
    <3>3. UNCHANGED refreshInFlight
      BY <2>2 DEF ServeRefresh
    <3> QED
      BY <1>0, <3>1, <3>2, <3>3 DEF Flagged
  <2>3. CASE ArriveRefresh(p)
    BY <1>0, <2>3, EndedFlags DEF ArriveRefresh
  <2>4. CASE LoseRefresh(p)
    BY <1>0, <2>4, EndedFlags DEF LoseRefresh
  <2> QED
    BY <2>1, <2>2, <2>3, <2>4
<1>4. ASSUME NEW t \in Tabs, Reload(t) PROVE Flagged'
  <2>1. /\ Post(t, Boot) \in posts' /\ Post(t, Boot).tab = t
        /\ \A q \in posts : q.tab # t => q \in posts'
        /\ \A u \in Tabs \ {t} : refreshInFlight'[u] = refreshInFlight[u]
    BY <1>0, <1>4 DEF Reload, Post, SessionInv, FlightInv
  <2> QED
    BY <1>0, <2>1 DEF Flagged
<1>5. ASSUME NEW t \in Tabs, ExpireAccess(t) PROVE Flagged'
  BY <1>0, <1>5, FlagsStay DEF ExpireAccess
<1>6. CASE Revoked
  BY <1>0, <1>6, FlagsStay DEF Revoked
<1>7. CASE UNCHANGED sessionVars
  BY <1>0, <1>7, FlagsStay DEF sessionVars
<1> QED
  BY <1>1, <1>2, <1>3, <1>4, <1>5, <1>6, <1>7 DEF SessionNext

\* At start-up every tab's flag is up, and its refresh in the network.
LEMMA TypedInitially == SessionInit => TypedInv
<1> SUFFICES ASSUME SessionInit PROVE TypedInv
  OBVIOUS
<1>1. \A t \in Tabs : Post(t, Boot) \in posts /\ Post(t, Boot).tab = t
  BY DEF SessionInit, Post
<1> QED
  BY <1>1, QuietInitially DEF TypedInv, Flagged

\* The invariant's parts that the type invariant of the tabs is made of.
LEMMA TypedGives == TypedInv => SessionTypeOK
<1> SUFFICES ASSUME TypedInv PROVE SessionTypeOK
  OBVIOUS
<1>1. SessionInv /\ TabsInv /\ Flagged
  BY DEF TypedInv, QuietInv
<1>2. \A t \in Tabs : (\E p \in posts : p.tab = t) = refreshInFlight[t]
  <2> TAKE t \in Tabs
  <2>1. (\E p \in posts : p.tab = t) => refreshInFlight[t]
    BY <1>1 DEF SessionInv, FlightInv
  <2>2. refreshInFlight[t] => \E p \in posts : p.tab = t
    BY <1>1 DEF Flagged
  <2>3. refreshInFlight[t] \in BOOLEAN
    BY <1>1 DEF SessionInv, FlightInv
  <2> QED
    BY <2>1, <2>2, <2>3, Zenon
<1> QED
  BY <1>1, <1>2 DEF SessionTypeOK, SessionInv, CallsInv, TokensInv, FlightInv, TabsInv

\* The shared promise of client.ts and the refresh that it stands for come and go together.
THEOREM ClientTyped == SessionSpec => []SessionTypeOK
<1>1. SessionInit => TypedInv
  BY TypedInitially
<1>2. TypedInv /\ [SessionNext]_sessionVars => TypedInv'
  BY TypedStep
<1>3. TypedInv => SessionTypeOK
  BY TypedGives
<1> QED
  BY <1>1, <1>2, <1>3, PTL DEF SessionSpec
-----------------------------------------------------------------------------
\* What a step of the front end does to the back end's tokens is a step of their design.
LEMMA BackendStep ==
  SessionInv /\ [SessionNext]_sessionVars => [Chains!ChainNext]_(Chains!chainVars)
<1> SUFFICES ASSUME SessionInv, [SessionNext]_sessionVars
             PROVE  [Chains!ChainNext]_(Chains!chainVars)
  OBVIOUS
<1>1. UNCHANGED backend => [Chains!ChainNext]_(Chains!chainVars)
  BY DEF backend, Chains!chainVars
<1>2. ASSUME NEW t \in Tabs, NEW s \in Slots, User(t, s) PROVE UNCHANGED backend
  BY <1>2 DEF User, BeginRequest, BeginLogin, BeginLogout, Begin
<1>3. ASSUME NEW t \in Tabs, NEW s \in Slots, Network(t, s)
      PROVE  [Chains!ChainNext]_(Chains!chainVars)
  <2>1. CASE ServeRequest(t, s) \/ Arrive(t, s) \/ LoseCall(t, s)
    BY <1>1, <2>1 DEF ServeRequest, Arrive, LoseCall
  <2>2. CASE ServeLogin(t, s)
    <3>1. ASSUME NEW n \in NextToken, Chains!Open(n) PROVE Chains!ChainNext
      BY <3>1, FreshToken DEF SessionInv, TokensInv, Chains!ChainNext
    <3> QED
      BY <1>1, <2>2, <3>1 DEF ServeLogin
  <2>3. CASE ServeLogout(t, s)
    <3>1. {call[t][s].sent} \intersect live \in SUBSET live
      OBVIOUS
    <3> QED
      BY <1>1, <2>3, <3>1 DEF ServeLogout, Chains!ChainNext
  <2> QED
    BY <1>3, <2>1, <2>2, <2>3 DEF Network
<1>4. ASSUME NEW t \in Tabs, Refreshing(t) PROVE [Chains!ChainNext]_(Chains!chainVars)
  <2>1. PICK p \in posts : ServeRefresh(p) \/ ArriveRefresh(p) \/ LoseRefresh(p)
    BY <1>4 DEF Refreshing
  <2>2. CASE ArriveRefresh(p) \/ LoseRefresh(p)
    BY <1>1, <2>2 DEF ArriveRefresh, LoseRefresh
  <2>3. CASE ServeRefresh(p)
    <3>1. PICK r \in NextToken \union {"401"} :
             \/ r \in Tokens /\ p.sent \in live /\ Chains!Rotate(p.sent, r)
             \/ r = "401" /\ p.sent \in issued \ live
                          /\ Chains!Retire({k \in live : family[k] = family[p.sent]})
             \/ r = "401" /\ UNCHANGED backend
      BY <2>3 DEF ServeRefresh
    <3>2. live \subseteq Tokens
      BY DEF SessionInv, TokensInv
    <3>3. {k \in live : family[k] = family[p.sent]} \in SUBSET live
      OBVIOUS
    <3> QED
      BY <1>1, <3>1, <3>2, <3>3 DEF Chains!ChainNext
  <2> QED
    BY <2>1, <2>2, <2>3
<1>5. ASSUME NEW t \in Tabs, Reload(t) \/ ExpireAccess(t) PROVE UNCHANGED backend
  BY <1>5 DEF Reload, ExpireAccess
<1>6. CASE Revoked
  <2>1. live \in SUBSET live
    OBVIOUS
  <2> QED
    BY <1>6, <2>1 DEF Revoked, Chains!ChainNext
<1>7. CASE UNCHANGED sessionVars
  BY <1>1, <1>7 DEF sessionVars, backend
<1> QED
  BY <1>1, <1>2, <1>3, <1>4, <1>5, <1>6, <1>7 DEF SessionNext

\* The back end that the tabs talk to is the design that AuthService implements
\* (SessionsImplementTokenChains), whatever the tabs send and when.
THEOREM ClientUsesTokenChains == SessionSpec => Chains!ChainSpec
<1>1. SessionInit => Chains!ChainInit
  BY DEF SessionInit
<1> QED
  BY <1>1, BackendStep, SessionInvariant, PTL DEF SessionSpec, Chains!ChainSpec
=============================================================================
