----------------------------- MODULE MCFrontend -----------------------------
(***************************************************************************)
(* The front end's modules for TLC.  They share none of the state that they *)
(* model, so one run checks them side by side: `turn' is the module that    *)
(* moves, from one of its initial states, and the others rest in theirs.    *)
(***************************************************************************)
EXTENDS ClientSession, Navigation, QueryCache, BrowsePage, MCListingDetail,
        CreateListingPage, EditListingPage, AdminUsersPage, AdminListingsPage, ModalFocus

VARIABLE turn

frontendVars == <<turn, sessionVars, navVars, cacheVars, browseVars, detailVars, createVars,
                  editVars, usersVars, moderationVars, focusVars>>

Turns == {"session", "navigation", "cache", "browse", "detail", "create", "edit", "users",
          "moderation", "dialog"}

\* "w" is found in one copy, the other alone is fiction: both together find nothing.
InkIsFiction(text, category) ==
    {c \in Copies : (text = "" \/ c = "war") /\ (category = "" \/ c = "ink")}

FrontendInit ==
    /\ turn \in Turns
    /\ SessionInit /\ NavInit /\ CacheInit /\ BrowseInit /\ DetailInit /\ CreateInit
    /\ EditInit /\ UsersInit /\ ModerationInit /\ FocusInit
    /\ turn # "navigation" => path = "/" /\ ~isAdmin /\ ~mustChange /\ ~signedIn
    /\ turn # "browse" => url = <<"", "">>
    /\ turn # "detail" => listingId = "a"
    /\ turn # "users" => \A u \in Members : isActive[u]
    /\ turn # "moderation" => \A l \in Moderated : statusOf[l] = "available"

FrontendNext ==
    /\ UNCHANGED turn
    /\ \/ turn = "session" /\ SessionNext
       \/ turn # "session" /\ UNCHANGED sessionVars
    /\ \/ turn = "navigation" /\ NavNext
       \/ turn # "navigation" /\ UNCHANGED navVars
    /\ \/ turn = "cache" /\ CacheNext
       \/ turn # "cache" /\ UNCHANGED cacheVars
    /\ \/ turn = "browse" /\ BrowseNext
       \/ turn # "browse" /\ UNCHANGED browseVars
    /\ \/ turn = "detail" /\ DetailNext
       \/ turn # "detail" /\ UNCHANGED detailVars
    /\ \/ turn = "create" /\ CreateNext
       \/ turn # "create" /\ UNCHANGED createVars
    /\ \/ turn = "edit" /\ EditNext
       \/ turn # "edit" /\ UNCHANGED editVars
    /\ \/ turn = "users" /\ UsersNext
       \/ turn # "users" /\ UNCHANGED usersVars
    /\ \/ turn = "moderation" /\ ModerationNext
       \/ turn # "moderation" /\ UNCHANGED moderationVars
    /\ \/ turn = "dialog" /\ FocusNext
       \/ turn # "dialog" /\ UNCHANGED focusVars

\* SessionFairness, NavFairness and BrowseFairness, each for the module that moves.
FrontendFairness ==
    /\ \A t \in Tabs :
          /\ WF_sessionVars(turn = "session" /\ Refreshing(t))
          /\ \A s \in Slots : WF_sessionVars(turn = "session" /\ Network(t, s))
    /\ WF_navVars(turn = "navigation" /\ Redirect)
    /\ WF_browseVars(turn = "browse" /\ Debounce)
    /\ WF_browseVars(turn = "browse" /\ StartFetch)
    /\ WF_browseVars(turn = "browse" /\ \E k \in Keys : Answer(k))

FrontendSpec == FrontendInit /\ [][FrontendNext]_frontendVars /\ FrontendFairness

-----------------------------------------------------------------------------
\* The type invariants of the ten modules.
FrontendTypeOK ==
    /\ SessionTypeOK /\ NavTypeOK /\ CacheTypeOK /\ BrowseTypeOK /\ DetailTypeOK
    /\ CreateTypeOK /\ EditTypeOK /\ UsersTypeOK /\ ModerationTypeOK /\ FocusTypeOK

\* The liveness properties of ClientSession and BrowsePage, of the behaviours in which
\* the module moves: a page load ends with a decision (AuthContext's start-up effect),
\* every apiFetch settles (client.ts), and the results on screen become those of what
\* the user last asked for, or an error (useDebouncedValue, useBrowseListings).
PageLoadsEnd == turn = "session" => LoadingEnds
FetchesSettle == turn = "session" => CallsSettle
SearchCatchesUp == turn = "browse" => ResultsCatchUp
=============================================================================
