---------------------------- MODULE BrowsePage ----------------------------
(***************************************************************************)
(* frontend/src/pages/BrowsePage.tsx with useDebouncedValue and             *)
(* useBrowseListings: the state seeded from the URL, the search field that  *)
(* is applied 300 ms after the last keystroke, and one query per            *)
(* combination of search, filters and page, whose answers may arrive in any *)
(* order or fail.                                                           *)
(*                                                                          *)
(* An answer is its total; PAGE_SIZE is 1.  One facet stands for category,  *)
(* condition and price, which the page treats alike.                        *)
(***************************************************************************)
EXTENDS Integers, FiniteSets

CONSTANTS Copies, Texts, Facets,   \* Texts and Facets contain "", for none
          Found(_, _),             \* the copies that a text and a facet select
          MaxEdits                 \* bound on the user's steps

ASSUME BrowseAssumption ==
    /\ IsFiniteSet(Copies) /\ Copies # {}
    /\ "" \in Texts /\ "" \in Facets

VARIABLES listed,                  \* back end: the copies on sale
          url, search, debouncedSearch, facet, browsePage,
          isFetching, isError,     \* sets of query keys
          answers,                 \* query cache: key -> total, or NoAnswer
          previousKey,             \* the query whose data stand in for missing ones
          edits,
          \* History:
          changed,                 \* the catalogue is not what it was
          turnedEarly              \* the page was turned in results about to be replaced

browseVars == <<listed, url, search, debouncedSearch, facet, browsePage, isFetching,
                isError, answers, previousKey, edits, changed, turnedEarly>>
cache == <<isFetching, isError, answers>>

NoAnswer == -1
NoKey == <<>>
Pages == 1..Cardinality(Copies)
Keys == Texts \X Facets \X Pages
Key == <<debouncedSearch, facet, browsePage>>
Count(k) == Cardinality(Found(k[1], k[2]) \intersect listed)

\* query.data is the data of this key: placeholderData stand in for missing ones.
ShownKey == IF answers[Key] # NoAnswer THEN Key ELSE previousKey
Total == IF ShownKey # NoKey THEN answers[ShownKey] ELSE NoAnswer

\* QueryState renders its children, and its children a page without copies.
HasResults == Key \notin isError /\ ShownKey # NoKey
NoResults == HasResults /\ ShownKey[3] > Total

BrowseInit ==
    /\ listed = Copies
    /\ url \in Texts \X Facets
    /\ search = url[1] /\ debouncedSearch = search /\ facet = url[2] /\ browsePage = 1
    /\ isFetching = {} /\ isError = {}
    /\ answers = [k \in Keys |-> NoAnswer]
    /\ previousKey = NoKey
    /\ edits = 0 /\ changed = FALSE /\ turnedEarly = FALSE

-----------------------------------------------------------------------------
Edit == edits < MaxEdits /\ edits' = edits + 1 /\ previousKey' = ShownKey

\* Mutant: resetToFirstPage without its setPage(1).
resetToFirstPage_Stays(s, f) ==
    search' = s /\ facet' = f /\ UNCHANGED <<url, browsePage, turnedEarly>>

resetToFirstPage(s, f) ==
    search' = s /\ facet' = f /\ browsePage' = 1 /\ UNCHANGED <<url, turnedEarly>>

\* The search field; FilterFields and the removal of a filter or of all of them;
\* clearAll and browseCategory.
TypeSearch == \E s \in Texts : resetToFirstPage(s, facet)
ChooseFacet == \E f \in Facets : resetToFirstPage(search, f)
StartOver == \E f \in Facets : resetToFirstPage("", f)

Refine ==
    /\ TypeSearch \/ ChooseFacet \/ StartOver
    /\ <<search, facet>>' # <<search, facet>>
    /\ Edit
    /\ UNCHANGED <<listed, debouncedSearch, cache, changed>>

\* A link to /listings?... while the page is mounted.  The effect is keyed on the
\* URL: following the link that is already in the address bar changes nothing.
FollowLink(u) ==
    /\ u # url
    /\ url' = u
    /\ search' = u[1] /\ facet' = u[2] /\ browsePage' = 1
    /\ Edit
    /\ UNCHANGED <<listed, debouncedSearch, cache, changed, turnedEarly>>

\* Pagination, which NoResults replaces when there is nothing on the page.
TurnTo(p) ==
    /\ HasResults /\ ~NoResults /\ Total > 1
    /\ (p = browsePage - 1 /\ p >= 1) \/ (p = browsePage + 1 /\ p <= Total)
    /\ browsePage' = p
    /\ turnedEarly' = (turnedEarly \/ answers[Key] = NoAnswer \/ search # debouncedSearch)
    /\ Edit
    /\ UNCHANGED <<listed, url, search, debouncedSearch, facet, cache, changed>>

\* Mutant: the effect's dependencies leave out the value.
Debounce_MountOnly ==
    FALSE /\ UNCHANGED browseVars

\* The timer that the last change started fires.
Debounce ==
    /\ debouncedSearch # search
    /\ debouncedSearch' = search
    /\ previousKey' = ShownKey
    /\ UNCHANGED <<listed, url, search, facet, browsePage, cache, edits, changed, turnedEarly>>

-----------------------------------------------------------------------------
\* A key on screen without an answer is fetched; one whose answer is older than
\* staleTime is fetched again when it is shown.
StartFetch ==
    /\ Key \notin isFetching \union isError
    /\ answers[Key] # Count(Key)
    /\ isFetching' = isFetching \union {Key}
    /\ UNCHANGED <<listed, url, search, debouncedSearch, facet, browsePage, isError,
                   answers, previousKey, edits, changed, turnedEarly>>

\* Mutant: an answer is taken for the filters that are on the screen.
Store_ForTheScreen(k) == answers' = [answers EXCEPT ![Key] = Count(k)]

\* The query cache files an answer under the key it was asked for.
Store(k) == answers' = [answers EXCEPT ![k] = Count(k)]

Answer(k) ==
    /\ k \in isFetching
    /\ isFetching' = isFetching \ {k}
    /\ \/ Store(k) /\ UNCHANGED isError
       \/ isError' = isError \union {k} /\ UNCHANGED answers
    /\ UNCHANGED <<listed, url, search, debouncedSearch, facet, browsePage,
                   previousKey, edits, changed, turnedEarly>>

CatalogueChanges(c) ==
    /\ ~changed /\ changed' = TRUE
    /\ listed' = IF c \in listed THEN listed \ {c} ELSE listed \union {c}
    /\ UNCHANGED <<url, search, debouncedSearch, facet, browsePage, cache,
                   previousKey, edits, turnedEarly>>

BrowseNext ==
    \/ Refine \/ Debounce \/ StartFetch
    \/ \E u \in Texts \X Facets : FollowLink(u)
    \/ \E p \in Pages : TurnTo(p)
    \/ \E k \in Keys : Answer(k)
    \/ \E c \in Copies : CatalogueChanges(c)

\* Timers fire, mounted queries are fetched, requests are answered or fail.
BrowseFairness ==
    /\ WF_browseVars(Debounce) /\ WF_browseVars(StartFetch)
    /\ WF_browseVars(\E k \in Keys : Answer(k))

BrowseSpec == BrowseInit /\ [][BrowseNext]_browseVars /\ BrowseFairness

-----------------------------------------------------------------------------
BrowseTypeOK ==
    /\ listed \subseteq Copies /\ url \in Texts \X Facets
    /\ search \in Texts /\ Key \in Keys
    /\ answers \in [Keys -> NoAnswer..Cardinality(Copies)]
    /\ isFetching \subseteq Keys /\ isError \subseteq Keys

(* What the page shows as the result of a search is the result of that search, *)
(* however the requests overtake one another (useDebouncedValue.ts:5-7).       *)
ResultsAreForTheFilters ==
    answers[Key] # NoAnswer => answers[Key] = Count(Key) \/ changed

(* `No books match' and `Nothing is listed yet' (BrowsePage.tsx:259, 427-431)   *)
(* are true of the search whose results are shown: it selects no copy.  That is *)
(* the search on the screen once its answer is there; until then, the previous  *)
(* one's (useListings.ts:25), so that a page that has just been cleared after   *)
(* an empty search says that nothing is listed while copies are.  The other     *)
(* exceptions: the catalogue changed, or the page was turned on a placeholder   *)
(* or between a keystroke and its search, which resets the page number at once  *)
(* (line 188).                                                                  *)
NoResultsIsTrue == NoResults => Count(ShownKey) = 0 \/ changed \/ turnedEarly

(* Once the user leaves the page alone, the search field has been applied and   *)
(* the screen shows its results or an error, for good.                          *)
ResultsCatchUp ==
    <>[](debouncedSearch = search /\ (answers[Key] # NoAnswer \/ Key \in isError))
=============================================================================
