---------------------------- MODULE PagesProofs ----------------------------
(***************************************************************************)
(* Theorems about the six pages that keep state across an await, for every  *)
(* catalogue, shelf, set of users and number of steps, and about the front  *)
(* end as a whole.                                                          *)
(*                                                                          *)
(* What a page promises of its screen is seldom inductive.  The screen's    *)
(* results come out of the cache, so AnswersInv is about every answer in    *)
(* it; a photo's index is safe because of where it was chosen (PhotosInv);  *)
(* that one form makes one listing needs where the form stands (StageInv)   *)
(* and what the page knows of the listing (OnceInv); that edits survive     *)
(* needs the cached row to be the stored one (CachedInv); that an empty     *)
(* page means a shorter list needs the totals of the other pages (PageInv). *)
(***************************************************************************)
EXTENDS MCFrontend, ShellProofs, ClientSessionProofs, FiniteSetTheorems, TLAPS

\* BrowsePage: results, filters and page numbers.

BrowseShape ==
    /\ listed \subseteq Copies /\ url \in Texts \X Facets
    /\ search \in Texts /\ debouncedSearch \in Texts /\ facet \in Facets /\ browsePage \in Pages
    /\ answers \in [Keys -> NoAnswer..Cardinality(Copies)]
    /\ isFetching \subseteq Keys /\ isError \subseteq Keys
    /\ changed \in BOOLEAN /\ turnedEarly \in BOOLEAN
    /\ previousKey # NoKey => previousKey \in Keys /\ answers[previousKey] # NoAnswer

\* Every answer in the query cache, not just the one on the screen, is its key's.
AnswersInv == ~changed => \A k \in Keys : answers[k] # NoAnswer => answers[k] = Count(k)

\* Beyond the first page no keystroke waits for its search, and the search reaches the page.
TurnedInv ==
    ~changed /\ ~turnedEarly /\ browsePage > 1
        => search = debouncedSearch /\ browsePage <= Count(Key)

\* The search whose data stand in for missing ones reached its page, too.
PreviousInv ==
    ~changed /\ ~turnedEarly /\ previousKey # NoKey /\ previousKey[3] > 1
        => previousKey[3] <= Count(previousKey)

BrowseInv == BrowseShape /\ AnswersInv /\ TurnedInv /\ PreviousInv

\* A search counts no more copies than there are.
LEMMA CountType ==
    ASSUME NEW L \in SUBSET Copies, NEW s, NEW f
    PROVE  Cardinality(Found(s, f) \intersect L) \in 0 .. Cardinality(Copies)
<1>1. IsFiniteSet(Copies)
  BY BrowseAssumption, Zenon
<1>2. Found(s, f) \intersect L \in SUBSET Copies
  OBVIOUS
<1> QED
  BY <1>1, <1>2, FS_Subset, FS_CardinalityType

\* There is a first page, and pages are numbers.
LEMMA FirstPage == 1 \in Pages /\ Pages \subseteq Nat /\ Cardinality(Copies) \in Nat
<1>1. IsFiniteSet(Copies) /\ Copies # {}
  BY BrowseAssumption, Zenon
<1>2. Cardinality(Copies) \in Nat /\ Cardinality(Copies) # 0
  BY <1>1, FS_CardinalityType, FS_EmptySet
<1> QED
  BY <1>2 DEF Pages

\* Whatever the user refines, the first page of some search and facet is next.
LEMMA Refines ==
    ASSUME BrowseShape, Refine
    PROVE  /\ search' \in Texts /\ facet' \in Facets /\ browsePage' = 1
           /\ UNCHANGED <<url, turnedEarly, listed, debouncedSearch, cache, changed>>
<1>1. "" \in Texts
  BY BrowseAssumption, Zenon
<1>2. search \in Texts /\ facet \in Facets
  BY DEF BrowseShape
<1>3. UNCHANGED <<listed, debouncedSearch, cache, changed>>
  BY DEF Refine
<1>4. CASE TypeSearch
  BY <1>2, <1>3, <1>4 DEF TypeSearch, resetToFirstPage
<1>5. CASE ChooseFacet
  BY <1>2, <1>3, <1>5 DEF ChooseFacet, resetToFirstPage
<1>6. CASE StartOver
  <2>1. PICK f \in Facets : resetToFirstPage("", f)
    BY <1>6, Zenon DEF StartOver
  <2>2. search' = "" /\ facet' = f /\ browsePage' = 1 /\ UNCHANGED <<url, turnedEarly>>
    BY <2>1, Zenon DEF resetToFirstPage
  <2>3. search' \in Texts
    BY <1>1, <2>2, Zenon
  <2> QED
    BY <1>3, <2>2, <2>3, Zenon
<1> QED
  BY <1>4, <1>5, <1>6, Zenon DEF Refine

\* The page opens on the URL's search with nothing in the cache.
LEMMA BrowseInitially == BrowseInit => BrowseInv
<1> SUFFICES ASSUME BrowseInit PROVE BrowseInv
  OBVIOUS
<1>1. NoAnswer \in NoAnswer .. Cardinality(Copies)
  BY FirstPage DEF NoAnswer
<1>2. url \in Texts \X Facets /\ url[1] \in Texts /\ url[2] \in Facets
  BY DEF BrowseInit
<1>3. BrowseShape
  BY <1>1, <1>2, FirstPage DEF BrowseInit, BrowseShape
<1>4. AnswersInv
  BY DEF BrowseInit, AnswersInv
<1>5. TurnedInv
  BY DEF BrowseInit, TurnedInv
<1>6. PreviousInv
  BY DEF BrowseInit, PreviousInv
<1> QED
  BY <1>3, <1>4, <1>5, <1>6 DEF BrowseInv

\* Every step of the page, its hook and the catalogue keeps the invariant.
LEMMA BrowseStep == BrowseInv /\ [BrowseNext]_browseVars => BrowseInv'
<1> SUFFICES ASSUME BrowseInv, [BrowseNext]_browseVars PROVE BrowseInv'
  OBVIOUS
<1>0. BrowseShape /\ AnswersInv /\ TurnedInv /\ PreviousInv
  BY DEF BrowseInv
<1> HIDE DEF NoAnswer
\* Only the catalogue decides what a key counts.
<1>a. ASSUME UNCHANGED <<listed, answers, changed>> PROVE AnswersInv'
  BY <1>a, <1>0 DEF AnswersInv, Count
<1>b. ASSUME browsePage' = 1 PROVE TurnedInv'
  BY <1>b DEF TurnedInv
<1>c. ASSUME UNCHANGED <<listed, search, debouncedSearch, facet, browsePage, changed, turnedEarly>>
      PROVE  TurnedInv'
  BY <1>c, <1>0 DEF TurnedInv, Count, Key
\* What is shown becomes, or remains, what stands in.
<1>d. ASSUME previousKey' = ShownKey, UNCHANGED <<listed, answers, changed>>,
             ~turnedEarly' => ~turnedEarly
      PROVE  /\ previousKey' # NoKey => previousKey' \in Keys /\ answers'[previousKey'] # NoAnswer
             /\ PreviousInv'
  <2>1. Key \in Keys /\ Key[3] = browsePage
    BY <1>0 DEF BrowseShape, Key, Keys
  <2>2. \A k : Count(k)' = Count(k)
    BY <1>d DEF Count
  <2>3. CASE answers[Key] # NoAnswer
    <3>1. previousKey' = Key
      BY <1>d, <2>3 DEF ShownKey
    <3>2. PreviousInv'
      BY <1>0, <1>d, <2>1, <2>2, <3>1 DEF TurnedInv, PreviousInv
    <3> QED
      BY <1>d, <2>1, <2>3, <3>1, <3>2
  <2>4. CASE answers[Key] = NoAnswer
    <3>1. previousKey' = previousKey
      BY <1>d, <2>4 DEF ShownKey
    <3>2. PreviousInv'
      BY <1>0, <1>d, <2>2, <3>1 DEF PreviousInv
    <3> QED
      BY <1>0, <1>d, <3>1, <3>2 DEF BrowseShape
  <2> QED
    BY <2>3, <2>4
<1>e. ASSUME UNCHANGED <<previousKey, listed, changed, turnedEarly>> PROVE PreviousInv'
  BY <1>e, <1>0 DEF PreviousInv, Count
<1>1. CASE Refine
  <2>1. /\ search' \in Texts /\ facet' \in Facets /\ browsePage' = 1
        /\ UNCHANGED <<url, turnedEarly, listed, debouncedSearch, cache, changed>>
    BY <1>0, <1>1, Refines
  <2>2. previousKey' = ShownKey
    BY <1>1 DEF Refine, Edit
  <2>3. BrowseShape'
    BY <1>0, <1>d, <2>1, <2>2, FirstPage DEF BrowseShape, cache
  <2>4. AnswersInv' /\ TurnedInv' /\ PreviousInv'
    BY <1>a, <1>b, <1>d, <2>1, <2>2 DEF cache
  <2> QED
    BY <2>3, <2>4 DEF BrowseInv
<1>2. CASE Debounce
  <2>1. BrowseShape'
    BY <1>0, <1>2, <1>d DEF BrowseShape, Debounce, cache
  <2>2. AnswersInv' /\ PreviousInv'
    BY <1>2, <1>a, <1>d DEF Debounce, cache
  <2>3. TurnedInv'
    BY <1>2, <1>0 DEF Debounce, TurnedInv
  <2> QED
    BY <2>1, <2>2, <2>3 DEF BrowseInv
<1>3. CASE StartFetch
  <2>1. BrowseShape'
    BY <1>0, <1>3 DEF BrowseShape, StartFetch, Key, Keys
  <2>2. AnswersInv' /\ TurnedInv' /\ PreviousInv'
    BY <1>3, <1>a, <1>c, <1>e DEF StartFetch
  <2> QED
    BY <2>1, <2>2 DEF BrowseInv
<1>4. ASSUME NEW u \in Texts \X Facets, FollowLink(u) PROVE BrowseInv'
  <2>1. u[1] \in Texts /\ u[2] \in Facets
    OBVIOUS
  <2>2. BrowseShape'
    BY <1>0, <1>4, <1>d, <2>1, FirstPage DEF BrowseShape, FollowLink, Edit, cache
  <2>3. AnswersInv' /\ TurnedInv' /\ PreviousInv'
    BY <1>4, <1>a, <1>b, <1>d DEF FollowLink, Edit, cache
  <2> QED
    BY <2>2, <2>3 DEF BrowseInv
<1>5. ASSUME NEW p \in Pages, TurnTo(p) PROVE BrowseInv'
  <2>1. BrowseShape'
    <3>1. /\ previousKey' = ShownKey /\ UNCHANGED <<listed, answers, changed>>
          /\ ~turnedEarly' => ~turnedEarly
      BY <1>5 DEF TurnTo, Edit, cache
    <3> QED
      BY <1>0, <1>5, <1>d, <3>1 DEF BrowseShape, TurnTo, cache
  <2>2. AnswersInv' /\ PreviousInv'
    BY <1>5, <1>a, <1>d DEF TurnTo, Edit, cache
  <2>3. ASSUME ~changed, ~turnedEarly', browsePage' > 1
        PROVE  search' = debouncedSearch' /\ browsePage' <= Count(Key)'
    <3>1. /\ ~turnedEarly /\ answers[Key] # NoAnswer /\ search = debouncedSearch
          /\ UNCHANGED <<listed, search, debouncedSearch, facet>>
          /\ browsePage' = p
      BY <1>0, <1>5, <2>3 DEF TurnTo, BrowseShape
    <3>2. Key \in Keys
      BY <1>0 DEF BrowseShape, Key, Keys
    <3>3. ShownKey = Key /\ ShownKey # NoKey /\ Key[3] = browsePage
      BY <1>5, <3>1 DEF TurnTo, HasResults, ShownKey, Key
    <3>4. Total = Count(Key)
      BY <1>0, <2>3, <3>1, <3>2, <3>3 DEF Total, AnswersInv
    <3>5. Count(Key)' = Count(Key)
      BY <3>1 DEF Count, Key
    <3>6. Count(Key) \in Nat /\ browsePage \in Nat /\ p \in Nat
      BY <1>0, FirstPage, CountType DEF BrowseShape, Count
    <3>7. browsePage <= Total /\ (p = browsePage - 1 \/ p <= Total)
      BY <1>5, <3>3, <3>4, <3>6 DEF TurnTo, NoResults
    <3> QED
      BY <3>1, <3>4, <3>5, <3>6, <3>7
  <2>4. TurnedInv'
    BY <1>5, <2>3 DEF TurnedInv, TurnTo
  <2> QED
    BY <2>1, <2>2, <2>4 DEF BrowseInv
<1>6. ASSUME NEW k \in Keys, Answer(k) PROVE BrowseInv'
  <2>1. answers' \in [Keys -> NoAnswer..Cardinality(Copies)]
    <3>1. Count(k) \in NoAnswer..Cardinality(Copies)
      BY <1>0, CountType, FirstPage DEF Count, NoAnswer, BrowseShape
    <3> QED
      BY <1>0, <1>6, <3>1 DEF Answer, Store, BrowseShape
  <2>2. BrowseShape'
    <3>1. \A j \in Keys : answers[j] # NoAnswer => answers'[j] # NoAnswer
      <4>1. Count(k) \in Nat
        BY <1>0, CountType, FirstPage DEF Count, BrowseShape
      <4> QED
        BY <1>0, <1>6, <4>1 DEF Answer, Store, BrowseShape, NoAnswer
    <3> QED
      BY <1>0, <1>6, <2>1, <3>1 DEF BrowseShape, Answer
  <2>3. AnswersInv'
    <3>1. UNCHANGED <<listed, changed>>
      BY <1>6 DEF Answer
    <3>2. \A j \in Keys : answers'[j] = answers[j] \/ (j = k /\ answers'[j] = Count(k))
      BY <1>0, <1>6 DEF Answer, Store, BrowseShape
    <3>3. \A j : Count(j)' = Count(j)
      BY <3>1 DEF Count
    <3> QED
      BY <1>0, <3>1, <3>2, <3>3 DEF AnswersInv
  <2>4. TurnedInv' /\ PreviousInv'
    BY <1>6, <1>c, <1>e DEF Answer
  <2> QED
    BY <2>2, <2>3, <2>4 DEF BrowseInv
<1>7. ASSUME NEW c \in Copies, CatalogueChanges(c) PROVE BrowseInv'
  <2>1. BrowseShape'
    BY <1>0, <1>7 DEF BrowseShape, CatalogueChanges, cache
  <2>2. AnswersInv' /\ TurnedInv' /\ PreviousInv'
    BY <1>7 DEF CatalogueChanges, AnswersInv, TurnedInv, PreviousInv
  <2> QED
    BY <2>1, <2>2 DEF BrowseInv
<1>8. CASE UNCHANGED browseVars
  <2>1. BrowseShape'
    BY <1>0, <1>8 DEF BrowseShape, browseVars
  <2>2. AnswersInv' /\ TurnedInv' /\ PreviousInv'
    BY <1>8, <1>a, <1>c, <1>e DEF browseVars
  <2> QED
    BY <2>1, <2>2 DEF BrowseInv
<1> QED
  BY <1>1, <1>2, <1>3, <1>4, <1>5, <1>6, <1>7, <1>8 DEF BrowseNext

\* What the invariant says of the results on the screen.
LEMMA BrowseGives == BrowseInv => BrowseTypeOK /\ ResultsAreForTheFilters /\ NoResultsIsTrue
<1> SUFFICES ASSUME BrowseInv PROVE BrowseTypeOK /\ ResultsAreForTheFilters /\ NoResultsIsTrue
  OBVIOUS
<1>1. BrowseShape /\ AnswersInv /\ TurnedInv /\ PreviousInv /\ Key \in Keys
  BY DEF BrowseInv, BrowseShape, Key, Keys
<1>2. Count(Key) \in Nat /\ browsePage \in Nat /\ browsePage >= 1
  BY <1>1, CountType, FirstPage DEF Count, BrowseShape, Pages
<1>3. BrowseTypeOK
  BY <1>1 DEF BrowseTypeOK, BrowseShape
<1>4. ResultsAreForTheFilters
  BY <1>1 DEF AnswersInv, ResultsAreForTheFilters
<1>5. ASSUME NoResults, ~changed, ~turnedEarly PROVE Count(ShownKey) = 0
  <2>1. ShownKey \in Keys /\ answers[ShownKey] # NoAnswer /\ ShownKey # NoKey
    BY <1>1, <1>5 DEF NoResults, HasResults, ShownKey, BrowseShape
  <2>2. Total = Count(ShownKey)
    BY <1>1, <1>5, <2>1 DEF Total, AnswersInv
  <2>3. Count(ShownKey) \in Nat /\ ShownKey[3] \in Nat /\ ShownKey[3] >= 1
    BY <1>1, <2>1, CountType, FirstPage DEF Count, BrowseShape, Keys, Pages
  <2>4. ShownKey[3] > 1 => ShownKey[3] <= Count(ShownKey)
    BY <1>1, <1>5, <2>1 DEF ShownKey, Key, TurnedInv, PreviousInv
  <2> QED
    BY <1>5, <2>2, <2>3, <2>4 DEF NoResults
<1>6. NoResultsIsTrue
  BY <1>5 DEF NoResultsIsTrue
<1> QED
  BY <1>3, <1>4, <1>6

\* The inductive invariant of the browse page over any catalogue and any search.
THEOREM BrowseInvariant == BrowseSpec => []BrowseInv
<1>1. BrowseInit => BrowseInv
  BY BrowseInitially
<1>2. BrowseInv /\ [BrowseNext]_browseVars => BrowseInv'
  BY BrowseStep
<1> QED
  BY <1>1, <1>2, PTL DEF BrowseSpec

\* Answers that arrive late or overtake each other never put results on the screen that
\* are not those of the search and the facet that the page is at.
THEOREM BrowseResultsAreForTheFilters == BrowseSpec => []ResultsAreForTheFilters
<1>1. BrowseInv => ResultsAreForTheFilters
  BY BrowseGives
<1> QED
  BY <1>1, BrowseInvariant, PTL

\* When the page says that nothing was found, the search whose results it shows -- the
\* one on the screen, or the previous one's until its answer is there -- selects nothing,
\* unless the catalogue changed, or the user turned a placeholder's page or turned the
\* page inside the debounce.
THEOREM BrowseNoResultsIsTrue == BrowseSpec => []NoResultsIsTrue
<1>1. BrowseInv => NoResultsIsTrue
  BY BrowseGives
<1> QED
  BY <1>1, BrowseInvariant, PTL
-----------------------------------------------------------------------------
\* ListingDetailPage: the photo on the screen.

DetailRequest == [kind : {"sold", "delete"}, listing : Shelf, asked : Shelf \union {Away},
            hook : Shelf, here : BOOLEAN, reply : {"none", "ok", "error"}]

DetailShape ==
    /\ DetailTypeOK
    /\ askedFor \in Shelf \union {Away} /\ confirming \in {"nothing", "sold", "delete"}
    /\ requests \subseteq DetailRequest
    /\ keptIndex \in BOOLEAN

\* Another page has no photos; a listing whose photos were mounted for it shows one of its
\* own, in the lightbox and in the thumbnail that the next lightbox opens on.
PhotosInv ==
    /\ listingId = Away => active = 0 /\ lightboxIndex = NoLightbox
    /\ ~keptIndex /\ listingId # Away =>
          /\ active = 0 \/ active < PhotosOf(listingId)
          /\ lightboxIndex = NoLightbox \/ lightboxIndex < PhotosOf(listingId)

DetailInv == DetailShape /\ PhotosInv

\* Every photo of every listing has an index.
LEMMA ShownIndices ==
    /\ Indices \subseteq Nat
    /\ \A l \in Shelf : \A i \in Nat : i < PhotosOf(l) => i \in Indices
  BY ShelfAssumption DEF Indices

\* JavaScript's remainder of the next or previous index is an index again.
LEMMA StepStays ==
    ASSUME NEW l \in Shelf, PhotosOf(l) > 1, NEW i \in Nat, NEW d \in {-1, 1}
    PROVE  (i + d + PhotosOf(l)) % PhotosOf(l) \in 0 .. PhotosOf(l) - 1
<1>1. PhotosOf(l) \in Nat
  BY ShelfAssumption
<1>2. i + d + PhotosOf(l) \in Nat
  BY <1>1
<1> QED
  BY <1>1, <1>2

\* Navigation, an answer and a settled deletion rewrite a request, and it stays one.
LEMMA RequestsStay ==
    ASSUME NEW r \in DetailRequest
    PROVE  /\ [r EXCEPT !.here = FALSE] \in DetailRequest
           /\ \A l \in Shelf : [r EXCEPT !.hook = IF r.here THEN l ELSE @] \in DetailRequest
           /\ \A a \in {"ok", "error"} : [r EXCEPT !.reply = a] \in DetailRequest
<1>1. [r EXCEPT !.here = FALSE] \in DetailRequest
  BY DEF DetailRequest
<1>2. ASSUME NEW l \in Shelf PROVE [r EXCEPT !.hook = IF r.here THEN l ELSE @] \in DetailRequest
  BY <1>2 DEF DetailRequest
<1>3. ASSUME NEW a \in {"ok", "error"} PROVE [r EXCEPT !.reply = a] \in DetailRequest
  BY <1>3 DEF DetailRequest
<1> QED
  BY <1>1, <1>2, <1>3

\* The page opens on the first photo.
LEMMA DetailInitially == DetailInit => DetailInv
<1> SUFFICES ASSUME DetailInit PROVE DetailInv
  OBVIOUS
<1>1. DetailTypeOK
  BY ShownIndices DEF DetailInit, DetailTypeOK
<1>2. DetailShape
  BY <1>1 DEF DetailInit, DetailShape
<1>3. PhotosInv
  BY ShelfAssumption DEF DetailInit, PhotosInv
<1> QED
  BY <1>2, <1>3 DEF DetailInv

\* Every step of the page, its dialogs and its mutations keeps the invariant.
LEMMA DetailStep == DetailInv /\ [DetailNext]_detailVars => DetailInv'
<1> SUFFICES ASSUME DetailInv, [DetailNext]_detailVars PROVE DetailInv'
  OBVIOUS
<1>0. /\ DetailTypeOK /\ PhotosInv /\ requests \subseteq DetailRequest
      /\ askedFor \in Shelf \union {Away} /\ confirming \in {"nothing", "sold", "delete"}
      /\ keptIndex \in BOOLEAN
  BY DEF DetailInv, DetailShape
<1>p. 0 \in Indices \union {0} /\ Indices \subseteq Nat
  BY ShownIndices
<1> HIDE DEF NoLightbox, Indices
\* Most steps leave the photos alone, and where they are shown.
<1>a. ASSUME UNCHANGED <<listingId, active, lightboxIndex, keptIndex>> PROVE PhotosInv'
  BY <1>a, <1>0 DEF PhotosInv
<1>b. ASSUME active' = 0, lightboxIndex' = NoLightbox PROVE PhotosInv'
  BY <1>b DEF PhotosInv
<1>1. CASE LoadDetail
  <2>1. DetailTypeOK'
    BY <1>0, <1>1 DEF LoadDetail, DetailTypeOK, photos
  <2>2. DetailShape'
    BY <1>0, <1>1, <2>1 DEF LoadDetail, DetailShape, photos, shownState
  <2>3. PhotosInv'
    BY <1>1, <1>a DEF LoadDetail, photos
  <2> QED
    BY <2>2, <2>3 DEF DetailInv
<1>2. CASE Leave
  <2>1. DetailTypeOK'
    BY <1>0, <1>2 DEF Leave, Unmount, DetailTypeOK
  <2>2. requests' \subseteq DetailRequest
    BY <1>0, <1>2, RequestsStay DEF Leave
  <2>3. DetailShape'
    BY <1>0, <1>2, <2>1, <2>2 DEF Leave, Unmount, DetailShape
  <2>4. PhotosInv'
    BY <1>2, <1>b DEF Leave, Unmount
  <2> QED
    BY <2>3, <2>4 DEF DetailInv
<1>3. CASE CloseLightbox
  <2>1. DetailTypeOK'
    BY <1>0, <1>3 DEF CloseLightbox, ChangePhotos, DetailTypeOK
  <2>2. DetailShape'
    BY <1>0, <1>3, <2>1 DEF CloseLightbox, ChangePhotos, DetailShape, shownState
  <2>3. PhotosInv'
    BY <1>0, <1>3 DEF CloseLightbox, ChangePhotos, PhotosInv
  <2> QED
    BY <2>2, <2>3 DEF DetailInv
<1>4. CASE Dismiss
  <2>1. DetailTypeOK'
    BY <1>0, <1>4 DEF Dismiss, DetailTypeOK, photos
  <2>2. DetailShape'
    BY <1>0, <1>4, <2>1 DEF Dismiss, DetailShape
  <2>3. PhotosInv'
    BY <1>4, <1>a DEF Dismiss, photos
  <2> QED
    BY <2>2, <2>3 DEF DetailInv
<1>5. CASE Confirm
  <2>1. DetailTypeOK'
    BY <1>0, <1>5 DEF Confirm, DetailTypeOK, photos
  <2>2. [kind |-> confirming, listing |-> listingId, asked |-> askedFor,
         hook |-> listingId, here |-> TRUE, reply |-> "none"] \in DetailRequest
    BY <1>0, <1>5 DEF Confirm, Loaded, DetailTypeOK, DetailRequest
  <2>3. requests' \subseteq DetailRequest
    BY <1>0, <1>5, <2>2 DEF Confirm
  <2>4. DetailShape'
    BY <1>0, <1>5, <2>1, <2>3 DEF Confirm, DetailShape, shownState
  <2>5. PhotosInv'
    BY <1>5, <1>a DEF Confirm, photos
  <2> QED
    BY <2>4, <2>5 DEF DetailInv
<1>6. ASSUME NEW l \in Shelf, Visit(l) PROVE DetailInv'
  <2>1. DetailTypeOK'
    BY <1>0, <1>6 DEF Visit, DetailTypeOK, photos
  <2>2. requests' \subseteq DetailRequest
    BY <1>0, <1>6, RequestsStay DEF Visit
  <2>3. DetailShape'
    BY <1>0, <1>6, <2>1, <2>2 DEF Visit, DetailShape, shownState
  <2>4. l # Away /\ listingId # Away /\ listingId' = l
    BY <1>6, ShelfAssumption DEF Visit
  <2>5. (active' = 0 /\ lightboxIndex' = NoLightbox) \/ keptIndex' = TRUE
    BY <1>6 DEF Visit
  <2>6. PhotosInv'
    BY <2>4, <2>5 DEF PhotosInv
  <2> QED
    BY <2>3, <2>6 DEF DetailInv
<1>7. ASSUME NEW l \in Shelf, Enter(l) PROVE DetailInv'
  <2>1. DetailTypeOK'
    BY <1>0, <1>7 DEF Enter, DetailTypeOK, photos
  <2>2. DetailShape'
    BY <1>0, <1>7, <2>1 DEF Enter, DetailShape, shownState
  <2>3. PhotosInv'
    BY <1>0, <1>7, <1>b DEF Enter, photos, PhotosInv
  <2> QED
    BY <2>2, <2>3 DEF DetailInv
<1>8. ASSUME NEW l \in Shelf, ChangedElsewhere(l) PROVE DetailInv'
  <2>1. DetailTypeOK'
    BY <1>0, <1>8 DEF ChangedElsewhere, DetailTypeOK, photos
  <2>2. DetailShape'
    BY <1>0, <1>8, <2>1 DEF ChangedElsewhere, DetailShape, shownState
  <2>3. PhotosInv'
    BY <1>8, <1>a DEF ChangedElsewhere, photos
  <2> QED
    BY <2>2, <2>3 DEF DetailInv
<1>9. ASSUME NEW i \in Indices, Select(i) PROVE DetailInv'
  <2>1. DetailTypeOK'
    BY <1>0, <1>9 DEF Select, ChangePhotos, DetailTypeOK
  <2>2. DetailShape'
    BY <1>0, <1>9, <2>1 DEF Select, ChangePhotos, DetailShape, shownState
  <2>3. PhotosInv'
    BY <1>0, <1>9 DEF Select, ChangePhotos, Loaded, PhotosInv
  <2> QED
    BY <2>2, <2>3 DEF DetailInv
<1>10. ASSUME NEW i \in Indices, OpenLightbox(i) PROVE DetailInv'
  <2>1. DetailTypeOK'
    BY <1>0, <1>10 DEF OpenLightbox, ChangePhotos, DetailTypeOK
  <2>2. DetailShape'
    BY <1>0, <1>10, <2>1 DEF OpenLightbox, ChangePhotos, DetailShape, shownState
  <2>3. PhotosInv'
    BY <1>0, <1>10 DEF OpenLightbox, ChangePhotos, Loaded, PhotosInv
  <2> QED
    BY <2>2, <2>3 DEF DetailInv
<1>11. ASSUME NEW d \in {-1, 1}, Step(d) PROVE DetailInv'
  <2>1. listingId \in Shelf /\ lightboxIndex \in Nat /\ PhotosOf(listingId) > 1
    BY <1>0, <1>11, <1>p DEF Step, ChangePhotos, Loaded, DetailTypeOK
  <2>2. lightboxIndex' \in 0 .. PhotosOf(listingId) - 1
    BY <1>11, <2>1, StepStays DEF Step
  <2>3. PhotosOf(listingId) \in Nat
    BY <2>1, ShelfAssumption
  <2>4. lightboxIndex' \in Nat /\ lightboxIndex' < PhotosOf(listingId) /\ lightboxIndex' \in Indices
    BY <2>1, <2>2, <2>3, ShownIndices
  <2>5. DetailTypeOK'
    BY <1>0, <1>11, <2>4 DEF Step, ChangePhotos, DetailTypeOK
  <2>6. DetailShape'
    BY <1>0, <1>11, <2>5 DEF Step, ChangePhotos, DetailShape, shownState
  <2>7. PhotosInv'
    BY <1>0, <1>11, <2>4 DEF Step, ChangePhotos, Loaded, PhotosInv
  <2> QED
    BY <2>6, <2>7 DEF DetailInv
<1>12. ASSUME NEW k \in {"sold", "delete"}, Ask(k) PROVE DetailInv'
  <2>1. DetailTypeOK'
    BY <1>0, <1>12 DEF Ask, DetailTypeOK, photos
  <2>2. DetailShape'
    BY <1>0, <1>12, <2>1 DEF Ask, DetailShape, DetailTypeOK
  <2>3. PhotosInv'
    BY <1>12, <1>a DEF Ask, photos
  <2> QED
    BY <2>2, <2>3 DEF DetailInv
<1>13. ASSUME NEW r \in requests, Serve(r) PROVE DetailInv'
  <2>1. r \in DetailRequest /\ r.listing \in Shelf
    BY <1>0 DEF DetailRequest
  <2>2. DetailTypeOK'
    <3>1. stored' \in [Shelf -> {"available", "sold", "deleted"}]
      BY <1>0, <1>13, <2>1 DEF Serve, DetailTypeOK
    <3> QED
      BY <1>0, <1>13, <3>1 DEF Serve, DetailTypeOK, photos
  <2>3. requests' \subseteq DetailRequest
    BY <1>0, <1>13, <2>1, RequestsStay DEF Serve
  <2>4. DetailShape'
    BY <1>0, <1>13, <2>2, <2>3 DEF Serve, DetailShape, shownState
  <2>5. PhotosInv'
    BY <1>13, <1>a DEF Serve, photos
  <2> QED
    BY <2>4, <2>5 DEF DetailInv
<1>14. ASSUME NEW r \in requests, Settled(r) PROVE DetailInv'
  <2> DEFINE Others == {[q EXCEPT !.here = FALSE] : q \in requests \ {r}}
  <2>1. r \in DetailRequest /\ r.hook \in Shelf
    BY <1>0 DEF DetailRequest
  <2>2. Others \subseteq DetailRequest /\ requests \ {r} \subseteq DetailRequest
    BY <1>0, RequestsStay
  <2>3. /\ UNCHANGED <<stored, detail, moves, keptIndex>>
        /\ invalid' = invalid \/ invalid' = invalid \union {r.hook}
        /\ \/ /\ requests' = requests \ {r}
              /\ UNCHANGED <<listingId, active, lightboxIndex>>
              /\ UNCHANGED shownState \/ (confirming' = "nothing" /\ askedFor' = Away)
           \/ /\ requests' = Others
              /\ Unmount
    <3> HIDE DEF Others
    <3>1. CASE r.reply = "error"
      BY <1>14, <3>1 DEF Settled, photos
    <3>2. CASE r.reply # "error" /\ r.kind = "delete"
      BY <1>14, <3>2 DEF Settled, onSuccess, Others
    <3>3. CASE r.reply # "error" /\ r.kind # "delete"
      BY <1>14, <3>3 DEF Settled, onSuccess, photos
    <3> QED
      BY <3>1, <3>2, <3>3
  <2> HIDE DEF Others
  <2>4. DetailTypeOK'
    BY <1>0, <2>1, <2>3 DEF DetailTypeOK, Unmount
  <2>5. DetailShape'
    BY <1>0, <2>2, <2>3, <2>4 DEF Unmount, DetailShape, shownState
  <2>6. PhotosInv'
    BY <1>a, <1>b, <2>3 DEF Unmount
  <2> QED
    BY <2>5, <2>6 DEF DetailInv
<1>15. CASE UNCHANGED detailVars
  <2>1. DetailTypeOK'
    BY <1>0, <1>15 DEF detailVars, DetailTypeOK
  <2>2. DetailShape'
    BY <1>0, <1>15, <2>1 DEF detailVars, DetailShape
  <2>3. PhotosInv'
    BY <1>15, <1>a DEF detailVars
  <2> QED
    BY <2>2, <2>3 DEF DetailInv
<1> QED
  BY <1>1, <1>2, <1>3, <1>4, <1>5, <1>6, <1>7, <1>8, <1>9, <1>10, <1>11, <1>12, <1>13, <1>14,
         <1>15
  DEF DetailNext

\* What the invariant says of the photo on the screen.
LEMMA DetailGives == DetailInv => DetailTypeOK /\ PhotoInRange
  BY DEF DetailInv, DetailShape, PhotosInv, PhotoInRange, Loaded

\* The inductive invariant of the detail page for any shelf of listings.
THEOREM DetailInvariant == DetailSpec => []DetailInv
<1>1. DetailInit => DetailInv
  BY DetailInitially
<1>2. DetailInv /\ [DetailNext]_detailVars => DetailInv'
  BY DetailStep
<1> QED
  BY <1>1, <1>2, PTL DEF DetailSpec

\* The photo that is shown is one that the listing has, through every change of listing,
\* lightbox and settled deletion, unless the page kept its index while the listing under
\* it changed.
THEOREM DetailPhotoInRange == DetailSpec => []PhotoInRange
<1>1. DetailInv => PhotoInRange
  BY DetailGives
<1> QED
  BY <1>1, DetailInvariant, PTL

\* The route does not go on to another listing under an open confirmation dialog.
DialogKeepsRoute ==
    [][confirming # "nothing" => listingId' \in {listingId, Away}]_detailVars

\* The open dialog was opened for the listing in the route, and so was every request's.
AskedInv ==
    /\ confirming # "nothing" => askedFor = listingId
    /\ ActsOnTheListingAskedAbout

\* No action but Confirm makes a request, and those that rewrite one keep what it is about.
LEMMA RequestsAboutTheSame ==
  ASSUME DetailInv, AskedInv, [DetailNext]_detailVars
  PROVE  ActsOnTheListingAskedAbout'
<1>0. requests \subseteq DetailRequest /\ \A r \in requests : r.listing = r.asked
  BY DEF DetailInv, DetailShape, AskedInv, ActsOnTheListingAskedAbout
<1>1. ASSUME NEW r \in requests, NEW q,
             \/ q = [r EXCEPT !.here = FALSE]
             \/ \E l : q = [r EXCEPT !.hook = l]
             \/ \E a : q = [r EXCEPT !.reply = a]
      PROVE  q.listing = q.asked
  <2>1. r \in DetailRequest /\ r.listing = r.asked
    BY <1>0
  <2> QED
    BY <1>1, <2>1 DEF DetailRequest
<1> SUFFICES ASSUME NEW q \in requests' PROVE q.listing = q.asked
  BY DEF ActsOnTheListingAskedAbout
<1>2. CASE Confirm
  <2>1. askedFor = listingId
    BY <1>2 DEF Confirm, AskedInv
  <2>2. q \in requests \/ (q.listing = listingId /\ q.asked = askedFor)
    BY <1>2 DEF Confirm
  <2> QED
    BY <1>0, <2>1, <2>2
<1>3. ASSUME NEW l \in Shelf, Visit(l) PROVE q.listing = q.asked
  <2>1. PICK r \in requests : q = [r EXCEPT !.hook = IF r.here THEN l ELSE r.hook]
    BY <1>3 DEF Visit
  <2>2. \E h : q = [r EXCEPT !.hook = h]
    BY <2>1
  <2> QED
    BY <1>1, <2>2
<1>4. CASE Leave
  <2>1. PICK r \in requests : q = [r EXCEPT !.here = FALSE]
    BY <1>4 DEF Leave
  <2> QED
    BY <1>1, <2>1
<1>5. ASSUME NEW r \in requests, Serve(r) PROVE q.listing = q.asked
  <2>1. q \in requests \/ \E a : q = [r EXCEPT !.reply = a]
    BY <1>5 DEF Serve
  <2> QED
    BY <1>0, <1>1, <2>1
<1>6. ASSUME NEW r \in requests, Settled(r) PROVE q.listing = q.asked
  <2>1. q \in requests \/ \E s \in requests : q = [s EXCEPT !.here = FALSE]
    BY <1>6 DEF Settled
  <2> QED
    BY <1>0, <1>1, <2>1
<1>7. CASE UNCHANGED requests
  BY <1>0, <1>7
<1> QED
  BY <1>2, <1>3, <1>4, <1>5, <1>6, <1>7
     DEF DetailNext, LoadDetail, CloseLightbox, Dismiss, Enter, ChangedElsewhere, Select,
         OpenLightbox, Step, Ask, ChangePhotos, detailVars

\* Opening a dialog records the listing of the route, and every way off it closes the dialog.
LEMMA DialogAboutTheRoute ==
  ASSUME DetailInv, AskedInv, [DetailNext]_detailVars,
         [confirming # "nothing" => listingId' \in {listingId, Away}]_detailVars
  PROVE  confirming' # "nothing" => askedFor' = listingId'
<1>1. CASE Leave \/ Dismiss \/ \E k \in {"sold", "delete"} : Ask(k)
  BY <1>1 DEF Leave, Unmount, Dismiss, Ask
<1>2. CASE UNCHANGED <<listingId, shownState>>
  BY <1>2 DEF AskedInv, shownState
<1>3. ASSUME NEW l \in Shelf, Visit(l) PROVE confirming' # "nothing" => askedFor' = listingId'
  <2>1. listingId' = l /\ l # listingId /\ l # Away /\ UNCHANGED shownState
    BY <1>3, ShelfAssumption DEF Visit
  <2>2. confirming = "nothing"
    BY <2>1 DEF detailVars
  <2> QED
    BY <2>1, <2>2 DEF shownState
<1>4. ASSUME NEW l \in Shelf, Enter(l) PROVE confirming' # "nothing" => askedFor' = listingId'
  <2>1. listingId' = l /\ listingId = Away /\ l # Away /\ UNCHANGED shownState
    BY <1>4, ShelfAssumption DEF Enter
  <2>2. confirming = "nothing"
    BY <2>1 DEF detailVars
  <2> QED
    BY <2>1, <2>2 DEF shownState
<1>5. ASSUME NEW r \in requests, Settled(r) PROVE confirming' # "nothing" => askedFor' = listingId'
  BY <1>5 DEF Settled, Unmount, AskedInv, shownState
<1> QED
  BY <1>1, <1>2, <1>3, <1>4, <1>5
     DEF DetailNext, LoadDetail, CloseLightbox, Confirm, Serve, ChangedElsewhere, Select,
         OpenLightbox, Step, ChangePhotos, detailVars, shownState

\* Together: while the route stays under the dialog, dialogs and requests are about it.
LEMMA AskedStep ==
  ASSUME DetailInv, AskedInv, [DetailNext]_detailVars,
         [confirming # "nothing" => listingId' \in {listingId, Away}]_detailVars
  PROVE  AskedInv'
<1>1. ActsOnTheListingAskedAbout'
  BY RequestsAboutTheSame
<1>2. confirming' # "nothing" => askedFor' = listingId'
  BY DialogAboutTheRoute
<1> QED
  BY <1>1, <1>2 DEF AskedInv

\* A confirmed sale or deletion is about another listing than the one asked about only if
\* the route went on to that listing under the dialog, as Back and Forward can make it
\* (handleMarkSold and handleDelete act on the route's id).
THEOREM DetailActsAmissOnlyUnderADialog ==
  DetailSpec /\ DialogKeepsRoute => []ActsOnTheListingAskedAbout
<1>1. DetailInit => AskedInv
  BY DEF DetailInit, AskedInv, ActsOnTheListingAskedAbout
<1>2. AskedInv => ActsOnTheListingAskedAbout
  BY DEF AskedInv
<1> QED
  BY <1>1, <1>2, AskedStep, DetailInvariant, PTL DEF DetailSpec, DialogKeepsRoute
-----------------------------------------------------------------------------
\* CreateListingPage: one form, two requests.

Submissions == [step : {"none", "create", "upload"}, values : 0..MaxDrafts,
                images : SUBSET Files, reply : {"none", "ok", "error"}]

CreateShape ==
    /\ CreateTypeOK
    /\ submission \in Submissions
    /\ createdListingId \in BOOLEAN /\ navigated \in BOOLEAN
    /\ answerLost \in BOOLEAN /\ lateEdit \in BOOLEAN /\ latePick \in BOOLEAN

\* Where the form stands: which request fits which state of the page.
StageInv ==
    /\ isSubmitting => submission.step # "none"
    /\ submission.step = "create" => ~createdListingId
    /\ submission.step = "upload" => createdListingId
    /\ submission.step = "create" /\ submission.reply = "none" => listingsMade < MaxListings
    /\ navigated => createdListingId /\ ~isSubmitting

\* The page knows of the listing that was made, unless its answer is still to be read.
OnceInv ==
    ~answerLost =>
        /\ listingsMade <= 1
        /\ listingsMade = 1 =>
              createdListingId \/ (submission.step = "create" /\ submission.reply = "ok")

DraftInv ==
    ~lateEdit =>
        /\ isSubmitting => submission.values = draft
        /\ createdListingId \/ (submission.step = "create" /\ submission.reply = "ok")
              => savedDraft = draft

PhotosStored == navigated \/ (submission.step = "upload" /\ submission.reply = "ok")

FilesInv ==
    ~latePick /\ ~answerLost =>
        /\ isSubmitting => submission.images = files
        /\ \A f \in Files : copiesOf[f] = IF PhotosStored /\ f \in files THEN 1 ELSE 0

CreateInv == CreateShape /\ StageInv /\ OnceInv /\ DraftInv /\ FilesInv

\* Every copy of a photo takes one of the MaxImages places.
LEMMA CopiesAreStored ==
    ASSUME CreateShape, NEW f \in Files
    PROVE  Stored \in Nat /\ copiesOf[f] <= Stored
<1> DEFINE All == {c \in Files \X (1..MaxImages) : c[2] <= copiesOf[c[1]]}
           One == {f} \X (1..copiesOf[f])
<1>0. copiesOf \in [Files -> 0..MaxImages]
  BY DEF CreateShape, CreateTypeOK
<1>1. MaxImages \in Nat /\ IsFiniteSet(Files) /\ copiesOf[f] \in Nat /\ copiesOf[f] <= MaxImages
  <2>1. MaxImages \in Nat /\ IsFiniteSet(Files)
    BY CreateAssumption
  <2>2. copiesOf[f] \in 0..MaxImages
    BY <1>0
  <2> QED
    BY <2>1, <2>2
<1>2. /\ IsFiniteSet(1..MaxImages)
      /\ IsFiniteSet(1..copiesOf[f]) /\ Cardinality(1..copiesOf[f]) = copiesOf[f]
  <2>1. ASSUME NEW n \in Nat PROVE IsFiniteSet(1..n) /\ Cardinality(1..n) = n
    <3>1. IsFiniteSet(1..n) /\ Cardinality(1..n) = IF 1 > n THEN 0 ELSE n - 1 + 1
      BY FS_Interval
    <3> QED
      BY <3>1
  <2> QED
    BY <1>1, <2>1
<1>3. IsFiniteSet(Files \X (1..MaxImages))
  BY <1>1, <1>2, FS_Product
<1>4. All \in SUBSET (Files \X (1..MaxImages))
  OBVIOUS
<1>5. IsFiniteSet(All) /\ Cardinality(All) \in Nat
  BY <1>3, <1>4, FS_Subset, FS_CardinalityType
<1>6. One \in SUBSET All
  <2>1. 1..copiesOf[f] \subseteq 1..MaxImages /\ \A i \in 1..copiesOf[f] : i <= copiesOf[f]
    BY <1>1
  <2> QED
    BY <2>1
<1>7. Cardinality(One) = copiesOf[f]
  <2>1. IsFiniteSet({f}) /\ Cardinality({f}) = 1
    BY FS_Singleton
  <2>2. Cardinality(One) = Cardinality({f}) * Cardinality(1..copiesOf[f])
    BY <1>2, <2>1, FS_Product
  <2> QED
    BY <1>1, <1>2, <2>1, <2>2
<1>8. Cardinality(One) <= Cardinality(All)
  BY <1>5, <1>6, FS_Subset
<1> QED
  BY <1>5, <1>7, <1>8 DEF Stored

\* The back end takes photos only while there is room, so no photo has too many copies.
LEMMA RoomForCopies ==
    ASSUME CreateShape, NEW P \in SUBSET Files, Stored + Cardinality(P) <= MaxImages
    PROVE  \A f \in Files : copiesOf[f] + (IF f \in P THEN 1 ELSE 0) \in 0..MaxImages
<1> SUFFICES ASSUME NEW f \in Files
             PROVE  copiesOf[f] + (IF f \in P THEN 1 ELSE 0) \in 0..MaxImages
  OBVIOUS
<1>1. copiesOf[f] \in 0..MaxImages /\ MaxImages \in Nat
  BY CreateAssumption DEF CreateShape, CreateTypeOK
<1>2. Stored \in Nat /\ copiesOf[f] <= Stored
  BY CopiesAreStored
<1>3. CASE f \in P
  <2>1. IsFiniteSet(P)
    BY CreateAssumption, FS_Subset
  <2>2. Cardinality(P) \in Nat /\ Cardinality(P) # 0
    BY <1>3, <2>1, FS_CardinalityType, FS_EmptySet
  <2> QED
    BY <1>1, <1>2, <1>3, <2>2
<1>4. CASE f \notin P
  BY <1>1, <1>4
<1> QED
  BY <1>3, <1>4

\* The form opens empty.
LEMMA CreateInitially == CreateInit => CreateInv
<1> SUFFICES ASSUME CreateInit PROVE CreateInv
  OBVIOUS
<1> USE CreateAssumption DEF CreateInit, NoSubmission, isSubmitting
<1>1. CreateShape
  <2>1. submission \in Submissions /\ submission.images = {}
    BY DEF Submissions
  <2>2. copiesOf \in [Files -> 0..MaxImages]
    OBVIOUS
  <2>3. draft \in 0..MaxDrafts /\ savedDraft \in 0..MaxDrafts /\ listingsMade \in 0..MaxListings
    OBVIOUS
  <2> QED
    BY <2>1, <2>2, <2>3 DEF CreateShape, CreateTypeOK
<1>2. StageInv /\ OnceInv /\ DraftInv /\ FilesInv
  BY DEF StageInv, OnceInv, DraftInv, FilesInv, PhotosStored
<1> QED
  BY <1>1, <1>2 DEF CreateInv

\* Every step of the form and of its two requests keeps the invariant.
LEMMA CreateStep == CreateInv /\ [CreateNext]_createVars => CreateInv'
<1> SUFFICES ASSUME CreateInv, [CreateNext]_createVars PROVE CreateInv'
  OBVIOUS
<1>0. /\ CreateShape /\ StageInv /\ OnceInv /\ DraftInv /\ FilesInv
      /\ submission \in Submissions
      /\ draft \in Nat /\ savedDraft \in Nat /\ listingsMade \in Nat /\ listingsMade <= MaxListings
      /\ MaxListings \in Nat /\ MaxDrafts \in Nat /\ MaxImages \in Nat
  BY CreateAssumption DEF CreateInv, CreateShape, CreateTypeOK
<1>n. NoSubmission \in Submissions /\ NoSubmission.step = "none" /\ NoSubmission.reply = "none"
  BY CreateAssumption DEF NoSubmission, Submissions
<1>s. /\ isSubmitting <=> submission.step # "none"
      /\ submission.reply # "none" => isSubmitting
  BY <1>0, <1>n DEF StageInv, isSubmitting
<1>1. CASE EditDraft
  <2>1. CreateShape'
    BY <1>0, <1>1 DEF EditDraft, CreateShape, CreateTypeOK, server
  <2>2. StageInv' /\ OnceInv'
    BY <1>0, <1>1 DEF EditDraft, StageInv, OnceInv, server, isSubmitting
  <2>3. DraftInv'
    BY <1>0, <1>1, <1>s DEF EditDraft, DraftInv, server, isSubmitting
  <2>4. FilesInv'
    BY <1>0, <1>1 DEF EditDraft, FilesInv, PhotosStored, server, isSubmitting
  <2> QED
    BY <2>1, <2>2, <2>3, <2>4 DEF CreateInv
<1>2. CASE handleSubmit
  <2>1. /\ ~navigated /\ ~isSubmitting /\ submission.step = "none"
        /\ UNCHANGED <<draft, files, createdListingId, server, answerLost, lateEdit, latePick>>
    BY <1>2, <1>s DEF handleSubmit
  <2>2. CASE navigated' = TRUE /\ UNCHANGED submission
    <3>1. createdListingId /\ files = {}
      BY <1>2, <2>1, <2>2 DEF handleSubmit
    <3>2. CreateShape'
      BY <1>0, <2>1, <2>2 DEF CreateShape, CreateTypeOK, server
    <3>3. StageInv' /\ OnceInv' /\ DraftInv'
      BY <1>0, <2>1, <2>2, <3>1 DEF StageInv, OnceInv, DraftInv, server, isSubmitting
    <3>4. FilesInv'
      BY <1>0, <2>1, <2>2, <3>1 DEF FilesInv, PhotosStored, server, isSubmitting
    <3> QED
      BY <3>2, <3>3, <3>4 DEF CreateInv
  <2>3. CASE \E step \in {"create", "upload"} :
                /\ submission' = Request(step, draft, files) /\ UNCHANGED navigated
                /\ createdListingId = (step = "upload")
                /\ step = "create" => listingsMade < MaxListings
    <3>1. PICK step \in {"create", "upload"} :
                /\ submission' = Request(step, draft, files) /\ UNCHANGED navigated
                /\ createdListingId = (step = "upload")
                /\ step = "create" => listingsMade < MaxListings
      BY <2>3
    <3>2. /\ submission' \in Submissions
          /\ submission'.step = step /\ submission'.values = draft
          /\ submission'.images = files /\ submission'.reply = "none"
      BY <1>0, <3>1 DEF Request, Submissions, CreateShape, CreateTypeOK
    <3>3. CreateShape'
      BY <1>0, <2>1, <3>1, <3>2 DEF CreateShape, CreateTypeOK, server
    <3>4. StageInv' /\ OnceInv' /\ DraftInv'
      BY <1>0, <1>n, <2>1, <3>1, <3>2 DEF StageInv, OnceInv, DraftInv, server, isSubmitting
    <3>5. FilesInv'
      BY <1>0, <2>1, <3>1, <3>2 DEF FilesInv, PhotosStored, server, isSubmitting
    <3> QED
      BY <3>3, <3>4, <3>5 DEF CreateInv
  <2> QED
    BY <1>2, <1>0, <2>2, <2>3 DEF handleSubmit, CreateShape
<1>3. CASE ServeSubmission
  <2>1. /\ submission.reply = "none" /\ submission.step \in {"create", "upload"} /\ isSubmitting
        /\ UNCHANGED <<draft, files, createdListingId, navigated, answerLost, lateEdit, latePick>>
    BY <1>0, <1>3, <1>s DEF ServeSubmission, Submissions
  <2>2. PICK r \in {"ok", "error"} : submission' = [submission EXCEPT !.reply = r]
    BY <1>3 DEF ServeSubmission
  <2>3. /\ submission' \in Submissions
        /\ submission'.step = submission.step /\ submission'.values = submission.values
        /\ submission'.images = submission.images /\ submission'.reply = r
    BY <1>0, <2>2 DEF Submissions
  <2>4. isSubmitting' /\ ~navigated
    BY <1>0, <1>n, <2>1, <2>3 DEF StageInv, isSubmitting
  <2>5. CASE UNCHANGED server /\ r = "error"
    <3>1. CreateShape'
      BY <1>0, <2>1, <2>3, <2>5 DEF CreateShape, CreateTypeOK, server
    <3>2. StageInv' /\ OnceInv' /\ DraftInv'
      BY <1>0, <2>1, <2>3, <2>4, <2>5 DEF StageInv, OnceInv, DraftInv, server
    <3>3. FilesInv'
      BY <1>0, <2>1, <2>3, <2>4, <2>5 DEF FilesInv, PhotosStored, server
    <3> QED
      BY <3>1, <3>2, <3>3 DEF CreateInv
  <2>6. CASE /\ r = "ok" /\ submission.step = "create"
             /\ listingsMade' = listingsMade + 1 /\ savedDraft' = submission.values
             /\ UNCHANGED copiesOf
    <3>1. listingsMade < MaxListings /\ ~createdListingId /\ submission.values \in 0..MaxDrafts
      BY <1>0, <2>1, <2>6 DEF StageInv, Submissions
    <3>2. CreateShape'
      BY <1>0, <2>1, <2>3, <2>6, <3>1 DEF CreateShape, CreateTypeOK
    <3>3. StageInv' /\ OnceInv' /\ DraftInv'
      BY <1>0, <2>1, <2>3, <2>4, <2>6, <3>1 DEF StageInv, OnceInv, DraftInv
    <3>4. FilesInv'
      BY <1>0, <2>1, <2>3, <2>4, <2>6 DEF FilesInv, PhotosStored
    <3> QED
      BY <3>2, <3>3, <3>4 DEF CreateInv
  <2>7. CASE /\ r = "ok" /\ submission.step = "upload"
             /\ Stored + Cardinality(submission.images) <= MaxImages
             /\ copiesOf' = [f \in Files |-> copiesOf[f] + IF f \in submission.images THEN 1 ELSE 0]
             /\ UNCHANGED <<listingsMade, savedDraft>>
    <3>1. submission.images \in SUBSET Files
      BY <1>0 DEF Submissions
    <3>2. copiesOf' \in [Files -> 0..MaxImages]
      BY <1>0, <2>7, <3>1, RoomForCopies
    <3>3. CreateShape'
      BY <1>0, <2>1, <2>3, <2>7, <3>2 DEF CreateShape, CreateTypeOK
    <3>4. StageInv' /\ OnceInv' /\ DraftInv'
      BY <1>0, <2>1, <2>3, <2>4, <2>7 DEF StageInv, OnceInv, DraftInv
    <3>5. \A f \in Files : copiesOf'[f] = copiesOf[f] + IF f \in submission.images THEN 1 ELSE 0
      BY <2>7
    <3>6. FilesInv'
      BY <1>0, <2>1, <2>3, <2>4, <2>7, <3>5 DEF FilesInv, PhotosStored
    <3> QED
      BY <3>3, <3>4, <3>6 DEF CreateInv
  <2>8. CASE r = "ok"
    <3>1. submission' # [submission EXCEPT !.reply = "error"]
      BY <1>0, <2>3, <2>8 DEF Submissions
    <3> QED
      BY <1>3, <2>1, <2>6, <2>7, <2>8, <3>1 DEF ServeSubmission
  <2>9. CASE r = "error"
    <3>1. submission' # [submission EXCEPT !.reply = "ok"]
      BY <1>0, <2>3, <2>9 DEF Submissions
    <3> QED
      BY <1>3, <2>5, <2>9, <3>1 DEF ServeSubmission
  <2> QED
    BY <2>8, <2>9
<1>4. CASE LoseAnswer
  <2>1. /\ isSubmitting /\ answerLost' = TRUE /\ submission.reply = "ok"
        /\ UNCHANGED <<draft, files, createdListingId, navigated, server, lateEdit, latePick>>
    BY <1>4, <1>s DEF LoseAnswer
  <2>2. /\ submission' \in Submissions
        /\ submission'.step = submission.step /\ submission'.values = submission.values
        /\ submission'.images = submission.images /\ submission'.reply = "error"
    BY <1>0, <1>4 DEF LoseAnswer, Submissions
  <2>3. CreateShape'
    BY <1>0, <2>1, <2>2 DEF CreateShape, CreateTypeOK, server
  <2>4. StageInv' /\ OnceInv' /\ FilesInv'
    BY <1>0, <2>1, <2>2 DEF StageInv, OnceInv, FilesInv, server, isSubmitting
  <2>5. DraftInv'
    BY <1>0, <2>1, <2>2 DEF DraftInv, server
  <2> QED
    BY <2>3, <2>4, <2>5 DEF CreateInv
<1>5. CASE Continue
  <2>1. /\ isSubmitting /\ ~navigated /\ submission.step \in {"create", "upload"}
        /\ createdListingId' = (createdListingId \/ submission.reply = "ok")
        /\ UNCHANGED <<draft, files, listingsMade, savedDraft, copiesOf,
                       answerLost, lateEdit, latePick>>
    BY <1>0, <1>5, <1>s DEF Continue, StageInv, Submissions, server
  <2>2. CASE submission.reply = "ok" /\ submission.step = "create" /\ submission.images # {}
    <3>1. /\ submission' = Request("upload", submission.values, submission.images)
          /\ UNCHANGED navigated /\ createdListingId' = TRUE
      BY <1>5, <2>1, <2>2 DEF Continue
    <3>2. /\ submission' \in Submissions
          /\ submission'.step = "upload" /\ submission'.values = submission.values
          /\ submission'.images = submission.images /\ submission'.reply = "none"
      BY <1>0, <3>1 DEF Request, Submissions
    <3>3. CreateShape'
      <4>1. submission'.images \subseteq Files
        BY <3>2 DEF Submissions
      <4> QED
        BY <1>0, <2>1, <3>1, <3>2, <4>1 DEF CreateShape, CreateTypeOK
    <3>4. StageInv' /\ OnceInv' /\ DraftInv'
      BY <1>0, <2>1, <2>2, <3>1, <3>2 DEF StageInv, OnceInv, DraftInv, isSubmitting
    <3>5. FilesInv'
      BY <1>0, <2>1, <2>2, <3>1, <3>2 DEF FilesInv, PhotosStored, isSubmitting
    <3> QED
      BY <3>3, <3>4, <3>5 DEF CreateInv
  <2>3. CASE ~(submission.reply = "ok" /\ submission.step = "create" /\ submission.images # {})
    <3>1. submission' = NoSubmission /\ navigated' = (submission.reply = "ok")
      BY <1>5, <2>3 DEF Continue
    <3>2. ~isSubmitting'
      BY <3>1 DEF isSubmitting
    <3>3. CreateShape'
      BY <1>0, <1>n, <2>1, <3>1 DEF CreateShape, CreateTypeOK, Submissions
    <3>4. StageInv' /\ OnceInv' /\ DraftInv'
      BY <1>0, <1>n, <2>1, <2>3, <3>1, <3>2 DEF StageInv, OnceInv, DraftInv
    <3>5. FilesInv'
      BY <1>0, <1>n, <2>1, <2>3, <3>1, <3>2 DEF FilesInv, PhotosStored
    <3> QED
      BY <3>3, <3>4, <3>5 DEF CreateInv
  <2> QED
    BY <2>2, <2>3
<1>6. ASSUME NEW f \in Files, ChangeFiles(f) PROVE CreateInv'
  <2>1. /\ ~navigated /\ files' \subseteq Files
        /\ latePick' = (latePick \/ isSubmitting \/ copiesOf[f] > 0)
        /\ UNCHANGED <<draft, createdListingId, submission, navigated, server, answerLost, lateEdit>>
    BY <1>0, <1>6 DEF ChangeFiles, CreateShape, CreateTypeOK
  <2>2. CreateShape'
    BY <1>0, <2>1 DEF CreateShape, CreateTypeOK, server
  <2>3. StageInv' /\ OnceInv' /\ DraftInv'
    BY <1>0, <2>1 DEF StageInv, OnceInv, DraftInv, server, isSubmitting
  <2>4. FilesInv'
    BY <1>0, <1>s, <2>1 DEF FilesInv, PhotosStored, server, isSubmitting
  <2> QED
    BY <2>2, <2>3, <2>4 DEF CreateInv
<1>7. CASE UNCHANGED createVars
  <2>1. CreateShape'
    BY <1>0, <1>7 DEF createVars, CreateShape, CreateTypeOK
  <2>2. StageInv' /\ OnceInv' /\ DraftInv' /\ FilesInv'
    BY <1>0, <1>7
       DEF createVars, StageInv, OnceInv, DraftInv, FilesInv, PhotosStored, isSubmitting
  <2> QED
    BY <2>1, <2>2 DEF CreateInv
<1> QED
  BY <1>1, <1>2, <1>3, <1>4, <1>5, <1>6, <1>7 DEF CreateNext

\* What the invariant says of the listings made and of what is saved.
LEMMA CreateGives == CreateInv => CreateTypeOK /\ OneListingPerForm /\ SavedAsTyped
<1> SUFFICES ASSUME CreateInv PROVE CreateTypeOK /\ OneListingPerForm /\ SavedAsTyped
  OBVIOUS
<1>1. CreateTypeOK
  BY DEF CreateInv, CreateShape
<1>2. OneListingPerForm
  BY <1>1 DEF CreateInv, OnceInv, OneListingPerForm, CreateTypeOK
<1>3. SavedAsTyped
  BY DEF CreateInv, StageInv, DraftInv, FilesInv, PhotosStored, SavedAsTyped
<1> QED
  BY <1>1, <1>2, <1>3

\* The inductive invariant of the form over any drafts, files and limits.
THEOREM CreateInvariant == CreateSpec => []CreateInv
<1>1. CreateInit => CreateInv
  BY CreateInitially
<1>2. CreateInv /\ [CreateNext]_createVars => CreateInv'
  BY CreateStep
<1> QED
  BY <1>1, <1>2, PTL DEF CreateSpec

\* However often the form is submitted after failures of its upload, it makes one listing;
\* only an answer that was lost after the listing was made lets it make another.
THEOREM CreateOneListingPerForm == CreateSpec => []OneListingPerForm
<1>1. CreateInv => OneListingPerForm
  BY CreateGives
<1> QED
  BY <1>1, CreateInvariant, PTL

\* When the form leaves for the new listing, what is stored is what it shows, and each
\* photo once: the exceptions are edits during or after the submission and lost answers.
THEOREM CreateSavedAsTyped == CreateSpec => []SavedAsTyped
<1>1. CreateInv => SavedAsTyped
  BY CreateGives
<1> QED
  BY <1>1, CreateInvariant, PTL
-----------------------------------------------------------------------------
\* EditListingPage: a form over a cached row.

\* Nothing has happened that an open form cannot know of, beside edits elsewhere.
Undisturbed == ~hurried /\ ~patchLost

\* A row is the stored one, as far as this window knows.
IsCurrent(r) == \A f \in Fields \ elsewhere : r[f] = row[f]

Patching == saving.step = "patch" /\ saving.reply = "none"

\* A form that is open differs from the row in edited fields only, and so does the
\* update it has sent, in those that were edited by then.
FormInv ==
    Undisturbed =>
        /\ undone \subseteq elsewhere
        /\ values # NoRow => \A f \in Fields \ (edited \union elsewhere) : values[f] = row[f]
        /\ Patching =>
            /\ \A f \in Fields \ (saving.touched \union elsewhere) : saving.body[f] = row[f]
            /\ values # NoRow => saving.touched \subseteq edited

\* Unless an update has taken effect and its answer is on its way, what is cached and not
\* invalidated is the row.
CachedInv ==
    Undisturbed /\ ~(saving.step = "patch" /\ saving.reply = "ok") =>
        /\ inFlight # NoRow => IsCurrent(inFlight)
        /\ cachedRow # NoRow /\ ~isInvalidated => IsCurrent(cachedRow)

Rows == [Fields -> 1 .. MaxVersions]

Savings ==
    [step : {"patch", "upload"}, body : Rows \union {NoRow}, touched : SUBSET Fields,
     left : BOOLEAN, reply : {"none", "ok", "error"}]

EditShape ==
    /\ version \in 1 .. MaxVersions
    /\ row \in Rows
    /\ {cachedRow, inFlight, values} \subseteq Rows \union {NoRow}
    /\ saving = NotSaving \/ saving \in Savings
    /\ Patching => saving.body \in Rows
    /\ saving.left => hurried
    /\ edited \subseteq Fields /\ undone \subseteq Fields /\ elsewhere \subseteq Fields
    /\ isInvalidated \in BOOLEAN /\ fetchFailed \in BOOLEAN
    /\ hurried \in BOOLEAN /\ patchLost \in BOOLEAN

EditInv == EditShape /\ FormInv /\ CachedInv

\* Nothing is cached and no form is open.
LEMMA EditInitially == EditInit => EditInv
<1> SUFFICES ASSUME EditInit PROVE EditInv
  OBVIOUS
<1>1. row \in Rows /\ 1 \in 1 .. MaxVersions
  BY VersionsAssumption DEF EditInit, Rows
<1>2. EditShape
  BY <1>1 DEF EditInit, EditShape, NotSaving, Patching
<1> QED
  BY <1>2 DEF EditInit, EditInv, FormInv, CachedInv, Undisturbed, NotSaving, Patching

\* An answer leaves the step and the page of its request as they are.
LEMMA AnsweredIsSaving ==
    ASSUME saving \in Savings, NEW r \in {"ok", "error"}
    PROVE  /\ Answered(r) \in Savings
           /\ Answered(r).step = saving.step /\ Answered(r).left = saving.left
           /\ Answered(r).reply = r /\ r # "none"
BY DEF Savings, Answered

\* Every step of the form, the query and the other editors keeps the invariant.
LEMMA EditStep == EditInv /\ [EditNext]_editVars => EditInv'
<1> SUFFICES ASSUME EditInv, [EditNext]_editVars PROVE EditInv'
  OBVIOUS
<1>0. EditShape /\ FormInv /\ CachedInv
  BY DEF EditInv
<1>1. CASE ReadRow
  <2>1. EditShape'
    BY <1>0, <1>1 DEF ReadRow, form, editHistory, EditShape, Patching
  <2>2. FormInv'
    BY <1>0, <1>1 DEF ReadRow, form, editHistory, EditShape, FormInv, Undisturbed,
           Patching
  <2>3. CachedInv'
    BY <1>0, <1>1 DEF ReadRow, form, editHistory, EditShape, CachedInv, Undisturbed,
           IsCurrent
  <2> QED
    BY <2>1, <2>2, <2>3 DEF EditInv
<1>2. CASE ReceiveRow
  <2>1. EditShape'
    BY <1>0, <1>2 DEF ReceiveRow, form, editHistory, EditShape, Patching
  <2>2. FormInv'
    BY <1>0, <1>2 DEF ReceiveRow, form, editHistory, EditShape, FormInv, Undisturbed,
           Patching
  <2>3. CachedInv'
    BY <1>0, <1>2 DEF ReceiveRow, form, editHistory, EditShape, CachedInv, Undisturbed,
           IsCurrent
  <2> QED
    BY <2>1, <2>2, <2>3 DEF EditInv
<1>3. CASE FetchFails
  <2>1. EditShape'
    BY <1>0, <1>3 DEF FetchFails, CloseForm, editHistory, EditShape, Patching
  <2>2. FormInv'
    BY <1>0, <1>3 DEF FetchFails, CloseForm, editHistory, EditShape, FormInv, Undisturbed,
           Patching
  <2>3. CachedInv'
    BY <1>0, <1>3 DEF FetchFails, CloseForm, editHistory, EditShape, CachedInv, Undisturbed,
           IsCurrent
  <2> QED
    BY <2>1, <2>2, <2>3 DEF EditInv
<1>4. CASE MountForm
  <2>1. EditShape'
    BY <1>0, <1>4 DEF MountForm, query, EditShape, Patching
  <2>2. Undisturbed' => Undisturbed /\ saving = NotSaving /\ IsCurrent(cachedRow)
    <3>1. Undisturbed' => Undisturbed /\ ~isInvalidated /\ saving = NotSaving
      BY <1>0, <1>4 DEF MountForm, EditShape, Undisturbed, Saving
    <3>2. saving = NotSaving => saving.step # "patch"
      BY DEF NotSaving
    <3> QED
      BY <1>0, <1>4, <3>1, <3>2 DEF MountForm, CachedInv
  <2>3. FormInv'
    <3>1. saving = NotSaving => ~Patching
      BY DEF NotSaving, Patching
    <3> QED
      BY <1>0, <1>4, <2>2, <3>1 DEF MountForm, FormInv, Patching, IsCurrent
  <2>4. CachedInv'
    BY <1>0, <1>4 DEF MountForm, query, EditShape, CachedInv, Undisturbed, IsCurrent
  <2> QED
    BY <2>1, <2>3, <2>4 DEF EditInv
<1>5. CASE LeavePage
  <2>1. EditShape'
    BY <1>0, <1>5 DEF LeavePage, query, CloseForm, EditShape, Patching, Saving,
           NotSaving, Savings
  <2>2. FormInv'
    BY <1>0, <1>5 DEF LeavePage, query, CloseForm, EditShape, FormInv, Undisturbed,
           Patching, Saving, NotSaving, Savings
  <2>3. CachedInv'
    BY <1>0, <1>5 DEF LeavePage, query, CloseForm, EditShape, CachedInv, Undisturbed,
           IsCurrent, Saving, NotSaving, Savings
  <2> QED
    BY <2>1, <2>2, <2>3 DEF EditInv
<1>6. CASE SubmitEdit
  <2>1. EditShape'
    BY <1>0, <1>6 DEF SubmitEdit, query, form, editHistory, EditShape, Patching, Saving,
           NotSaving, Savings
  <2>2. FormInv'
    BY <1>0, <1>6 DEF SubmitEdit, query, form, editHistory, EditShape, FormInv, Undisturbed,
           Patching, Saving, NotSaving, Savings
  <2>3. CachedInv'
    BY <1>0, <1>6 DEF SubmitEdit, query, form, editHistory, EditShape, CachedInv, Undisturbed,
           IsCurrent, Saving, NotSaving, Savings
  <2> QED
    BY <2>1, <2>2, <2>3 DEF EditInv
<1>7. CASE ServePatch
  <2>0. saving \in Savings /\ saving.body \in Rows /\ Patching
    BY <1>0, <1>7 DEF ServePatch, EditShape, NotSaving, Patching
  <2>1. CASE saving' = Answered("ok")
    <3>1. ~Patching' /\ saving'.left = saving.left /\ saving' \in Savings
          /\ saving'.step = "patch" /\ saving'.reply = "ok"
      BY <1>7, <2>0, <2>1, AnsweredIsSaving DEF ServePatch, Patching
    <3>2. row' = saving.body
          /\ undone' = undone \union {f \in Fields \ saving.touched : row[f] # saving.body[f]}
      BY <1>7, <2>0, <2>1, AnsweredIsSaving DEF ServePatch, Answered, Savings
    <3>3. EditShape'
      BY <1>0, <1>7, <2>0, <3>1, <3>2 DEF ServePatch, query, form, EditShape
    <3>4. FormInv'
      BY <1>0, <1>7, <2>0, <3>1, <3>2 DEF ServePatch, form, FormInv, Undisturbed
    <3>5. CachedInv'
      BY <3>1 DEF CachedInv
    <3> QED
      BY <3>3, <3>4, <3>5 DEF EditInv
  <2>2. CASE saving' = Answered("error") /\ UNCHANGED <<row, undone>>
    <3>1. ~Patching' /\ saving'.left = saving.left /\ saving' \in Savings
      BY <2>0, <2>2, AnsweredIsSaving DEF Patching
    <3>2. EditShape'
      BY <1>0, <1>7, <2>2, <3>1 DEF ServePatch, query, form, EditShape
    <3>3. FormInv'
      BY <1>0, <1>7, <2>2, <3>1 DEF ServePatch, form, FormInv, Undisturbed
    <3>4. CachedInv'
      BY <1>0, <1>7, <2>2 DEF ServePatch, query, CachedInv, Undisturbed, IsCurrent
    <3> QED
      BY <3>2, <3>3, <3>4 DEF EditInv
  <2> QED
    BY <1>7, <2>1, <2>2 DEF ServePatch
<1>8. CASE LosePatchAnswer
  <2>0. saving \in Savings
    BY <1>0, <1>8 DEF LosePatchAnswer, EditShape, NotSaving
  <2>1. saving' \in Savings /\ ~Patching' /\ saving'.left = saving.left
    BY <1>8, <2>0, AnsweredIsSaving DEF LosePatchAnswer, Patching
  <2>2. EditShape'
    BY <1>0, <1>8, <2>1 DEF LosePatchAnswer, query, form, EditShape
  <2>3. FormInv' /\ CachedInv'
    BY <1>8 DEF LosePatchAnswer, FormInv, CachedInv, Undisturbed
  <2> QED
    BY <2>2, <2>3 DEF EditInv
<1>9. CASE ServeUpload
  <2>0. saving \in Savings
    BY <1>0, <1>9 DEF ServeUpload, EditShape, NotSaving
  <2>1. saving' \in Savings /\ saving'.step = "upload" /\ saving'.left = saving.left
    BY <1>9, <2>0, AnsweredIsSaving DEF ServeUpload
  <2>2. EditShape'
    BY <1>0, <1>9, <2>1 DEF ServeUpload, query, form, editHistory, EditShape, Patching
  <2>3. FormInv'
    BY <1>0, <1>9, <2>1 DEF ServeUpload, form, editHistory, FormInv, Undisturbed, Patching
  <2>4. CachedInv'
    BY <1>0, <1>9 DEF ServeUpload, query, editHistory, CachedInv, Undisturbed, IsCurrent
  <2> QED
    BY <2>2, <2>3, <2>4 DEF EditInv
<1>10. CASE PatchSettles
  <2>0. saving \in Savings
    BY <1>0, <1>10 DEF PatchSettles, EditShape, NotSaving
  <2>1. CASE saving.reply = "ok"
    <3>1. \/ saving' = NotSaving /\ CloseForm
          \/ saving' = [saving EXCEPT !.step = "upload", !.reply = "none"] /\ UNCHANGED form
      BY <1>10, <2>1 DEF PatchSettles, Navigate, UploadPhotos
    <3>2. /\ saving' = NotSaving \/ saving' \in Savings
          /\ saving'.step # "patch" /\ (saving'.left => saving.left)
      <4>1. CASE saving' = NotSaving
        BY <4>1 DEF NotSaving
      <4>2. CASE saving' = [saving EXCEPT !.step = "upload", !.reply = "none"]
        BY <2>0, <4>2 DEF Savings
      <4> QED
        BY <3>1, <4>1, <4>2
    <3>3. UNCHANGED <<cachedRow, fetchFailed, row, version, editHistory>> /\ isInvalidated' = TRUE
          /\ (inFlight' = NoRow \/ (saving.left /\ inFlight' = inFlight))
      BY <1>10, <2>1 DEF PatchSettles, InvalidateDetail
    <3>4. (values' = NoRow /\ edited' = {}) \/ (values' = values /\ edited' = edited)
      BY <3>1 DEF CloseForm, form
    <3>5. EditShape'
      BY <1>0, <3>2, <3>3, <3>4 DEF editHistory, EditShape, Patching
    <3>6. FormInv'
      BY <1>0, <3>2, <3>3, <3>4 DEF editHistory, FormInv, Undisturbed, Patching
    <3>7. CachedInv'
      BY <1>0, <3>3 DEF editHistory, EditShape, CachedInv, Undisturbed
    <3> QED
      BY <3>5, <3>6, <3>7 DEF EditInv
  <2>2. CASE saving.reply # "ok"
    <3>1. /\ saving' = NotSaving /\ saving'.step # "patch" /\ ~saving'.left
          /\ UNCHANGED <<row, version, query, form, editHistory>>
      BY <1>10, <2>2 DEF PatchSettles, StayWithError, NotSaving
    <3>2. EditShape'
      BY <1>0, <3>1 DEF query, form, editHistory, EditShape, Patching
    <3>3. FormInv'
      BY <1>0, <3>1 DEF form, editHistory, FormInv, Undisturbed, Patching
    <3>4. CachedInv'
      BY <1>0, <2>2, <3>1 DEF query, editHistory, CachedInv, Undisturbed, IsCurrent
    <3> QED
      BY <3>2, <3>3, <3>4 DEF EditInv
  <2> QED
    BY <2>1, <2>2
<1>11. CASE UploadSettles
  <2>1. CASE saving.reply = "ok"
    <3>1. saving' = NotSaving /\ saving'.step # "patch" /\ ~saving'.left
      BY <1>11, <2>1 DEF UploadSettles, Navigate, NotSaving
    <3>2. values' = NoRow /\ edited' = {}
      BY <1>11, <2>1 DEF UploadSettles, Navigate, CloseForm
    <3>3. UNCHANGED <<cachedRow, fetchFailed, row, version, editHistory>> /\ isInvalidated' = TRUE
          /\ (inFlight' = NoRow \/ (saving.left /\ inFlight' = inFlight))
      BY <1>11, <2>1 DEF UploadSettles, InvalidateDetail
    <3>4. EditShape'
      BY <1>0, <3>1, <3>2, <3>3 DEF editHistory, EditShape, Patching
    <3>5. FormInv'
      BY <1>0, <3>1, <3>2, <3>3 DEF editHistory, FormInv, Undisturbed, Patching
    <3>6. CachedInv'
      BY <1>0, <3>3 DEF editHistory, EditShape, CachedInv, Undisturbed
    <3> QED
      BY <3>4, <3>5, <3>6 DEF EditInv
  <2>2. CASE saving.reply # "ok"
    <3>1. /\ saving' = NotSaving /\ saving'.step # "patch" /\ ~saving'.left
          /\ UNCHANGED <<row, version, query, form, editHistory>>
      BY <1>11, <2>2 DEF UploadSettles, StayWithError, NotSaving
    <3>2. EditShape'
      BY <1>0, <3>1 DEF query, form, editHistory, EditShape, Patching
    <3>3. FormInv'
      BY <1>0, <3>1 DEF form, editHistory, FormInv, Undisturbed, Patching
    <3>4. CachedInv'
      BY <1>0, <2>2, <3>1 DEF query, editHistory, CachedInv, Undisturbed, IsCurrent
    <3> QED
      BY <3>2, <3>3, <3>4 DEF EditInv
  <2> QED
    BY <2>1, <2>2
<1>12. ASSUME NEW f \in Fields, SetField(f) PROVE EditInv'
  <2>1. EditShape'
    <3>1. version + 1 \in 1 .. MaxVersions
      BY <1>0, <1>12, VersionsAssumption DEF SetField, EditShape
    <3>2. values \in Rows /\ values' = [values EXCEPT ![f] = version + 1]
      BY <1>0, <1>12 DEF SetField, EditShape
    <3>3. values' \in Rows
      BY <3>1, <3>2 DEF Rows
    <3> QED
      BY <1>0, <1>12, <3>1, <3>3 DEF SetField, query, editHistory, EditShape, Patching
  <2>2. FormInv'
    BY <1>0, <1>12
       DEF SetField, query, editHistory, EditShape, FormInv, Undisturbed, Patching, Rows
  <2>3. CachedInv'
    BY <1>0, <1>12 DEF SetField, query, editHistory, CachedInv, Undisturbed, IsCurrent
  <2> QED
    BY <2>1, <2>2, <2>3 DEF EditInv
<1>13. ASSUME NEW f \in Fields, EditElsewhere(f) PROVE EditInv'
  <2>1. EditShape'
    <3>1. version + 1 \in 1 .. MaxVersions
      BY <1>0, <1>13, VersionsAssumption DEF EditElsewhere, EditShape
    <3>2. row' \in Rows
      BY <1>0, <1>13, <3>1 DEF EditElsewhere, EditShape, Rows
    <3> QED
      BY <1>0, <1>13, <3>1, <3>2 DEF EditElsewhere, query, form, EditShape, Patching
  <2>2. \A g \in Fields \ elsewhere' : row'[g] = row[g] /\ g \notin elsewhere
    BY <1>0, <1>13 DEF EditElsewhere, EditShape, Rows
  <2>3. FormInv'
    BY <1>0, <1>13, <2>2
       DEF EditElsewhere, query, form, EditShape, FormInv, Undisturbed, Patching
  <2>4. CachedInv'
    BY <1>0, <1>13, <2>2 DEF EditElsewhere, query, form, CachedInv, Undisturbed, IsCurrent
  <2> QED
    BY <2>1, <2>3, <2>4 DEF EditInv
<1>14. CASE UNCHANGED editVars
  <2>1. EditShape'
    BY <1>0, <1>14 DEF editVars, EditShape, Patching
  <2>2. FormInv' /\ CachedInv'
    BY <1>0, <1>14 DEF editVars, FormInv, CachedInv, Undisturbed, Patching, IsCurrent
  <2> QED
    BY <2>1, <2>2 DEF EditInv
<1> QED
  BY <1>1, <1>2, <1>3, <1>4, <1>5, <1>6, <1>7, <1>8, <1>9, <1>10, <1>11, <1>12, <1>13, <1>14
     DEF EditNext

\* What the invariant says of the edits that were not made here.
LEMMA EditGives == EditInv => EditTypeOK /\ EditsSurvive
<1> SUFFICES ASSUME EditInv PROVE EditTypeOK /\ EditsSurvive
  OBVIOUS
<1>1. EditShape /\ FormInv
  BY DEF EditInv
<1>2. Rows \subseteq [Fields -> 0..MaxVersions] /\ NoRow \in [Fields -> 0..MaxVersions]
  BY VersionsAssumption DEF Rows, NoRow
<1>3. saving.body \in Rows \union {NoRow} /\ saving.touched \subseteq Fields
  BY <1>1 DEF EditShape, NotSaving, Savings
<1>4. EditTypeOK
  <2>1. /\ cachedRow \in Rows \union {NoRow} /\ inFlight \in Rows \union {NoRow}
        /\ values \in Rows \union {NoRow}
    BY <1>1 DEF EditShape
  <2> QED
    BY <1>1, <1>2, <1>3, <2>1 DEF EditTypeOK, EditShape, Rows
<1>5. EditsSurvive
  BY <1>1 DEF EditShape, FormInv, Undisturbed, EditsSurvive
<1> QED
  BY <1>4, <1>5

\* The inductive invariant of the edit form, its query and its two requests.
THEOREM EditInvariant == EditSpec => []EditInv
<1>1. EditInit => EditInv
  BY EditInitially
<1>2. EditInv /\ [EditNext]_editVars => EditInv'
  BY EditStep
<1> QED
  BY <1>1, <1>2, PTL DEF EditSpec

\* A submission puts an old value back only into fields that were edited in another window,
\* retries after a failed upload or a failed refetch included, unless the form was left or
\* opened while it was being saved, opened on data that were being read again, or an
\* update's answer was lost.
THEOREM EditEditsSurvive == EditSpec => []EditsSurvive
<1>1. EditInv => EditsSurvive
  BY EditGives
<1> QED
  BY <1>1, EditInvariant, PTL

\* The form sends every field, yet it changes one that its user had not only when the
\* seller has edited the listing in another window as well, or for one of the reasons above.
THEOREM EditSubmitsDiffUnlessElsewhere ==
  EditSpec => [](elsewhere = {} /\ ~hurried /\ ~patchLost => SubmitsDiff)
<1>1. EditsSurvive => (elsewhere = {} /\ ~hurried /\ ~patchLost => SubmitsDiff)
  BY DEF EditsSurvive, SubmitsDiff
<1> QED
  BY <1>1, EditEditsSurvive, PTL
-----------------------------------------------------------------------------
\* AdminUsersPage: dialogs and the calls they started.

AnyCall == [user : Members \union {Nobody}, reply : {"none", "ok", "error"}]

UsersShape ==
    /\ isActive \in [Members -> BOOLEAN] /\ rows \in [Members -> BOOLEAN]
    /\ {suspendTarget, resetTarget, temporaryPassword} \subseteq Members \union {Nobody}
    /\ usersCall \in [Mutations -> AnyCall]
    /\ \A k \in Mutations : IsPending(k) => usersCall[k].user \in Members
    /\ closedEarly \in BOOLEAN
    /\ suspendTarget = Nobody \/ resetTarget = Nobody

UsersInv == UsersShape /\ AnswersMeetTheirDialog

\* The page opens without a dialog or a call.
LEMMA UsersInitially == UsersInit => UsersInv
<1> SUFFICES ASSUME UsersInit PROVE UsersInv
  OBVIOUS
<1>1. \A k \in Mutations : ~IsPending(k)
  BY DEF UsersInit, IsPending
<1>2. UsersShape
  BY <1>1 DEF UsersInit, UsersShape, AnyCall, Idle
<1> QED
  BY <1>1, <1>2 DEF UsersInit, UsersInv, AnswersMeetTheirDialog, Mutations

\* Every step of the dialogs and of the four mutations keeps the invariant.
LEMMA UsersStep == UsersInv /\ [UsersNext]_usersVars => UsersInv'
<1> SUFFICES ASSUME UsersInv, [UsersNext]_usersVars PROVE UsersInv'
  OBVIOUS
<1> USE NobodyAssumption
<1>1. ASSUME NEW u \in Members, OpenSuspend(u) PROVE UsersInv'
  <2>1. UsersShape'
    BY <1>1 DEF OpenSuspend, DialogOpen, UsersInv, UsersShape, IsPending, AnyCall, Mutations
  <2>2. AnswersMeetTheirDialog'
    BY <1>1 DEF OpenSuspend, DialogOpen, UsersInv, UsersShape, AnswersMeetTheirDialog,
           IsPending, Mutations
  <2> QED
    BY <2>1, <2>2 DEF UsersInv
<1>2. ASSUME NEW u \in Members, OpenReset(u) PROVE UsersInv'
  <2>1. UsersShape'
    BY <1>2 DEF OpenReset, DialogOpen, UsersInv, UsersShape, IsPending, AnyCall, Mutations
  <2>2. AnswersMeetTheirDialog'
    BY <1>2
       DEF OpenReset, DialogOpen, UsersInv, UsersShape, AnswersMeetTheirDialog, IsPending,
           Mutations
  <2> QED
    BY <2>1, <2>2 DEF UsersInv
<1>3. ASSUME NEW u \in Members, handleReinstate(u) PROVE UsersInv'
  <2>1. UsersShape'
    BY <1>3 DEF handleReinstate, Send, UsersInv, UsersShape, IsPending, AnyCall, Mutations
  <2>2. AnswersMeetTheirDialog'
    BY <1>3
       DEF handleReinstate, Send, UsersInv, UsersShape, AnswersMeetTheirDialog, IsPending,
           Mutations
  <2> QED
    BY <2>1, <2>2 DEF UsersInv
<1>4. ASSUME NEW u \in Members, Elsewhere(u) PROVE UsersInv'
  <2>1. UsersShape'
    BY <1>4 DEF Elsewhere, UsersInv, UsersShape, IsPending, AnyCall, Mutations
  <2>2. AnswersMeetTheirDialog'
    BY <1>4 DEF Elsewhere, UsersInv, UsersShape, AnswersMeetTheirDialog, IsPending, Mutations
  <2> QED
    BY <2>1, <2>2 DEF UsersInv
<1>5. ASSUME NEW text, TypeReason(text) PROVE UsersInv'
  <2>1. UsersShape'
    BY <1>5 DEF TypeReason, UsersInv, UsersShape, IsPending, AnyCall, Mutations
  <2>2. AnswersMeetTheirDialog'
    BY <1>5 DEF TypeReason, UsersInv, UsersShape, AnswersMeetTheirDialog, IsPending, Mutations
  <2> QED
    BY <2>1, <2>2 DEF UsersInv
<1>6. CASE CloseSuspend
  <2>1. UsersShape'
    BY <1>6 DEF CloseSuspend, UsersInv, UsersShape, IsPending, AnyCall, Mutations
  <2>2. AnswersMeetTheirDialog'
    BY <1>6 DEF CloseSuspend, UsersInv, UsersShape, AnswersMeetTheirDialog, IsPending, Mutations
  <2> QED
    BY <2>1, <2>2 DEF UsersInv
<1>7. CASE closeResetModal
  <2>1. UsersShape'
    BY <1>7 DEF closeResetModal, UsersInv, UsersShape, IsPending, AnyCall, Mutations
  <2>2. AnswersMeetTheirDialog'
    BY <1>7
       DEF closeResetModal, UsersInv, UsersShape, AnswersMeetTheirDialog, IsPending, Mutations
  <2> QED
    BY <2>1, <2>2 DEF UsersInv
<1>8. CASE handleSuspend
  <2>1. UsersShape'
    BY <1>8 DEF handleSuspend, Send, UsersInv, UsersShape, IsPending, AnyCall, Mutations
  <2>2. AnswersMeetTheirDialog'
    BY <1>8
       DEF handleSuspend, Send, UsersInv, UsersShape, AnswersMeetTheirDialog, IsPending,
           Mutations
  <2> QED
    BY <2>1, <2>2 DEF UsersInv
<1>9. CASE handleResetPassword
  <2>1. UsersShape'
    BY <1>9 DEF handleResetPassword, Send, UsersInv, UsersShape, IsPending, AnyCall, Mutations
  <2>2. AnswersMeetTheirDialog'
    BY <1>9 DEF handleResetPassword, Send, UsersInv, UsersShape, AnswersMeetTheirDialog,
           IsPending, Mutations
  <2> QED
    BY <2>1, <2>2 DEF UsersInv
<1>10. ASSUME NEW k \in Mutations, ServeUsers(k) PROVE UsersInv'
  <2>1. PICK r \in {"ok", "error"} : usersCall' = [usersCall EXCEPT ![k].reply = r]
    BY <1>10 DEF ServeUsers
  <2>2. /\ usersCall' \in [Mutations -> AnyCall]
        /\ \A m \in Mutations : usersCall'[m].user = usersCall[m].user
        /\ \A m \in Mutations \ {k} : usersCall'[m] = usersCall[m]
    BY <2>1 DEF UsersInv, UsersShape, AnyCall
  <2>3. IsPending(k) /\ \A m \in Mutations : IsPending(m)' => IsPending(m)
    BY <1>10, <2>2 DEF ServeUsers, IsPending
  <2>4. isActive' \in [Members -> BOOLEAN]
    BY <1>10 DEF ServeUsers, UsersInv, UsersShape
  <2>5. UsersShape'
    BY <1>10, <2>2, <2>3, <2>4 DEF ServeUsers, UsersInv, UsersShape
  <2>6. AnswersMeetTheirDialog'
    BY <1>10, <2>2, <2>3 DEF ServeUsers, UsersInv, AnswersMeetTheirDialog, Mutations
  <2> QED
    BY <2>5, <2>6 DEF UsersInv
<1>11. ASSUME NEW k \in Mutations, Settle(k) PROVE UsersInv'
  <2>1. UsersShape'
    <3>1. /\ usersCall' = [usersCall EXCEPT ![k] = Idle] /\ usersCall[k].user \in Members
          /\ Idle \in AnyCall
      BY <1>11 DEF Settle, UsersInv, UsersShape, AnyCall, Idle
    <3>2. /\ usersCall' \in [Mutations -> AnyCall]
          /\ \A m \in Mutations : IsPending(m)' => usersCall'[m].user \in Members
      BY <3>1 DEF UsersInv, UsersShape, IsPending
    <3> QED
      BY <1>11, <3>1, <3>2 DEF Settle, UsersInv, UsersShape
  <2>2. AnswersMeetTheirDialog'
    BY <1>11 DEF Settle, UsersInv, UsersShape, AnswersMeetTheirDialog, IsPending, Mutations
  <2> QED
    BY <2>1, <2>2 DEF UsersInv
<1>12. CASE RefetchRows
  <2>1. UsersShape'
    BY <1>12 DEF RefetchRows, UsersInv, UsersShape, IsPending, AnyCall, Mutations
  <2>2. AnswersMeetTheirDialog'
    BY <1>12 DEF RefetchRows, UsersInv, UsersShape, AnswersMeetTheirDialog, IsPending, Mutations
  <2> QED
    BY <2>1, <2>2 DEF UsersInv
<1>13. CASE UNCHANGED usersVars
  <2>1. UsersShape'
    BY <1>13 DEF usersVars, UsersInv, UsersShape, IsPending, AnyCall, Mutations
  <2>2. AnswersMeetTheirDialog'
    BY <1>13 DEF usersVars, UsersInv, UsersShape, AnswersMeetTheirDialog, IsPending, Mutations
  <2> QED
    BY <2>1, <2>2 DEF UsersInv
<1> QED
  BY <1>1, <1>2, <1>3, <1>4, <1>5, <1>6, <1>7, <1>8, <1>9, <1>10, <1>11, <1>12, <1>13
     DEF UsersNext

\* What the invariant says of a call and its dialog.
LEMMA UsersGives == UsersInv => UsersTypeOK /\ AnswersMeetTheirDialog
  BY DEF UsersInv, UsersShape, UsersTypeOK

\* The inductive invariant of the user list, its dialogs and its mutations.
THEOREM UsersInvariant == UsersSpec => []UsersInv
<1>1. UsersInit => UsersInv
  BY UsersInitially
<1>2. UsersInv /\ [UsersNext]_usersVars => UsersInv'
  BY UsersStep
<1> QED
  BY <1>1, <1>2, PTL DEF UsersSpec

\* As long as no dialog is closed over its call, the call under way is about the account
\* that the dialog shows, for any number of accounts.
THEOREM UsersAnswersMeetTheirDialog == UsersSpec => []AnswersMeetTheirDialog
<1>1. UsersInv => AnswersMeetTheirDialog
  BY UsersGives
<1> QED
  BY <1>1, UsersInvariant, PTL

\* A temporary password is shown in another account's dialog only after a dialog was
\* closed over its request (handleResetPassword goes on when its dialog is gone).
THEOREM UsersPasswordMissesOnlyAfterClosing ==
  UsersSpec => [](~closedEarly => PasswordIsTheTargets)
<1>1. AnswersMeetTheirDialog => (~closedEarly => PasswordIsTheTargets)
  BY DEF AnswersMeetTheirDialog, PasswordIsTheTargets
<1> QED
  BY <1>1, UsersAnswersMeetTheirDialog, PTL
-----------------------------------------------------------------------------
\* AdminListingsPage: the list, its pages and the removal dialog.

ModerationShape ==
    /\ statusOf \in [Moderated -> Statuses \union {"unlisted"}]
    /\ filter \in StatusFilters /\ page \in PageNumbers
    /\ totals \in [StatusFilters -> [PageNumbers -> NoData .. Cardinality(Moderated)]]
    /\ removeTarget \in Moderated \union {NoListing}
    /\ reasonFor \in Moderated \union {NoListing}
    /\ removal \in [listing : Moderated \union {NoListing},
                    typedFor : Moderated \union {NoListing}, reply : {"none", "ok", "error"}]
    /\ removal # NoRemoval => removal.listing \in Moderated
    /\ carried \in BOOLEAN /\ pagedEarly \in BOOLEAN

\* As long as no dialog was left with its reason or over its request, the reason in the
\* dialog and the removal under way are the open dialog's own.
ReasonInv ==
    ~carried =>
        /\ reason # "" => removeTarget # NoListing /\ reasonFor = removeTarget
        /\ removal # NoRemoval => removal.listing = removeTarget /\ removal.typedFor = removeTarget

\* The total that a filter that lost nothing has, and totals it was ever told, cover the
\* page that is shown.
PageInv ==
    ~pagedEarly =>
        /\ filter \notin shrunk /\ page > 1 => page <= Cardinality(Matching(filter))
        /\ \A f \in StatusFilters \ shrunk : \A p \in PageNumbers : totals[f][p] # NoData =>
              /\ totals[f][p] <= Cardinality(Matching(f))
              /\ p > 1 => p <= totals[f][p]

ModerationInv == ModerationShape /\ ReasonInv /\ PageInv

\* A filter matches finitely many listings.
LEMMA MatchingFinite ==
    ASSUME NEW f
    PROVE  IsFiniteSet(Matching(f)) /\ Cardinality(Matching(f)) \in 0 .. Cardinality(Moderated)
<1>1. Matching(f) \in SUBSET Moderated
  BY DEF Matching
<1> QED
  BY <1>1, ModeratedAssumption, FS_Subset, FS_CardinalityType

\* So it does after a step.
LEMMA MatchingFiniteNext ==
    ASSUME NEW f PROVE Cardinality(Matching(f)') \in 0 .. Cardinality(Moderated)
<1>1. Matching(f)' \in SUBSET Moderated
  BY DEF Matching
<1> QED
  BY <1>1, ModeratedAssumption, FS_Subset, FS_CardinalityType

\* There is a first page, and listings can be counted.
LEMMA OnePage == 1 \in PageNumbers /\ Cardinality(Moderated) \in Nat
<1>1. Cardinality(Moderated) \in Nat /\ Cardinality(Moderated) # 0
  BY ModeratedAssumption, FS_CardinalityType, FS_EmptySet
<1> HIDE DEF NoData
<1> QED
  BY <1>1 DEF PageNumbers

\* The page opens on the first page, with nothing cached and no dialog.
LEMMA ModerationInitially == ModerationInit => ModerationInv
<1> SUFFICES ASSUME ModerationInit PROVE ModerationInv
  OBVIOUS
<1>1. NoData \in NoData .. Cardinality(Moderated)
  BY OnePage DEF NoData
<1>2. totals \in [StatusFilters -> [PageNumbers -> NoData .. Cardinality(Moderated)]]
  BY <1>1, Zenon DEF ModerationInit
<1>3. \A f \in StatusFilters : \A p \in PageNumbers : totals[f][p] = NoData
  BY Zenon DEF ModerationInit
<1>4. /\ statusOf \in [Moderated -> {"available", "unlisted"}]
      /\ filter = "all" /\ page = 1
      /\ removeTarget = NoListing /\ reason = "" /\ removal = NoRemoval
      /\ reasonFor = NoListing /\ carried = FALSE /\ pagedEarly = FALSE
  BY DEF ModerationInit
<1> HIDE DEF ModerationInit
<1>5. ModerationShape
  <2>1. statusOf \in [Moderated -> Statuses \union {"unlisted"}]
    BY <1>4 DEF Statuses
  <2> QED
    BY <1>2, <1>4, <2>1, OnePage, ModeratedAssumption DEF ModerationShape, NoRemoval
<1>6. ReasonInv
  BY <1>4, Zenon DEF ReasonInv
<1>7. PageInv
  <2>1. page = 1
    BY <1>4
  <2> QED
    BY <1>3, <2>1 DEF PageInv
<1> QED
  BY <1>5, <1>6, <1>7 DEF ModerationInv

\* A filter that loses nothing selects what it selected, and perhaps more.
LEMMA MatchingGrows ==
    ASSUME ModerationShape, ModerationShape', NEW f \in StatusFilters \ shrunk', NEW l \in Moderated,
           NEW s \in Statuses, Becomes(l, s)
    PROVE  f \notin shrunk /\ Cardinality(Matching(f)) <= Cardinality(Matching(f)')
<1>1. f \notin shrunk
  BY DEF Becomes
<1>2. \A k \in Matching(f) : statusOf'[k] # "unlisted" /\ f \in {"all", statusOf'[k]}
  BY DEF Becomes, Matching, ModerationShape, Statuses
<1>3. Matching(f) \subseteq Matching(f)'
  BY <1>2 DEF Matching
<1>4. IsFiniteSet(Matching(f)')
  <2>1. Matching(f)' \in SUBSET Moderated
    BY DEF Matching
  <2> QED
    BY <2>1, ModeratedAssumption, FS_Subset
<1> QED
  BY <1>1, <1>3, <1>4, FS_Subset

\* So a listing that changes its status moves no page out of a filter that loses nothing.
LEMMA PageInvSurvives ==
    ASSUME ModerationShape, ModerationShape', PageInv, NEW l \in Moderated, NEW s \in Statuses,
           Becomes(l, s), UNCHANGED <<filter, page, totals, pagedEarly>>
    PROVE  PageInv'
<1>1. \A f \in StatusFilters \ shrunk' :
          f \notin shrunk /\ Cardinality(Matching(f)) <= Cardinality(Matching(f)')
  BY MatchingGrows
<1>2. \A f : Cardinality(Matching(f)) \in Int /\ Cardinality(Matching(f)') \in Int
  BY MatchingFinite, MatchingFiniteNext
<1>3. /\ \A f \in StatusFilters : \A p \in PageNumbers : totals[f][p] \in Int
      /\ filter \in StatusFilters /\ page \in Int /\ \A p \in PageNumbers : p \in Int
  BY OnePage DEF ModerationShape, NoData, PageNumbers
<1> HIDE DEF NoData
<1> QED
  BY <1>1, <1>2, <1>3 DEF PageInv

\* Every step of the list, the dialog and the catalogue keeps the invariant.
LEMMA ModerationStep == ModerationInv /\ [ModerationNext]_moderationVars => ModerationInv'
<1> SUFFICES ASSUME ModerationInv, [ModerationNext]_moderationVars PROVE ModerationInv'
  OBVIOUS
<1> USE ModeratedAssumption, OnePage
<1>0. ModerationShape /\ ReasonInv /\ PageInv
  BY DEF ModerationInv
\* What does not touch the catalogue or the list, or does not touch the dialog.
<1>a. ASSUME UNCHANGED <<catalogue, list>> PROVE PageInv'
  <2>1. UNCHANGED <<statusOf, filter, page, totals, pagedEarly, shrunk>>
    BY <1>a DEF catalogue, list
  <2> QED
    BY <1>0, <2>1 DEF PageInv, Matching
<1>b. ASSUME UNCHANGED dialog PROVE ReasonInv'
  <2>1. UNCHANGED <<removeTarget, reason, reasonFor, removal, carried>>
    BY <1>b DEF dialog
  <2> QED
    BY <1>0, <2>1, Zenon DEF ReasonInv
<1>1. ASSUME NEW f \in StatusFilters, ChooseFilter(f) PROVE ModerationInv'
  <2>1. ModerationShape'
    BY <1>0, <1>1 DEF ChooseFilter, catalogue, dialog, ModerationShape
  <2>2. PageInv'
    BY <1>0, <1>1 DEF ChooseFilter, catalogue, PageInv, Matching
  <2> QED
    BY <1>1, <1>b, <2>1, <2>2 DEF ChooseFilter, ModerationInv
<1>2. ASSUME NEW p \in PageNumbers, GoTo(p) PROVE ModerationInv'
  <2>1. ModerationShape'
    BY <1>0, <1>2 DEF GoTo, catalogue, dialog, ModerationShape
  <2>2. PageInv'
    <3>0. \A f : Matching(f)' = Matching(f)
      BY <1>2 DEF Matching, GoTo, catalogue
    <3>1. \A f : Matching(f)' = Matching(f) /\ Cardinality(Matching(f)) \in Nat
      BY <3>0, MatchingFinite
    <3> SUFFICES ASSUME ~pagedEarly' PROVE PageInv'
      BY DEF PageInv
    <3>2. /\ UNCHANGED <<filter, totals, shrunk>>
          /\ ~pagedEarly
          /\ Data > 1
          /\ ~IsPlaceholder
          /\ (p = page - 1 /\ page > 1) \/ (p = page + 1 /\ page < Data)
          /\ page' = p
      BY <1>2 DEF GoTo, catalogue, ModerationInv, ModerationShape
    <3>3. filter \in StatusFilters /\ page \in PageNumbers /\ page \in Int /\ p \in Int
      BY DEF ModerationInv, ModerationShape, PageNumbers
    <3>4. totals[filter][page] \in Int
      BY <3>3 DEF ModerationInv, ModerationShape, NoData
    <3>5. Data = totals[filter][page] /\ totals[filter][page] # NoData
      BY <3>2, <3>4 DEF Data, IsPlaceholder, NoData
    <3>6. filter \notin shrunk /\ page' > 1 => page' <= Cardinality(Matching(filter))
      <4>1. filter \notin shrunk => totals[filter][page] <= Cardinality(Matching(filter))
        BY <3>2, <3>3, <3>5 DEF ModerationInv, PageInv
      <4>2. filter \notin shrunk /\ page > 1 => page <= Cardinality(Matching(filter))
        BY <3>2 DEF ModerationInv, PageInv
      <4> QED
        BY <3>1, <3>2, <3>3, <3>4, <3>5, <4>1, <4>2
    <3> QED
      BY <3>1, <3>2, <3>6 DEF ModerationInv, PageInv
  <2> QED
    BY <1>2, <1>b, <2>1, <2>2 DEF GoTo, ModerationInv
<1>3. CASE FetchPage
  <2>1. ModerationShape'
    <3>1. /\ filter \in StatusFilters /\ page \in PageNumbers
          /\ totals \in [StatusFilters -> [PageNumbers -> NoData .. Cardinality(Moderated)]]
      BY DEF ModerationInv, ModerationShape
    <3>2. Cardinality(Matching(filter)) \in NoData .. Cardinality(Moderated)
      BY MatchingFinite DEF NoData
    <3>3. totals' \in [StatusFilters -> [PageNumbers -> NoData .. Cardinality(Moderated)]]
      BY <1>3, <3>1, <3>2 DEF FetchPage
    <3> QED
      BY <1>3, <3>3 DEF FetchPage, ModerationInv, catalogue, dialog, ModerationShape, NoRemoval
  <2>2. PageInv'
    <3>0. \A f : Matching(f)' = Matching(f)
      BY <1>3 DEF Matching, FetchPage, catalogue
    <3>1. \A f : Matching(f)' = Matching(f) /\ Cardinality(Matching(f)) \in Nat
      BY <3>0, MatchingFinite
    <3>2. /\ filter \in StatusFilters /\ page \in PageNumbers /\ page \in Int
          /\ totals \in [StatusFilters -> [PageNumbers -> NoData .. Cardinality(Moderated)]]
      BY DEF ModerationInv, ModerationShape, PageNumbers
    <3>3. UNCHANGED <<filter, page, pagedEarly, shrunk>>
      BY <1>3 DEF FetchPage, catalogue
    <3>4. \A f \in StatusFilters : \A p \in PageNumbers : totals'[f][p] =
              IF f = filter /\ p = page THEN Cardinality(Matching(filter)) ELSE totals[f][p]
      BY <1>3, <3>2 DEF FetchPage
    <3>5. Cardinality(Matching(filter)) # NoData
      BY <3>1 DEF NoData
    <3> SUFFICES ASSUME ~pagedEarly PROVE PageInv'
      BY <3>3 DEF PageInv
    <3>6. /\ filter \notin shrunk /\ page > 1 => page <= Cardinality(Matching(filter))
          /\ \A f \in StatusFilters \ shrunk : \A p \in PageNumbers : totals[f][p] # NoData =>
              /\ totals[f][p] <= Cardinality(Matching(f))
              /\ p > 1 => p <= totals[f][p]
      BY DEF ModerationInv, PageInv
    <3>7. ASSUME NEW f \in StatusFilters \ shrunk, NEW p \in PageNumbers, totals'[f][p] # NoData
          PROVE  totals'[f][p] <= Cardinality(Matching(f)) /\ (p > 1 => p <= totals'[f][p])
      <4>1. CASE f = filter /\ p = page
        BY <4>1, <3>1, <3>2, <3>4, <3>6
      <4>2. CASE ~(f = filter /\ p = page)
        BY <4>2, <3>4, <3>6, <3>7
      <4> QED
        BY <4>1, <4>2
    <3> HIDE DEF NoData
    <3> QED
      BY <3>1, <3>3, <3>6, <3>7 DEF PageInv
  <2> QED
    BY <1>3, <1>b, <2>1, <2>2 DEF FetchPage, ModerationInv
<1>4. ASSUME NEW l \in Moderated, OpenRemove(l) PROVE ModerationInv'
  <2>1. ModerationShape'
    BY <1>0, <1>4 DEF OpenRemove, catalogue, list, ModerationShape
  <2>2. ReasonInv'
    BY <1>0, <1>4 DEF OpenRemove, ModerationShape, ReasonInv, NoRemoval
  <2> QED
    BY <1>4, <1>a, <2>1, <2>2 DEF OpenRemove, ModerationInv
<1>5. ASSUME NEW l \in Moderated, ListingMoves(l) PROVE ModerationInv'
  <2>1. PICK s \in Statuses : Becomes(l, s)
    BY <1>5 DEF ListingMoves, Statuses
  <2>2. statusOf' \in [Moderated -> Statuses \union {"unlisted"}]
    BY <1>0, <2>1 DEF Becomes, ModerationShape
  <2>3. ModerationShape'
    BY <1>0, <1>5, <2>2 DEF ListingMoves, list, dialog, ModerationShape
  <2>4. PageInv'
    BY <1>0, <1>5, <2>1, <2>3, PageInvSurvives DEF ListingMoves, list
  <2> QED
    BY <1>5, <1>b, <2>3, <2>4 DEF ListingMoves, ModerationInv
<1>6. ASSUME NEW text, TypeRemovalReason(text) PROVE ModerationInv'
  <2>1. ModerationShape'
    BY <1>0, <1>6 DEF TypeRemovalReason, catalogue, list, ModerationShape
  <2>2. ReasonInv'
    BY <1>0, <1>6 DEF TypeRemovalReason, ModerationShape, ReasonInv, NoRemoval
  <2> QED
    BY <1>6, <1>a, <2>1, <2>2 DEF TypeRemovalReason, ModerationInv
<1>7. CASE CloseRemove
  <2>1. ModerationShape'
    BY <1>0, <1>7 DEF CloseRemove, catalogue, list, ModerationShape
  <2>2. ReasonInv'
    BY <1>0, <1>7 DEF CloseRemove, ModerationShape, ReasonInv, NoRemoval
  <2> QED
    BY <1>7, <1>a, <2>1, <2>2 DEF CloseRemove, ModerationInv
<1>8. CASE handleRemove
  <2>1. ModerationShape'
    BY <1>0, <1>8 DEF handleRemove, catalogue, list, ModerationShape
  <2>2. ReasonInv'
    BY <1>0, <1>8 DEF handleRemove, ModerationShape, ReasonInv, NoRemoval
  <2> QED
    BY <1>8, <1>a, <2>1, <2>2 DEF handleRemove, ModerationInv
<1>9. CASE ServeRemoval
  <2>1. PICK r \in {"ok", "error"} : removal' = [removal EXCEPT !.reply = r]
    BY <1>9 DEF ServeRemoval
  <2>2. /\ removal' \in [listing : Moderated \union {NoListing},
                         typedFor : Moderated \union {NoListing}, reply : {"none", "ok", "error"}]
        /\ removal'.listing = removal.listing /\ removal'.typedFor = removal.typedFor
        /\ removal.listing \in Moderated
    BY <1>0, <1>9, <2>1 DEF ServeRemoval, ModerationShape
  <2>3. /\ removal # NoRemoval
        /\ UNCHANGED <<filter, page, totals, pagedEarly, removeTarget, reason, reasonFor, carried>>
    BY <1>9 DEF ServeRemoval, list
  <2>4. ReasonInv'
    BY <1>0, <2>2, <2>3 DEF ReasonInv
  <2>5. CASE Becomes(removal.listing, "deleted")
    <3>1. statusOf' \in [Moderated -> Statuses \union {"unlisted"}]
      BY <1>0, <2>2, <2>5 DEF Becomes, ModerationShape, Statuses
    <3>2. ModerationShape'
      BY <1>0, <2>2, <2>3, <3>1 DEF ModerationShape
    <3>3. PageInv'
      BY <1>0, <2>2, <2>3, <2>5, <3>2, PageInvSurvives DEF Statuses
    <3> QED
      BY <2>4, <3>2, <3>3 DEF ModerationInv
  <2>6. CASE UNCHANGED <<statusOf, shrunk>>
    <3>1. ModerationShape'
      BY <1>0, <2>2, <2>3, <2>6 DEF ModerationShape
    <3>2. PageInv'
      BY <1>0, <2>3, <2>6 DEF PageInv, Matching
    <3> QED
      BY <2>4, <3>1, <3>2 DEF ModerationInv
  <2> QED
    BY <1>9, <2>5, <2>6 DEF ServeRemoval
<1>10. CASE SettleRemoval
  <2>1. ModerationShape'
    BY <1>0, <1>10 DEF SettleRemoval, NoRemoval, catalogue, list, ModerationShape
  <2>2. ReasonInv'
    BY <1>0, <1>10 DEF SettleRemoval, ModerationShape, ReasonInv, NoRemoval
  <2> QED
    BY <1>10, <1>a, <2>1, <2>2 DEF SettleRemoval, ModerationInv
<1>11. CASE UNCHANGED moderationVars
  <2>1. UNCHANGED <<catalogue, list, dialog>>
    BY <1>11 DEF moderationVars, catalogue, list, dialog
  <2>2. ModerationShape'
    BY <1>0, <1>11 DEF moderationVars, ModerationShape
  <2> QED
    BY <1>a, <1>b, <2>1, <2>2 DEF ModerationInv
<1> QED
  BY <1>1, <1>2, <1>3, <1>4, <1>5, <1>6, <1>7, <1>8, <1>9, <1>10, <1>11 DEF ModerationNext

\* What the invariant says of empty pages and of the reasons for removals.
LEMMA ModerationGives ==
    ModerationInv => ModerationTypeOK /\ EmptyPageOnlyAfterShrinking /\ ReasonWasTypedForIt
<1> SUFFICES ASSUME ModerationInv
             PROVE  ModerationTypeOK /\ EmptyPageOnlyAfterShrinking /\ ReasonWasTypedForIt
  OBVIOUS
<1>1. ModerationTypeOK
  BY DEF ModerationInv, ModerationShape, ModerationTypeOK
<1>2. EmptyPageOnlyAfterShrinking
  <2>1. /\ filter \in StatusFilters /\ page \in PageNumbers
        /\ totals[filter][page] \in NoData .. Cardinality(Moderated)
    BY DEF ModerationInv, ModerationShape
  <2>2. page \in Int /\ totals[filter][page] \in Int
    BY <2>1, OnePage DEF PageNumbers, NoData
  <2>3. PageInv
    BY DEF ModerationInv
  <2> QED
    BY <2>1, <2>2, <2>3 DEF PageInv, EmptyPageOnlyAfterShrinking
<1>3. ReasonWasTypedForIt
  BY DEF ModerationInv, ModerationShape, ReasonInv, ReasonWasTypedForIt
<1> QED
  BY <1>1, <1>2, <1>3

\* The inductive invariant of the moderation page over any set of listings and filters.
THEOREM ModerationInvariant == ModerationSpec => []ModerationInv
<1>1. ModerationInit => ModerationInv
  BY ModerationInitially
<1>2. ModerationInv /\ [ModerationNext]_moderationVars => ModerationInv'
  BY ModerationStep
<1> QED
  BY <1>1, <1>2, PTL DEF ModerationSpec

\* A moderator sees an empty page beyond the first only of a filter that has lost a listing,
\* or after turning the page while an old total was shown.
THEOREM ModerationEmptyPageOnlyAfterShrinking == ModerationSpec => []EmptyPageOnlyAfterShrinking
<1>1. ModerationInv => EmptyPageOnlyAfterShrinking
  BY ModerationGives
<1> QED
  BY <1>1, ModerationInvariant, PTL

\* A removal is sent with the reason that was typed for that listing, unless a dialog was
\* left with its reason or over its request.
THEOREM ModerationReasonWasTypedForIt == ModerationSpec => []ReasonWasTypedForIt
<1>1. ModerationInv => ReasonWasTypedForIt
  BY ModerationGives
<1> QED
  BY <1>1, ModerationInvariant, PTL
-----------------------------------------------------------------------------
\* The front end as a whole.

\* The ten modules' inductive invariants side by side.
FrontendInv ==
    /\ TypedInv /\ NavInv /\ CacheInv /\ BrowseInv /\ DetailInv
    /\ CreateInv /\ EditInv /\ UsersInv /\ ModerationInv /\ FocusInv

\* Each module starts in one of its own initial states.
LEMMA FrontendInitially == FrontendInit => FrontendInv
<1> SUFFICES ASSUME FrontendInit PROVE FrontendInv
  OBVIOUS
<1>1. /\ SessionInit /\ NavInit /\ CacheInit /\ BrowseInit /\ DetailInit /\ CreateInit
      /\ EditInit /\ UsersInit /\ ModerationInit /\ FocusInit
  BY DEF FrontendInit
<1> QED
  BY <1>1, TypedInitially, NavInitially, CacheInitially, BrowseInitially, DetailInitially,
     CreateInitially, EditInitially, UsersInitially, ModerationInitially, FocusInitially
  DEF FrontendInv

\* A step of the front end is a step of each module or leaves that module alone.
LEMMA FrontendStep == FrontendInv /\ [FrontendNext]_frontendVars => FrontendInv'
<1> SUFFICES ASSUME FrontendInv, [FrontendNext]_frontendVars PROVE FrontendInv'
  OBVIOUS
<1>1. /\ [SessionNext]_sessionVars /\ [NavNext]_navVars /\ [CacheNext]_cacheVars
      /\ [BrowseNext]_browseVars /\ [DetailNext]_detailVars /\ [CreateNext]_createVars
      /\ [EditNext]_editVars /\ [UsersNext]_usersVars /\ [ModerationNext]_moderationVars
      /\ [FocusNext]_focusVars
  BY DEF FrontendNext, frontendVars
<1> QED
  BY <1>1, TypedStep, NavStep, CacheStep, BrowseStep, DetailStep, CreateStep, EditStep,
     UsersStep, ModerationStep, FocusStep DEF FrontendInv

\* The front end's ten modules keep their types, whichever of them moves.
THEOREM FrontendTyped == FrontendSpec => []FrontendTypeOK
<1>1. FrontendInit => FrontendInv
  BY FrontendInitially
<1>2. FrontendInv /\ [FrontendNext]_frontendVars => FrontendInv'
  BY FrontendStep
<1>3. FrontendInv => FrontendTypeOK
  BY TypedGives, NavGives, CacheGives, BrowseGives, DetailGives, CreateGives, EditGives,
     UsersGives, ModerationGives DEF FrontendInv, FrontendTypeOK, FocusInv
<1> QED
  BY <1>1, <1>2, <1>3, PTL DEF FrontendSpec
=============================================================================
