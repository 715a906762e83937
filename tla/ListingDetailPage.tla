------------------------ MODULE ListingDetailPage ------------------------
(***************************************************************************)
(* frontend/src/pages/ListingDetailPage.tsx, as its owner uses it: the      *)
(* photos, the two confirmation dialogs and the requests behind them.       *)
(*                                                                          *)
(* The route is /listings/:id.  Going from one listing to another changes   *)
(* :id and keeps the component with its state; when the other listing is    *)
(* not cached, QueryState takes down what it shows until it is loaded.      *)
(***************************************************************************)
EXTENDS Integers, FiniteSets

CONSTANTS Shelf,        \* the seller's listings
          PhotosOf(_),  \* how many photos each has
          MaxMoves,     \* bound on navigations and on changes made elsewhere
          MaxRequests   \* bound on the requests under way

VARIABLES stored,              \* back end: listing -> status
          detail,              \* query cache: listing -> status, or NotCached
          invalid,             \* cached details that will be fetched again
          listingId,           \* the route's :id, or Away for another page
          confirming,          \* "nothing", "sold" or "delete": the open dialog
          active, lightboxIndex,
          requests,            \* mutations under way
          moves,
          \* History:
          askedFor,            \* the listing on the screen when the dialog was opened
          keptIndex            \* :id changed and Photos kept its state

detailVars == <<stored, detail, invalid, listingId, confirming, active, lightboxIndex,
                requests, moves, askedFor, keptIndex>>
photos == <<active, lightboxIndex>>
shownState == <<confirming, askedFor>>

Away == "another page"
ASSUME ShelfAssumption == Away \notin Shelf /\ \A l \in Shelf : PhotosOf(l) \in Nat

NotCached == "not cached"
NoLightbox == -1
Loaded == listingId # Away /\ detail[listingId] # NotCached
Of(r, k) == r.kind = k /\ r.here

DetailInit ==
    /\ stored = [l \in Shelf |-> "available"]
    /\ detail = [l \in Shelf |-> NotCached] /\ invalid = {}
    /\ listingId \in Shelf
    /\ confirming = "nothing" /\ askedFor = Away
    /\ active = 0 /\ lightboxIndex = NoLightbox
    /\ requests = {} /\ moves = 0
    /\ keptIndex = FALSE

-----------------------------------------------------------------------------
\* The detail query of the listing on screen: first load, invalidation, old age.
LoadDetail ==
    /\ listingId # Away
    /\ ~Loaded \/ listingId \in invalid \/ detail[listingId] # stored[listingId]
    /\ detail' = [detail EXCEPT ![listingId] = stored[listingId]]
    /\ invalid' = invalid \ {listingId}
    /\ UNCHANGED <<stored, listingId, photos, shownState, requests, moves, keptIndex>>

\* A card, or the browser's Back and Forward, which work under a dialog too.
\* TanStack gives a pending mutation the options of the latest render.
Visit(l) ==
    /\ l # listingId /\ listingId # Away
    /\ moves < MaxMoves /\ moves' = moves + 1
    /\ listingId' = l
    /\ requests' = {[r EXCEPT !.hook = IF r.here THEN l ELSE @] : r \in requests}
    /\ IF detail[l] = NotCached \/ detail[listingId] = NotCached
       THEN active' = 0 /\ lightboxIndex' = NoLightbox /\ UNCHANGED keptIndex
       ELSE keptIndex' = TRUE /\ UNCHANGED photos
    /\ UNCHANGED <<stored, detail, invalid, shownState>>

Unmount ==
    /\ listingId' = Away
    /\ confirming' = "nothing" /\ askedFor' = Away
    /\ active' = 0 /\ lightboxIndex' = NoLightbox

Leave ==
    /\ listingId # Away
    /\ Unmount
    /\ requests' = {[r EXCEPT !.here = FALSE] : r \in requests}
    /\ UNCHANGED <<stored, detail, invalid, moves, keptIndex>>

Enter(l) ==
    /\ listingId = Away
    /\ moves < MaxMoves /\ moves' = moves + 1
    /\ listingId' = l
    /\ UNCHANGED <<stored, detail, invalid, photos, shownState, requests, keptIndex>>

-----------------------------------------------------------------------------
\* Photos and Lightbox.  Nothing covers the arrow keys and buttons of a lightbox.

ChangePhotos ==
    /\ Loaded /\ confirming = "nothing"
    /\ UNCHANGED <<stored, detail, invalid, listingId, shownState, requests, moves, keptIndex>>

Select(i) ==
    /\ ChangePhotos /\ lightboxIndex = NoLightbox
    /\ PhotosOf(listingId) > 1 /\ i < PhotosOf(listingId)
    /\ active' = i /\ UNCHANGED lightboxIndex

\* Enlarge opens the selected photo; the narrow layout opens the one tapped.
OpenLightbox(i) ==
    /\ ChangePhotos /\ lightboxIndex = NoLightbox
    /\ PhotosOf(listingId) > 0 /\ (i = active \/ i < PhotosOf(listingId))
    /\ lightboxIndex' = i /\ UNCHANGED active

\* Mutant: next without the remainder.
Step_RunsOver(d) ==
    /\ ChangePhotos /\ lightboxIndex # NoLightbox /\ PhotosOf(listingId) > 1
    /\ lightboxIndex' = lightboxIndex + d /\ UNCHANGED active

\* previous, next and the arrow keys; JavaScript's % of a non-negative number.
Step(d) ==
    /\ ChangePhotos /\ lightboxIndex # NoLightbox /\ PhotosOf(listingId) > 1
    /\ lightboxIndex' = (lightboxIndex + d + PhotosOf(listingId)) % PhotosOf(listingId)
    /\ UNCHANGED active

CloseLightbox ==
    /\ ChangePhotos /\ lightboxIndex # NoLightbox
    /\ lightboxIndex' = NoLightbox /\ UNCHANGED active

-----------------------------------------------------------------------------
\* Mark as sold is offered for an available listing; Delete always.
Ask(k) ==
    /\ Loaded /\ confirming = "nothing" /\ lightboxIndex = NoLightbox
    /\ k = "sold" => detail[listingId] = "available"
    /\ confirming' = k /\ askedFor' = listingId
    /\ UNCHANGED <<stored, detail, invalid, listingId, photos, requests, moves, keptIndex>>

Dismiss ==
    /\ confirming # "nothing"
    /\ confirming' = "nothing" /\ askedFor' = Away
    /\ UNCHANGED <<stored, detail, invalid, listingId, photos, requests, moves, keptIndex>>

\* handleMarkSold and handleDelete: the dialog is inside QueryState, so it is on
\* screen only with a loaded listing, and acts on the one in the route.
Confirm ==
    /\ Loaded /\ confirming # "nothing"
    /\ \A r \in requests : ~Of(r, confirming)
    /\ Cardinality(requests) < MaxRequests
    /\ requests' = requests \union
          {[kind |-> confirming, listing |-> listingId, asked |-> askedFor,
            hook |-> listingId, here |-> TRUE, reply |-> "none"]}
    /\ UNCHANGED <<stored, detail, invalid, listingId, photos, shownState, moves, keptIndex>>

Serve(r) ==
    /\ r.reply = "none"
    /\ \/ /\ stored[r.listing] = "available" \/ r.kind = "delete"
          /\ stored' = [stored EXCEPT ![r.listing] = IF r.kind = "sold" THEN "sold" ELSE "deleted"]
          /\ requests' = (requests \ {r}) \union {[r EXCEPT !.reply = "ok"]}
       \/ /\ requests' = (requests \ {r}) \union {[r EXCEPT !.reply = "error"]}
          /\ UNCHANGED stored
    /\ UNCHANGED <<detail, invalid, listingId, photos, shownState, moves, keptIndex>>

\* useMarkListingSold, useDeleteListing: invalidate the detail the hook was last
\* rendered for.
onSuccess(r) == invalid' = invalid \union {r.hook}

\* The rest of the handler.  A deletion goes to /my-listings from wherever the
\* user has gone in the meantime.
Settled(r) ==
    /\ r.reply # "none"
    /\ IF r.reply = "error"
       THEN /\ requests' = requests \ {r}
            /\ UNCHANGED <<invalid, listingId, shownState, photos>>
       ELSE /\ onSuccess(r)
            /\ IF r.kind = "delete"
               THEN /\ requests' = {[q EXCEPT !.here = FALSE] : q \in requests \ {r}}
                    /\ Unmount
               ELSE /\ requests' = requests \ {r}
                    /\ IF r.here /\ confirming = "sold"
                       THEN confirming' = "nothing" /\ askedFor' = Away
                       ELSE UNCHANGED shownState
                    /\ UNCHANGED <<listingId, photos>>
    /\ UNCHANGED <<stored, detail, moves, keptIndex>>

\* An administrator, or the seller in another window.
ChangedElsewhere(l) ==
    /\ moves < MaxMoves /\ moves' = moves + 1
    /\ stored[l] # "deleted"
    /\ stored' = [stored EXCEPT ![l] = "deleted"]
    /\ UNCHANGED <<detail, invalid, listingId, photos, shownState, requests, keptIndex>>

Indices == UNION {0..(PhotosOf(l) - 1) : l \in Shelf}

DetailNext ==
    \/ LoadDetail \/ Leave \/ CloseLightbox \/ Dismiss \/ Confirm
    \/ \E l \in Shelf : Visit(l) \/ Enter(l) \/ ChangedElsewhere(l)
    \/ \E i \in Indices : Select(i) \/ OpenLightbox(i)
    \/ \E d \in {-1, 1} : Step(d)
    \/ \E k \in {"sold", "delete"} : Ask(k)
    \/ \E r \in requests : Serve(r) \/ Settled(r)

DetailSpec == DetailInit /\ [][DetailNext]_detailVars

-----------------------------------------------------------------------------
DetailTypeOK ==
    /\ stored \in [Shelf -> {"available", "sold", "deleted"}]
    /\ detail \in [Shelf -> {"available", "sold", "deleted", NotCached}]
    /\ listingId \in Shelf \union {Away} /\ invalid \subseteq Shelf
    /\ active \in Indices \union {0} /\ lightboxIndex \in Indices \union {NoLightbox}

(* FE-040 asks for an explicit confirmation of a deletion or a sale: what is    *)
(* sent is about the listing for which the dialog was opened.                  *)
ActsOnTheListingAskedAbout ==
    \A r \in requests : r.listing = r.asked

(* The lightbox shows a photo that exists: past the end `image' is undefined    *)
(* and rendering throws (line 466).  The only way there is another listing      *)
(* with fewer photos under the same component.                                 *)
PhotoInRange ==
    Loaded /\ lightboxIndex # NoLightbox => lightboxIndex < PhotosOf(listingId) \/ keptIndex
=============================================================================
