------------------------- MODULE AdminListingsPage -------------------------
(***************************************************************************)
(* frontend/src/pages/admin/AdminListingsPage.tsx with its hooks: a paged   *)
(* list of all listings under a status filter, and the removal dialog.      *)
(*                                                                          *)
(* A page's answer is its total; PAGE_SIZE is 1, so page p has rows when    *)
(* p <= total.  useAdminListings keeps the previous answer on screen (as a  *)
(* placeholder) until the one for the new filter and page has arrived.      *)
(***************************************************************************)
EXTENDS Integers, FiniteSets

CONSTANTS Moderated,       \* listings
          StatusFilters,   \* the filter's options that are exercised, with "all"
          MaxChanges       \* bound on what happens elsewhere

VARIABLES statusOf,             \* back end: listing -> status, or "unlisted"
          filter, page,         \* the page's status and page
          totals,               \* query cache: filter -> page -> total, or NoData
          previousTotal,        \* the placeholder
          removeTarget, reason,
          removal,              \* removeMutation's request, or NoRemoval
          changes,
          \* History:
          reasonFor,            \* the listing in the dialog when the reason was typed
          carried,              \* a dialog was left with a reason in it, or closed over its request
          shrunk,               \* filters that have lost a listing
          pagedEarly            \* the user went to a page of a placeholder

moderationVars == <<statusOf, filter, page, totals, previousTotal, removeTarget, reason,
                    removal, changes, reasonFor, carried, shrunk, pagedEarly>>
catalogue == <<statusOf, changes, shrunk>>
list == <<filter, page, totals, previousTotal, pagedEarly>>
dialog == <<removeTarget, reason, removal, reasonFor, carried>>

NoData == -1
NoListing == "no listing"
ASSUME ModeratedAssumption ==
    /\ IsFiniteSet(Moderated) /\ Moderated # {} /\ NoListing \notin Moderated
    /\ "all" \in StatusFilters

NoRemoval == [listing |-> NoListing, typedFor |-> NoListing, reply |-> "none"]
PageNumbers == 1..Cardinality(Moderated)
Statuses == {"available", "sold", "deleted"}

Matching(f) == {l \in Moderated : statusOf[l] # "unlisted" /\ f \in {"all", statusOf[l]}}
\* query.data: the answer for this filter and page, or the placeholder.
Data == IF totals[filter][page] # NoData THEN totals[filter][page] ELSE previousTotal
IsPlaceholder == totals[filter][page] = NoData /\ previousTotal # NoData

\* Sold and deleted listings come about by what happens elsewhere.
ModerationInit ==
    /\ statusOf \in [Moderated -> {"available", "unlisted"}]
    /\ filter = "all" /\ page = 1
    /\ totals = [f \in StatusFilters |-> [p \in PageNumbers |-> NoData]]
    /\ previousTotal = NoData
    /\ removeTarget = NoListing /\ reason = "" /\ removal = NoRemoval
    /\ changes = 0 /\ reasonFor = NoListing
    /\ carried = FALSE /\ shrunk = {} /\ pagedEarly = FALSE

-----------------------------------------------------------------------------
\* Mutant: the page number survives a change of the filter.
ChooseFilter_KeepsPage(f) ==
    /\ removeTarget = NoListing /\ f # filter
    /\ filter' = f
    /\ previousTotal' = Data
    /\ UNCHANGED <<page, totals, pagedEarly, catalogue, dialog>>

ChooseFilter(f) ==
    /\ removeTarget = NoListing /\ f # filter
    /\ filter' = f /\ page' = 1
    /\ previousTotal' = Data
    /\ UNCHANGED <<totals, pagedEarly, catalogue, dialog>>

\* Pagination: nothing at all for a single page; one button is disabled at each end.
GoTo(p) ==
    /\ removeTarget = NoListing
    /\ Data > 1
    /\ (p = page - 1 /\ page > 1) \/ (p = page + 1 /\ page < Data)
    /\ page' = p
    /\ previousTotal' = Data
    /\ pagedEarly' = (pagedEarly \/ IsPlaceholder)
    /\ UNCHANGED <<filter, totals, catalogue, dialog>>

\* A first visit, an invalidation or a focused window: the answer arrives.
FetchPage ==
    LET total == Cardinality(Matching(filter)) IN
    /\ totals[filter][page] # total
    /\ totals' = [totals EXCEPT ![filter][page] = total]
    /\ UNCHANGED <<filter, page, previousTotal, pagedEarly, catalogue, dialog>>

-----------------------------------------------------------------------------
\* The row offers it unless it says `deleted'; it may be older than the status.
OpenRemove(l) ==
    /\ removeTarget = NoListing /\ statusOf[l] # "unlisted"
    /\ removeTarget' = l
    /\ UNCHANGED <<reason, removal, reasonFor, carried, catalogue, list>>

TypeRemovalReason(text) ==
    /\ removeTarget # NoListing /\ text # reason
    /\ reason' = text
    /\ reasonFor' = IF text = "" THEN NoListing ELSE removeTarget
    /\ UNCHANGED <<removeTarget, removal, carried, catalogue, list>>

\* Cancel, Escape or the backdrop: the reason stays behind.
CloseRemove ==
    /\ removeTarget # NoListing
    /\ removeTarget' = NoListing
    /\ carried' = (carried \/ reason # "" \/ removal # NoRemoval)
    /\ UNCHANGED <<reason, removal, reasonFor, catalogue, list>>

handleRemove ==
    /\ removeTarget # NoListing /\ reason # "" /\ removal = NoRemoval
    /\ removal' = [listing |-> removeTarget, typedFor |-> reasonFor, reply |-> "none"]
    /\ UNCHANGED <<removeTarget, reason, reasonFor, carried, catalogue, list>>

Becomes(l, s) ==
    /\ statusOf' = [statusOf EXCEPT ![l] = s]
    /\ shrunk' = shrunk \union ({statusOf[l]} \ {s})

\* admin_remove: removing a removed listing changes nothing and succeeds.
ServeRemoval ==
    /\ removal # NoRemoval /\ removal.reply = "none"
    /\ \/ Becomes(removal.listing, "deleted") /\ removal' = [removal EXCEPT !.reply = "ok"]
       \/ removal' = [removal EXCEPT !.reply = "error"] /\ UNCHANGED <<statusOf, shrunk>>
    /\ UNCHANGED <<changes, removeTarget, reason, reasonFor, carried, list>>

\* Mutant: the handler forgets setReasonCode("").
SettleRemoval_KeepsReason ==
    /\ removal.reply # "none"
    /\ removal' = NoRemoval
    /\ removeTarget' = IF removal.reply = "ok" THEN NoListing ELSE removeTarget
    /\ UNCHANGED <<reason, reasonFor, carried, catalogue, list>>

\* The rest of handleRemove: an error stays in the dialog for another try.
SettleRemoval ==
    /\ removal.reply # "none"
    /\ removal' = NoRemoval
    /\ IF removal.reply = "ok"
       THEN removeTarget' = NoListing /\ reason' = "" /\ reasonFor' = NoListing
       ELSE UNCHANGED <<removeTarget, reason, reasonFor>>
    /\ UNCHANGED <<carried, catalogue, list>>

\* Sellers list and sell; sellers and other administrators delete.
ListingMoves(l) ==
    /\ changes < MaxChanges /\ changes' = changes + 1
    /\ \E s \in {"available", "sold", "deleted"} :
          /\ <<statusOf[l], s>> \in {<<"unlisted", "available">>, <<"available", "sold">>,
                                     <<"available", "deleted">>, <<"sold", "deleted">>}
          /\ Becomes(l, s)
    /\ UNCHANGED <<list, dialog>>

ModerationNext ==
    \/ \E f \in StatusFilters : ChooseFilter(f)
    \/ \E p \in PageNumbers : GoTo(p)
    \/ FetchPage
    \/ \E l \in Moderated : OpenRemove(l) \/ ListingMoves(l)
    \/ \E text \in {"", "a reason"} : TypeRemovalReason(text)
    \/ CloseRemove \/ handleRemove \/ ServeRemoval \/ SettleRemoval

ModerationSpec == ModerationInit /\ [][ModerationNext]_moderationVars

-----------------------------------------------------------------------------
ModerationTypeOK ==
    /\ statusOf \in [Moderated -> Statuses \union {"unlisted"}]
    /\ filter \in StatusFilters /\ page \in PageNumbers
    /\ totals \in [StatusFilters -> [PageNumbers -> NoData..Cardinality(Moderated)]]
    /\ removeTarget \in Moderated \union {NoListing}

(* A page past the end of the list is blank and, with at most one page of      *)
(* listings left, has no Previous button either (Pagination.tsx:15).  A change *)
(* of the filter does not lead there: only a list that shrank, or a Next       *)
(* pressed on the placeholder of another filter.                               *)
EmptyPageOnlyAfterShrinking ==
    page > 1 /\ totals[filter][page] # NoData /\ page > totals[filter][page]
        => filter \in shrunk \/ pagedEarly

(* The reason code that goes into the audit log with a removal was typed for    *)
(* the listing that is removed -- unless an earlier dialog was left with its    *)
(* reason in it, which the next dialog shows again.                             *)
ReasonWasTypedForIt ==
    removal # NoRemoval => removal.typedFor = removal.listing \/ carried
=============================================================================
