-------------------------- MODULE EditListingPage --------------------------
(***************************************************************************)
(* frontend/src/pages/EditListingPage.tsx with ListingForm, useListing,     *)
(* useUpdateListing and useUploadListingImages: a form seeded once from the *)
(* cached listing, whose submission writes every field and then uploads the *)
(* chosen photos.                                                           *)
(*                                                                          *)
(* A field's value is the number of the edit that wrote it.  Of the photos  *)
(* it matters whether any were chosen when the form was sent, which is not  *)
(* asked before the first answer; CreateListingPage and Listings follow the *)
(* photos themselves.                                                       *)
(***************************************************************************)
EXTENDS Naturals

CONSTANTS Fields, MaxVersions   \* MaxVersions bounds the edits

ASSUME VersionsAssumption == MaxVersions \in Nat \ {0}

VARIABLES row, version,    \* back end: the listing; the last edit's number
          cachedRow,       \* the detail query's data, or NoRow
          isInvalidated,
          fetchFailed,     \* the query's last fetch failed
          inFlight,        \* an answer under way: the row as read, or NoRow
          values, edited,  \* the form, or NoRow; the fields the user has changed
          saving,          \* handleSubmit: its request, with what it closed over
          \* History:
          undone,          \* fields that a submission changed and its user had not
          hurried,         \* the form was left while it was being saved, or opened then
                           \* or on data that were being fetched again
          elsewhere,       \* fields that the seller edited in another window
          patchLost        \* the answer to an update that took effect was lost

editVars == <<row, version, cachedRow, isInvalidated, fetchFailed, inFlight, values, edited,
              saving, undone, hurried, elsewhere, patchLost>>
query == <<cachedRow, isInvalidated, fetchFailed, inFlight>>
form == <<values, edited>>
editHistory == <<undone, hurried, elsewhere, patchLost>>

NoRow == [f \in Fields |-> 0]     \* edits are numbered from 1
NotSaving == [step |-> "none", body |-> NoRow, touched |-> {}, left |-> FALSE, reply |-> "none"]
Saving == saving # NotSaving

EditInit ==
    /\ row = [f \in Fields |-> 1] /\ version = 1
    /\ cachedRow = NoRow /\ isInvalidated = FALSE /\ fetchFailed = FALSE /\ inFlight = NoRow
    /\ values = NoRow /\ edited = {}
    /\ saving = NotSaving
    /\ undone = {} /\ hurried = FALSE /\ elsewhere = {} /\ patchLost = FALSE

-----------------------------------------------------------------------------
\* The listing is fetched for its page or this one: first, when invalidated, when old.
ReadRow ==
    /\ inFlight = NoRow
    /\ inFlight' = row
    /\ UNCHANGED <<row, version, cachedRow, isInvalidated, fetchFailed, form, saving, editHistory>>

ReceiveRow ==
    /\ inFlight # NoRow
    /\ cachedRow' = inFlight /\ inFlight' = NoRow
    /\ isInvalidated' = FALSE /\ fetchFailed' = FALSE
    /\ UNCHANGED <<row, version, form, saving, editHistory>>

CloseForm == values' = NoRow /\ edited' = {}

\* QueryState shows the error in place of the form, which is unmounted.
FetchFails ==
    /\ inFlight # NoRow
    /\ inFlight' = NoRow /\ fetchFailed' = TRUE
    /\ CloseForm
    /\ UNCHANGED <<row, version, cachedRow, isInvalidated, saving, editHistory>>

\* ListingForm: useState(initialValues).
MountForm ==
    /\ values = NoRow /\ cachedRow # NoRow /\ ~fetchFailed
    /\ values' = cachedRow /\ edited' = {}
    /\ hurried' = (hurried \/ isInvalidated \/ inFlight # NoRow \/ Saving)
    /\ UNCHANGED <<row, version, query, saving, undone, elsewhere, patchLost>>

\* handleSubmit goes on without its page.
LeavePage ==
    /\ values # NoRow \/ Saving
    /\ CloseForm
    /\ saving' = IF Saving THEN [saving EXCEPT !.left = TRUE] ELSE saving
    /\ hurried' = (hurried \/ Saving)
    /\ UNCHANGED <<row, version, query, undone, elsewhere, patchLost>>

\* The fields stay open while they are being saved.
SetField(f) ==
    /\ values # NoRow /\ version < MaxVersions
    /\ version' = version + 1
    /\ values' = [values EXCEPT ![f] = version + 1]
    /\ edited' = edited \union {f}
    /\ UNCHANGED <<row, query, saving, editHistory>>

-----------------------------------------------------------------------------
\* All the fields are sent, the untouched ones too.  One submission runs at a time: of
\* another page's form, which would not wait for this one's, `hurried' takes account.
SubmitEdit ==
    /\ values # NoRow /\ ~Saving
    /\ saving' = [step |-> "patch", body |-> values, touched |-> edited, left |-> FALSE,
                  reply |-> "none"]
    /\ UNCHANGED <<row, version, query, form, editHistory>>

Answered(r) == [saving EXCEPT !.body = NoRow, !.touched = {}, !.reply = r]

ServePatch ==
    /\ saving.step = "patch" /\ saving.reply = "none"
    /\ \/ /\ saving' = Answered("ok")
          /\ row' = saving.body
          /\ undone' = undone \union {f \in Fields \ saving.touched : row[f] # saving.body[f]}
       \/ saving' = Answered("error") /\ UNCHANGED <<row, undone>>
    /\ UNCHANGED <<version, query, form, hurried, elsewhere, patchLost>>

LosePatchAnswer ==
    /\ saving.step = "patch" /\ saving.reply = "ok"
    /\ saving' = Answered("error") /\ patchLost' = TRUE
    /\ UNCHANGED <<row, version, query, form, undone, hurried, elsewhere>>

\* To the form a lost answer is a refusal: oversized, of a wrong type, too many.
ServeUpload ==
    /\ saving.step = "upload" /\ saving.reply = "none"
    /\ \E r \in {"ok", "error"} : saving' = Answered(r)
    /\ UNCHANGED <<row, version, query, form, editHistory>>

-----------------------------------------------------------------------------
\* onSuccess of both mutations invalidates the detail, which drops a fetch under way
\* while a page shows the listing.
InvalidateDetail ==
    /\ isInvalidated' = TRUE
    /\ inFlight' = NoRow \/ (saving.left /\ UNCHANGED inFlight)
    /\ UNCHANGED <<cachedRow, fetchFailed>>

UploadPhotos == saving' = [saving EXCEPT !.step = "upload", !.reply = "none"] /\ UNCHANGED form
Navigate == CloseForm /\ saving' = NotSaving
StayWithError == saving' = NotSaving /\ UNCHANGED form

\* Mutant: useUpdateListing invalidates the lists only.
PatchSettles_KeepsDetail ==
    /\ saving.step = "patch" /\ saving.reply # "none"
    /\ IF saving.reply = "ok" THEN UploadPhotos \/ Navigate ELSE StayWithError
    /\ UNCHANGED <<row, version, query, editHistory>>

\* After the first await: if photos were chosen, on to the second, the form still there.
PatchSettles ==
    /\ saving.step = "patch" /\ saving.reply # "none"
    /\ IF saving.reply = "ok" THEN InvalidateDetail /\ (UploadPhotos \/ Navigate)
       ELSE StayWithError /\ UNCHANGED query
    /\ UNCHANGED <<row, version, editHistory>>

\* A failed upload leaves the user on the form, whose fields are saved already.
UploadSettles ==
    /\ saving.step = "upload" /\ saving.reply # "none"
    /\ IF saving.reply = "ok" THEN Navigate /\ InvalidateDetail
       ELSE StayWithError /\ UNCHANGED query
    /\ UNCHANGED <<row, version, editHistory>>

EditElsewhere(f) ==
    /\ version < MaxVersions
    /\ version' = version + 1
    /\ row' = [row EXCEPT ![f] = version + 1]
    /\ elsewhere' = elsewhere \union {f}
    /\ UNCHANGED <<query, form, saving, undone, hurried, patchLost>>

EditNext ==
    \/ ReadRow \/ ReceiveRow \/ FetchFails \/ MountForm \/ LeavePage \/ SubmitEdit
    \/ ServePatch \/ LosePatchAnswer \/ ServeUpload \/ PatchSettles \/ UploadSettles
    \/ \E f \in Fields : SetField(f) \/ EditElsewhere(f)

EditSpec == EditInit /\ [][EditNext]_editVars

-----------------------------------------------------------------------------
EditTypeOK ==
    /\ version \in 1..MaxVersions
    /\ row \in [Fields -> 1..MaxVersions]
    /\ \A r \in {cachedRow, inFlight, values, saving.body} : r \in [Fields -> 0..MaxVersions]
    /\ edited \subseteq Fields /\ saving.touched \subseteq Fields

(* Although every field is sent, a submission puts an old value back only into  *)
(* fields that were edited in another window, unless the form was opened before *)
(* the refetch after an earlier edit had come back, or left or opened while it  *)
(* was being saved, or that edit's answer was lost: what the form shows is      *)
(* otherwise never older than this window's own edits, retries after a failed   *)
(* upload or a failed refetch included (EditListingPage.tsx:41-60).             *)
EditsSurvive == hurried \/ patchLost \/ undone \subseteq elsewhere

(* Saving changes the fields that the user has changed and no others: SRS 8.3   *)
(* (line 174) has the form submit a diff, UC-3 (line 212) the changed fields.   *)
SubmitsDiff == undone = {}
=============================================================================
