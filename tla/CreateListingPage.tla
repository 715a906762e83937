------------------------ MODULE CreateListingPage ------------------------
(***************************************************************************)
(* frontend/src/pages/CreateListingPage.tsx with ListingForm and            *)
(* ImageUploadField: one form that needs two requests, a listing and then   *)
(* its photos, either of which may fail and be tried again.                 *)
(*                                                                          *)
(* A draft is the state of the fields, numbered by the edits made; 0 is the *)
(* empty form, which validation refuses.                                    *)
(***************************************************************************)
EXTENDS Naturals, FiniteSets

CONSTANTS Files, MaxImages,         \* MAX_IMAGES_PER_LISTING
          MaxDrafts, MaxListings    \* bounds on the edits and the listings made

ASSUME CreateAssumption ==
    IsFiniteSet(Files) /\ MaxImages \in Nat /\ MaxDrafts \in Nat /\ MaxListings \in Nat

VARIABLES draft, files,
          createdListingId,   \* is it set
          submission,         \* the request of handleSubmit, with what it closed over
          navigated,          \* the page has gone to the listing
          listingsMade, savedDraft, copiesOf,   \* back end: of this form
          \* History:
          answerLost,         \* of a request that took effect
          lateEdit, latePick  \* fields or photos changed after they were sent

createVars == <<draft, files, createdListingId, submission, navigated,
                listingsMade, savedDraft, copiesOf, answerLost, lateEdit, latePick>>
server == <<listingsMade, savedDraft, copiesOf>>

NoSubmission == [step |-> "none", values |-> 0, images |-> {}, reply |-> "none"]
isSubmitting == submission # NoSubmission
Request(step, values, images) ==
    [step |-> step, values |-> values, images |-> images, reply |-> "none"]

CreateInit ==
    /\ draft = 0 /\ files = {} /\ createdListingId = FALSE
    /\ submission = NoSubmission /\ navigated = FALSE
    /\ listingsMade = 0 /\ savedDraft = 0 /\ copiesOf = [f \in Files |-> 0]
    /\ answerLost = FALSE /\ lateEdit = FALSE /\ latePick = FALSE

-----------------------------------------------------------------------------
\* The fields stay open while a submission runs, and after the listing exists.
EditDraft ==
    /\ ~navigated /\ draft < MaxDrafts
    /\ draft' = draft + 1
    /\ lateEdit' = (lateEdit \/ createdListingId \/ isSubmitting)
    /\ UNCHANGED <<files, createdListingId, submission, navigated, server, answerLost, latePick>>

\* addFiles, removeFile.
ChangeFiles(f) ==
    /\ ~navigated
    /\ files' = IF f \in files THEN files \ {f} ELSE files \union {f}
    /\ latePick' = (latePick \/ isSubmitting \/ copiesOf[f] > 0)
    /\ UNCHANGED <<draft, createdListingId, submission, navigated, server, answerLost, lateEdit>>

\* Mutant: a form that has made its listing is finished.
handleSubmit_SkipsPhotos ==
    /\ ~navigated /\ ~isSubmitting /\ draft > 0
    /\ IF ~createdListingId
       THEN listingsMade < MaxListings /\ submission' = Request("create", draft, files)
            /\ UNCHANGED navigated
       ELSE navigated' = TRUE /\ UNCHANGED submission
    /\ UNCHANGED <<draft, files, createdListingId, server, answerLost, lateEdit, latePick>>

\* ListingForm validates; handleSubmit goes on where the last attempt stopped.
handleSubmit ==
    /\ ~navigated /\ ~isSubmitting /\ draft > 0
    /\ IF ~createdListingId
       THEN listingsMade < MaxListings /\ submission' = Request("create", draft, files)
            /\ UNCHANGED navigated
       ELSE IF files # {} THEN submission' = Request("upload", draft, files) /\ UNCHANGED navigated
       ELSE navigated' = TRUE /\ UNCHANGED submission
    /\ UNCHANGED <<draft, files, createdListingId, server, answerLost, lateEdit, latePick>>

-----------------------------------------------------------------------------
Stored == Cardinality({c \in Files \X (1..MaxImages) : c[2] <= copiesOf[c[1]]})

\* The back end accepts a request or refuses it whole.
ServeSubmission ==
    /\ isSubmitting /\ submission.reply = "none"
    /\ \/ /\ submission' = [submission EXCEPT !.reply = "ok"]
          /\ IF submission.step = "create"
             THEN /\ listingsMade' = listingsMade + 1 /\ savedDraft' = submission.values
                  /\ UNCHANGED copiesOf
             ELSE /\ Stored + Cardinality(submission.images) <= MaxImages
                  /\ copiesOf' = [f \in Files |-> copiesOf[f] +
                                     IF f \in submission.images THEN 1 ELSE 0]
                  /\ UNCHANGED <<listingsMade, savedDraft>>
       \/ submission' = [submission EXCEPT !.reply = "error"] /\ UNCHANGED server
    /\ UNCHANGED <<draft, files, createdListingId, navigated, answerLost, lateEdit, latePick>>

LoseAnswer ==
    /\ submission.reply = "ok"
    /\ submission' = [submission EXCEPT !.reply = "error"]
    /\ answerLost' = TRUE
    /\ UNCHANGED <<draft, files, createdListingId, navigated, server, lateEdit, latePick>>

\* Mutant: setCreatedListingId is left out.
Continue_ForgetsId ==
    /\ submission.reply # "none"
    /\ IF submission.reply = "ok" /\ submission.step = "create" /\ submission.images # {}
       THEN submission' = Request("upload", submission.values, submission.images)
            /\ UNCHANGED navigated
       ELSE submission' = NoSubmission /\ navigated' = (submission.reply = "ok")
    /\ UNCHANGED <<draft, files, createdListingId, server, answerLost, lateEdit, latePick>>

\* handleSubmit after an await: `images' is what it was when the form was submitted.
Continue ==
    /\ submission.reply # "none"
    /\ createdListingId' = (createdListingId \/ submission.reply = "ok")
    /\ IF submission.reply = "ok" /\ submission.step = "create" /\ submission.images # {}
       THEN submission' = Request("upload", submission.values, submission.images)
            /\ UNCHANGED navigated
       ELSE submission' = NoSubmission /\ navigated' = (submission.reply = "ok")
    /\ UNCHANGED <<draft, files, server, answerLost, lateEdit, latePick>>

CreateNext ==
    \/ EditDraft \/ handleSubmit \/ ServeSubmission \/ LoseAnswer \/ Continue
    \/ \E f \in Files : ChangeFiles(f)

CreateSpec == CreateInit /\ [][CreateNext]_createVars

-----------------------------------------------------------------------------
CreateTypeOK ==
    /\ draft \in 0..MaxDrafts /\ files \subseteq Files
    /\ listingsMade \in 0..MaxListings /\ savedDraft \in 0..MaxDrafts
    /\ copiesOf \in [Files -> 0..MaxImages]
    /\ submission.images \subseteq Files

(* CreateListingPage.tsx:22-27: submitting again after a failed photo upload    *)
(* does not create a second listing.  Only a lost answer does.                 *)
OneListingPerForm == listingsMade > 1 => answerLost

(* When the form hands over to the listing's page, what the seller typed is     *)
(* what was saved and every photo chosen is stored, once.  What is changed      *)
(* while the request runs, or typed when only the photos are left to retry, is  *)
(* dropped without a word (lines 41-49), and a lost answer stores photos twice. *)
SavedAsTyped ==
    navigated =>
        /\ savedDraft = draft \/ lateEdit
        /\ (\A f \in Files : copiesOf[f] = IF f \in files THEN 1 ELSE 0) \/ latePick \/ answerLost
=============================================================================
