------------------------------ MODULE Listings ------------------------------
(***************************************************************************)
(* The life of a listing: ListingService's create, update, mark_sold,       *)
(* delete and upload_images and AdminService.remove_listing, as concurrent  *)
(* requests over one PostgreSQL database and one object store.              *)
(*                                                                          *)
(* As in Sessions, a request is one READ COMMITTED transaction.  All its    *)
(* operations but upload_images read the listing without a lock, decide,    *)
(* and later send an UPDATE by primary key that waits for the row and then  *)
(* applies to its newest version, whatever that has become.  SQLAlchemy     *)
(* writes only the columns whose value differs from the one it loaded.      *)
(* Object storage takes part in no transaction.                             *)
(***************************************************************************)
EXTENDS Naturals, FiniteSets

CONSTANTS
    Requests,   \* requests in flight at a time
    Ids,        \* the listings that can be created: bounds the model
    Contents,   \* what a listing's editable columns can hold
    Keys,       \* the object keys that can be generated: bounds the model
    MaxImages,  \* MAX_IMAGES_PER_LISTING
    None        \* no listing, no content, no lock holder

ASSUME NoneAssumption == None \notin Requests \union Ids \union Contents
ASSUME MaxImagesAssumption == MaxImages \in Nat \ {0}
ASSUME KeysAssumption == IsFiniteSet(Keys)

VARIABLES
    (* Committed database state. *)
    status,     \* listings.status; "absent" before the row is inserted
    content,    \* title, author, description, category, condition, price
    images,     \* listing_images of each listing
    removals,   \* number of remove_listing rows in admin_actions
    (* Lock manager and object store. *)
    rowLock,    \* holder of each listings row lock
    stored,     \* keys of the objects in the bucket
    (* Requests. *)
    pc, id, text,   \* step, listing, content being written
    base,       \* number of images the listing had when it was locked
    todo,       \* keys of the files that still have to be stored
    placed      \* keys stored by this request, with their positions

database == <<status, content, images, removals>>
control  == <<pc, id, text, base, todo, placed>>
vars     == <<database, rowLock, stored, control>>

Statuses == {"absent", "available", "sold", "deleted"}

Image == [key : Keys, position : Nat]

PCs == {"idle", "editing", "selling", "deleting", "removing", "uploading", "cleaning"}

TypeOK ==
    /\ status \in [Ids -> Statuses]
    /\ content \in [Ids -> Contents \union {None}]
    /\ images \in [Ids -> SUBSET Image]
    /\ removals \in [Ids -> Nat]
    /\ rowLock \in [Ids -> Requests \union {None}]
    /\ stored \subseteq Keys
    /\ pc \in [Requests -> PCs]
    /\ id \in [Requests -> Ids \union {None}]
    /\ text \in [Requests -> Contents \union {None}]
    /\ base \in [Requests -> Nat]
    /\ todo \in [Requests -> SUBSET Keys]
    /\ placed \in [Requests -> SUBSET Image]

Init ==
    /\ status = [l \in Ids |-> "absent"]
    /\ content = [l \in Ids |-> None]
    /\ images = [l \in Ids |-> {}]
    /\ removals = [l \in Ids |-> 0]
    /\ rowLock = [l \in Ids |-> None]
    /\ stored = {}
    /\ pc = [r \in Requests |-> "idle"]
    /\ id = [r \in Requests |-> None]
    /\ text = [r \in Requests |-> None]
    /\ base = [r \in Requests |-> 0]
    /\ todo = [r \in Requests |-> {}]
    /\ placed = [r \in Requests |-> {}]

-----------------------------------------------------------------------------
KeysOf(S) == {i.key : i \in S}

Positions(S) == {i.position : i \in S}

Referenced == UNION {KeysOf(images[l]) : l \in Ids}

\* uuid4 keys: none is stored, and no request in flight has drawn it.
FreshKeys == Keys \ (stored \union UNION {todo[r] : r \in Requests})

\* Rows are returned unlocked: the decision may be stale when it is acted on.
Decide(r, l, step) ==
    /\ pc[r] = "idle"
    /\ pc' = [pc EXCEPT ![r] = step]
    /\ id' = [id EXCEPT ![r] = l]
    /\ UNCHANGED <<database, rowLock, stored, base, todo, placed>>

\* Mutant: the session is closed without ending its transaction.
End_KeepsLock(r) ==
    /\ pc' = [pc EXCEPT ![r] = "idle"]
    /\ id' = [id EXCEPT ![r] = None]
    /\ text' = [text EXCEPT ![r] = None]
    /\ base' = [base EXCEPT ![r] = 0]
    /\ todo' = [todo EXCEPT ![r] = {}]
    /\ placed' = [placed EXCEPT ![r] = {}]
    /\ UNCHANGED rowLock

\* The transaction ends; its row lock, if it has one, is released.
End(r) ==
    /\ pc' = [pc EXCEPT ![r] = "idle"]
    /\ id' = [id EXCEPT ![r] = None]
    /\ text' = [text EXCEPT ![r] = None]
    /\ base' = [base EXCEPT ![r] = 0]
    /\ todo' = [todo EXCEPT ![r] = {}]
    /\ placed' = [placed EXCEPT ![r] = {}]
    /\ rowLock' = [l \in Ids |-> IF rowLock[l] = r THEN None ELSE rowLock[l]]

\* The request's UPDATE gets the row; the commit follows at once.
WriteRow(r, step) ==
    /\ pc[r] = step
    /\ rowLock[id[r]] = None
    /\ End(r)
    /\ UNCHANGED <<images, stored>>

-----------------------------------------------------------------------------
Create(r, l) ==
    /\ pc[r] = "idle"
    /\ status[l] = "absent"
    /\ status' = [status EXCEPT ![l] = "available"]
    /\ \E c \in Contents : content' = [content EXCEPT ![l] = c]
    /\ UNCHANGED <<images, removals, rowLock, stored, control>>

(* update: existence, owner, available, then update_fields.  A PATCH that    *)
(* repeats the loaded values sends no UPDATE at all.                         *)
EditRead(r, l) ==
    /\ status[l] = "available"
    /\ Decide(r, l, "editing")
    /\ \E c \in Contents \ {content[l]} : text' = [text EXCEPT ![r] = c]

\* Mutant: the flush writes every column the request has loaded, the status too.
EditWrite_WholeRow(r) ==
    /\ WriteRow(r, "editing")
    /\ content' = [content EXCEPT ![id[r]] = text[r]]
    /\ status' = [status EXCEPT ![id[r]] = "available"]
    /\ UNCHANGED removals

EditWrite(r) ==
    /\ WriteRow(r, "editing")
    /\ content' = [content EXCEPT ![id[r]] = text[r]]
    /\ UNCHANGED <<status, removals>>

MarkSoldRead(r, l) ==
    /\ status[l] = "available"
    /\ Decide(r, l, "selling")
    /\ UNCHANGED text

\* Mutant: the enum member's name is stored instead of its value.
MarkSoldWrite_ByName(r) ==
    /\ WriteRow(r, "selling")
    /\ status' = [status EXCEPT ![id[r]] = "SOLD"]
    /\ UNCHANGED <<content, removals>>

MarkSoldWrite(r) ==
    /\ WriteRow(r, "selling")
    /\ status' = [status EXCEPT ![id[r]] = "sold"]
    /\ UNCHANGED <<content, removals>>

\* delete: from any status; a listing already deleted is left alone.
DeleteRead(r, l) ==
    /\ status[l] \in {"available", "sold"}
    /\ Decide(r, l, "deleting")
    /\ UNCHANGED text

DeleteWrite(r) ==
    /\ WriteRow(r, "deleting")
    /\ status' = [status EXCEPT ![id[r]] = "deleted"]
    /\ UNCHANGED <<content, removals>>

\* remove_listing: admin_remove, and an audit row if it found work to do.
RemoveRead(r, l) ==
    /\ status[l] \in {"available", "sold"}
    /\ Decide(r, l, "removing")
    /\ UNCHANGED text

RemoveWrite(r) ==
    /\ WriteRow(r, "removing")
    /\ status' = [status EXCEPT ![id[r]] = "deleted"]
    /\ removals' = [removals EXCEPT ![id[r]] = @ + 1]
    /\ UNCHANGED content

-----------------------------------------------------------------------------
(* upload_images: the row is locked first and stays locked, the checks read  *)
(* its newest version, then the files are stored one by one.                 *)

\* Mutant: get_by_id instead of get_for_update.
UploadLock_Unlocked(r, l) ==
    /\ pc[r] = "idle"
    /\ status[l] = "available"
    /\ \E batch \in SUBSET FreshKeys \ {{}} :
          /\ Cardinality(images[l]) + Cardinality(batch) <= MaxImages
          /\ todo' = [todo EXCEPT ![r] = batch]
    /\ base' = [base EXCEPT ![r] = Cardinality(images[l])]
    /\ pc' = [pc EXCEPT ![r] = "uploading"]
    /\ id' = [id EXCEPT ![r] = l]
    /\ UNCHANGED <<database, rowLock, stored, text, placed>>

\* Mutant: upload_images without _require_available.
UploadLock_AnyStatus(r, l) ==
    /\ pc[r] = "idle"
    /\ rowLock[l] = None
    /\ status[l] # "absent"
    /\ \E batch \in SUBSET FreshKeys \ {{}} :
          /\ Cardinality(images[l]) + Cardinality(batch) <= MaxImages
          /\ todo' = [todo EXCEPT ![r] = batch]
    /\ rowLock' = [rowLock EXCEPT ![l] = r]
    /\ base' = [base EXCEPT ![r] = Cardinality(images[l])]
    /\ pc' = [pc EXCEPT ![r] = "uploading"]
    /\ id' = [id EXCEPT ![r] = l]
    /\ UNCHANGED <<database, stored, text, placed>>

UploadLock(r, l) ==
    /\ pc[r] = "idle"
    /\ rowLock[l] = None
    /\ status[l] = "available"
    /\ \E batch \in SUBSET FreshKeys \ {{}} :
          /\ Cardinality(images[l]) + Cardinality(batch) <= MaxImages
          /\ todo' = [todo EXCEPT ![r] = batch]
    /\ rowLock' = [rowLock EXCEPT ![l] = r]
    /\ base' = [base EXCEPT ![r] = Cardinality(images[l])]
    /\ pc' = [pc EXCEPT ![r] = "uploading"]
    /\ id' = [id EXCEPT ![r] = l]
    /\ UNCHANGED <<database, stored, text, placed>>

NextPosition(r) == base[r] + Cardinality(placed[r])

Put(r, k) ==
    /\ pc[r] = "uploading"
    /\ k \in todo[r]
    /\ stored' = stored \union {k}
    /\ placed' = [placed EXCEPT ![r] = @ \union {[key |-> k, position |-> NextPosition(r)]}]
    /\ todo' = [todo EXCEPT ![r] = @ \ {k}]
    /\ UNCHANGED <<database, rowLock, pc, id, text, base>>

\* Mutant: the exception of a put is swallowed, its row is still added.
PutFails_Swallowed(r, k) ==
    /\ pc[r] = "uploading"
    /\ k \in todo[r]
    /\ placed' = [placed EXCEPT ![r] = @ \union {[key |-> k, position |-> NextPosition(r)]}]
    /\ todo' = [todo EXCEPT ![r] = @ \ {k}]
    /\ UNCHANGED <<database, rowLock, stored, pc, id, text, base>>

\* put raises: the object was not written, or only its answer was lost.
PutFails(r, k) ==
    /\ pc[r] = "uploading"
    /\ k \in todo[r]
    /\ stored' \in {stored, stored \union {k}}
    /\ todo' = [todo EXCEPT ![r] = {}]
    /\ pc' = [pc EXCEPT ![r] = "cleaning"]
    /\ UNCHANGED <<database, rowLock, id, text, base, placed>>

\* Best effort: a delete that raises is suppressed and not tried again.
CleanUp(r, i) ==
    /\ pc[r] = "cleaning"
    /\ i \in placed[r]
    /\ stored' \in {stored, stored \ {i.key}}
    /\ placed' = [placed EXCEPT ![r] = @ \ {i}]
    /\ UNCHANGED <<database, rowLock, pc, id, text, base, todo>>

\* StorageUnavailableError: the transaction commits, having written nothing.
UploadUnavailable(r) ==
    /\ pc[r] = "cleaning"
    /\ placed[r] = {}
    /\ End(r)
    /\ UNCHANGED <<database, stored>>

AddImages(r) ==
    /\ pc[r] = "uploading"
    /\ todo[r] = {}
    /\ images' = [images EXCEPT ![id[r]] = @ \union placed[r]]
    /\ End(r)
    /\ UNCHANGED <<status, content, removals, stored>>

-----------------------------------------------------------------------------
\* An unexpected exception, a lost connection or a crash: rollback.
Abort(r) ==
    /\ pc[r] # "idle"
    /\ End(r)
    /\ UNCHANGED <<database, stored>>

\* 404, 403, 409, 422, and the deletion of what is deleted already.
Refused(r) == pc[r] = "idle" /\ UNCHANGED vars

Step(r) ==
    \/ EditWrite(r)
    \/ MarkSoldWrite(r)
    \/ DeleteWrite(r)
    \/ RemoveWrite(r)
    \/ \E k \in Keys : Put(r, k) \/ PutFails(r, k)
    \/ \E i \in placed[r] : CleanUp(r, i)
    \/ UploadUnavailable(r)
    \/ AddImages(r)

Arrival(r) ==
    \/ Refused(r)
    \/ \E l \in Ids :
          \/ Create(r, l)
          \/ EditRead(r, l)
          \/ MarkSoldRead(r, l)
          \/ DeleteRead(r, l)
          \/ RemoveRead(r, l)
          \/ UploadLock(r, l)

Next == \E r \in Requests : Arrival(r) \/ Step(r) \/ Abort(r)

Spec == Init /\ [][Next]_vars

(***************************************************************************)
(* A worker keeps running its request, and row locks are granted in the     *)
(* order they are asked for.  Nothing has to arrive or to fail.             *)
(***************************************************************************)
FairSpec == Spec /\ \A r \in Requests : SF_vars(Step(r))

-----------------------------------------------------------------------------
(* Correctness. *)

(* API-032: however uploads overlap, a listing has at most MaxImages images, *)
(* at the positions 0, 1, 2, ... with neither a gap nor a repetition.        *)
ImagesInOrder ==
    \A l \in Ids :
        /\ Cardinality(images[l]) <= MaxImages
        /\ Positions(images[l]) = 0 .. Cardinality(images[l]) - 1

(* upload_images: "a storage failure can never leave a DB row pointing at an *)
(* object that was never actually written", nor does one upload's clean-up   *)
(* delete another's object.                                                  *)
NoDanglingImage == Referenced \subseteq stored

(* The row lock makes the availability check of an upload still true when    *)
(* its rows are inserted: only an available listing gains images.            *)
ImagesOnlyWhileAvailable ==
    [][\A l \in Ids : images[l] # images'[l] => status[l] = "available"]_vars

(* Every request, whatever it overlaps, acts as one atomic operation of the  *)
(* life cycle or not at all: nothing puts a listing that has ended back on   *)
(* sale or adds to its gallery, no edit touches a status, no upload shows    *)
(* part of a batch, and what a moderator removes is audited in that step.    *)
Life == INSTANCE ListingLife

ImplementsListingLife == Life!LifeSpec

(* A lock is always given back and no two requests wait for each other:      *)
(* every request that was let in is answered.                                *)
RequestsFinish == \A r \in Requests : pc[r] # "idle" ~> pc[r] = "idle"

(* A moderator's removal lasts: the listing never comes back on sale or as   *)
(* sold while the audit trail says that it was removed (FR-042, UC-5).       *)
RemovalLasts == \A l \in Ids : removals[l] > 0 => status[l] = "deleted"
=============================================================================
