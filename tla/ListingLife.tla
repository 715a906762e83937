---------------------------- MODULE ListingLife ----------------------------
(***************************************************************************)
(* What the life cycle of a listing promises (SRS FR-020 to FR-029, UC-2 to *)
(* UC-5, API-032), as if every request happened at one instant, with the    *)
(* database, its locks and the object store left out.  A listing is on sale *)
(* once: what is sold or deleted never comes back on sale, and its gallery  *)
(* is closed.  Images are only ever added, behind those already there.  An  *)
(* audit row is written in the step that makes its listing deleted.         *)
(*                                                                          *)
(* It allows two things that the checks of a single request would not,      *)
(* because update, mark_sold and delete act on what they read earlier: the  *)
(* text of an ended listing may still change, and a deleted one may become  *)
(* sold.  Listings.tla, the model of the services, implements this.         *)
(***************************************************************************)
EXTENDS Naturals, FiniteSets

CONSTANTS Ids, Contents, Keys, MaxImages, None

VARIABLES status,    \* listing -> "absent", "available", "sold" or "deleted"
          content,   \* listing -> its text
          images,    \* listing -> its gallery: a set of [key, position]
          removals   \* listing -> number of audit rows about it

lifeVars == <<status, content, images, removals>>

Listed == {l \in Ids : status[l] # "absent"}

LifeInit ==
    /\ status = [l \in Ids |-> "absent"]
    /\ content = [l \in Ids |-> None]
    /\ images = [l \in Ids |-> {}]
    /\ removals = [l \in Ids |-> 0]

\* Only a new listing goes on sale.
Offer(l, c) ==
    /\ l \notin Listed
    /\ status' = [status EXCEPT ![l] = "available"]
    /\ content' = [content EXCEPT ![l] = c]
    /\ UNCHANGED <<images, removals>>

Revise(l, c) ==
    /\ l \in Listed
    /\ content' = [content EXCEPT ![l] = c]
    /\ UNCHANGED <<status, images, removals>>

\* The seller sells or withdraws it.
Close(l, how) ==
    /\ l \in Listed
    /\ status' = [status EXCEPT ![l] = how]
    /\ UNCHANGED <<content, images, removals>>

\* A moderator removes it.
TakeDown(l) ==
    /\ l \in Listed
    /\ status' = [status EXCEPT ![l] = "deleted"]
    /\ removals' = [removals EXCEPT ![l] = @ + 1]
    /\ UNCHANGED <<content, images>>

\* A whole batch of new images, numbered on from the last one, or none of it.
Illustrate(l, batch) ==
    LET shown == UNION {images[m] : m \in Ids}
        n     == Cardinality(images[l])
        total == Cardinality(images[l] \union batch)
    IN  /\ status[l] = "available"
        /\ total <= MaxImages
        /\ {i.position : i \in batch} = n .. total - 1
        /\ \A i \in batch, j \in shown \union batch : i.key = j.key => i = j /\ j \notin shown
        /\ images' = [images EXCEPT ![l] = @ \union batch]
        /\ UNCHANGED <<status, content, removals>>

LifeNext ==
    \E l \in Ids :
        \/ \E c \in Contents : Offer(l, c) \/ Revise(l, c)
        \/ \E how \in {"sold", "deleted"} : Close(l, how)
        \/ TakeDown(l)
        \/ \E batch \in SUBSET [key : Keys, position : 0 .. MaxImages - 1] : Illustrate(l, batch)

LifeSpec == LifeInit /\ [][LifeNext]_lifeVars
=============================================================================
