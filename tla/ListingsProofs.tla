--------------------------- MODULE ListingsProofs ---------------------------
(***************************************************************************)
(* Theorems about Listings, for every number of requests, listings and      *)
(* images.                                                                  *)
(*                                                                          *)
(* ImagesInOrder is not inductive: what AddImages inserts was computed from *)
(* what UploadLock read, several steps and object-store calls earlier.      *)
(* LockInv and BatchInv say that the row lock keeps it true, and KeysInv    *)
(* that no two uploads have a key in common, so that the clean-up of one    *)
(* cannot delete an object of another.                                      *)
(***************************************************************************)
EXTENDS Listings, FiniteSetTheorems, TLAPS

\* A request has its listing, and an upload has the row's lock.
LockInv ==
    \A r \in Requests :
        /\ pc[r] # "idle" => id[r] \in Ids
        /\ pc[r] \in {"uploading", "cleaning"} => rowLock[id[r]] = r

\* What an upload has read is still so, and its files fit in behind the listing's.
UploadFits(r) ==
    /\ status[id[r]] = "available"
    /\ base[r] = Cardinality(images[id[r]])
    /\ base[r] + Cardinality(placed[r]) + Cardinality(todo[r]) <= MaxImages
    /\ Positions(placed[r]) = base[r] .. base[r] + Cardinality(placed[r]) - 1

BatchInv ==
    \A r \in Requests :
        /\ pc[r] \notin {"uploading", "cleaning"} => placed[r] = {} /\ todo[r] = {}
        /\ IsFiniteSet(placed[r])
        /\ pc[r] = "uploading" => UploadFits(r)

\* Every key belongs to one file of one upload.
KeysInv ==
    /\ \A r \in Requests : \A i \in placed[r] : i.key \in stored \ Referenced
    /\ \A r, s \in Requests : \A i \in placed[r], j \in placed[s] :
          i.key = j.key => r = s /\ i = j
    /\ \A r \in Requests : todo[r] \intersect stored = {}
    /\ \A r, s \in Requests : r # s => todo[r] \intersect todo[s] = {}

ImagesFinite == \A l \in Ids : IsFiniteSet(images[l])

ListingsInv ==
    TypeOK /\ LockInv /\ BatchInv /\ KeysInv /\ ImagesFinite /\ ImagesInOrder /\ NoDanglingImage

-----------------------------------------------------------------------------
\* Before the first listing nothing is stored and nothing locked.
LEMMA ListingsInitially == Init => ListingsInv
<1> SUFFICES ASSUME Init PROVE ListingsInv
  OBVIOUS
<1>1. TypeOK
  BY DEF Init, TypeOK, Statuses, PCs
<1>2. Referenced = {}
  BY DEF Init, Referenced, KeysOf
<1>3. LockInv /\ KeysInv /\ NoDanglingImage
  BY <1>2 DEF Init, LockInv, KeysInv, NoDanglingImage
<1>4. BatchInv /\ ImagesFinite
  BY FS_EmptySet DEF Init, BatchInv, ImagesFinite
<1>5. ImagesInOrder
  <2>1. \A l \in Ids : images[l] = {}
    BY DEF Init
  <2>2. Cardinality({}) <= MaxImages /\ Positions({}) = 0 .. Cardinality({}) - 1
    <3>1. Cardinality({}) = 0 /\ Positions({}) = {}
      BY FS_EmptySet DEF Positions
    <3>2. 0 .. 0 - 1 = {}
      OBVIOUS
    <3>3. 0 <= MaxImages
      BY MaxImagesAssumption
    <3> QED
      BY <3>1, <3>2, <3>3
  <2> QED
    BY <2>1, <2>2 DEF ImagesInOrder
<1> QED
  BY <1>1, <1>3, <1>4, <1>5 DEF ListingsInv

\* A transaction ends that has touched neither an image nor an object, nor a row that
\* somebody else has locked.
LEMMA Ended ==
  ASSUME ListingsInv, NEW r \in Requests, End(r), UNCHANGED <<images, stored>>,
         status' \in [Ids -> Statuses], content' \in [Ids -> Contents \union {None}],
         removals' \in [Ids -> Nat],
         \A l \in Ids : rowLock[l] \notin {None, r} => status'[l] = status[l]
  PROVE  ListingsInv'
<1>1. /\ pc'[r] = "idle" /\ todo'[r] = {} /\ placed'[r] = {}
      /\ \A s \in Requests \ {r} : /\ pc'[s] = pc[s] /\ id'[s] = id[s] /\ base'[s] = base[s]
                                   /\ todo'[s] = todo[s] /\ placed'[s] = placed[s]
      /\ \A l \in Ids : rowLock'[l] = IF rowLock[l] = r THEN None ELSE rowLock[l]
  BY DEF End, ListingsInv, TypeOK
<1>2. TypeOK'
  BY DEF End, ListingsInv, TypeOK, PCs
<1>3. LockInv'
  BY <1>1 DEF ListingsInv, LockInv
<1>4. Referenced' = Referenced
  BY DEF Referenced
<1>5. BatchInv'
  <2>1. ASSUME NEW s \in Requests \ {r}, pc[s] = "uploading"
        PROVE  status'[id[s]] = status[id[s]]
    BY <2>1, NoneAssumption DEF ListingsInv, LockInv
  <2>2. IsFiniteSet(placed'[r])
    BY <1>1, FS_EmptySet
  <2>3. \A s \in Requests : s = r \/ s \in Requests \ {r}
    OBVIOUS
  <2>4. \A s \in Requests \ {r} : /\ pc[s] \notin {"uploading", "cleaning"} => placed[s] = {} /\ todo[s] = {}
                                  /\ IsFiniteSet(placed[s])
    BY DEF ListingsInv, BatchInv
  <2>5. ASSUME NEW s \in Requests \ {r}, pc[s] = "uploading"
        PROVE  UploadFits(s)'
    BY <1>1, <2>1, <2>5 DEF ListingsInv, BatchInv, UploadFits
  <2> QED
    BY <1>1, <2>2, <2>3, <2>4, <2>5 DEF BatchInv
<1>6. KeysInv'
  BY <1>1, <1>4 DEF ListingsInv, KeysInv
<1>7. ImagesFinite' /\ ImagesInOrder' /\ NoDanglingImage'
  BY <1>4 DEF ListingsInv, ImagesFinite, ImagesInOrder, NoDanglingImage
<1> QED
  BY <1>2, <1>3, <1>5, <1>6, <1>7 DEF ListingsInv

\* The UPDATEs of the unlocked operations wait for the row, and so never touch one that
\* an upload has locked.
LEMMA RowWritten ==
  ASSUME ListingsInv, NEW r \in Requests,
         EditWrite(r) \/ MarkSoldWrite(r) \/ DeleteWrite(r) \/ RemoveWrite(r)
  PROVE  ListingsInv'
<1>1. /\ End(r) /\ UNCHANGED <<images, stored>> /\ rowLock[id[r]] = None /\ id[r] \in Ids
  BY DEF EditWrite, MarkSoldWrite, DeleteWrite, RemoveWrite, WriteRow, ListingsInv, LockInv
<1>2. /\ status' \in [Ids -> Statuses]
      /\ \A l \in Ids : rowLock[l] \notin {None, r} => status'[l] = status[l]
  BY <1>1 DEF EditWrite, MarkSoldWrite, DeleteWrite, RemoveWrite, ListingsInv, TypeOK, Statuses
<1>3. removals' \in [Ids -> Nat] /\ content' \in [Ids -> Contents \union {None}]
  BY <1>1 DEF EditWrite, MarkSoldWrite, DeleteWrite, RemoveWrite, ListingsInv, TypeOK
<1> QED
  BY <1>1, <1>2, <1>3, Ended

\* The ends of a request that write nothing.
LEMMA NothingWritten ==
  ASSUME ListingsInv, NEW r \in Requests, UploadUnavailable(r) \/ Abort(r)
  PROVE  ListingsInv'
  BY Ended DEF UploadUnavailable, Abort, database, ListingsInv, TypeOK

\* An unlocked read leaves everything to the write.
LEMMA Decided ==
  ASSUME ListingsInv, NEW r \in Requests, NEW l \in Ids,
         EditRead(r, l) \/ MarkSoldRead(r, l) \/ DeleteRead(r, l) \/ RemoveRead(r, l)
  PROVE  ListingsInv'
<1>1. PICK step \in {"editing", "selling", "deleting", "removing"} : Decide(r, l, step)
  BY DEF EditRead, MarkSoldRead, DeleteRead, RemoveRead
<1>2. text' \in [Requests -> Contents \union {None}]
  BY DEF EditRead, MarkSoldRead, DeleteRead, RemoveRead, ListingsInv, TypeOK
<1>3. /\ pc[r] = "idle" /\ pc'[r] = step /\ id'[r] = l
      /\ \A s \in Requests \ {r} : pc'[s] = pc[s] /\ id'[s] = id[s]
      /\ UNCHANGED <<status, content, images, removals, rowLock, stored, base, todo, placed>>
  BY <1>1 DEF Decide, ListingsInv, TypeOK, database
<1>4. TypeOK'
  BY <1>1, <1>2, <1>3 DEF Decide, ListingsInv, TypeOK, PCs
<1>5. LockInv' /\ BatchInv'
  BY <1>3 DEF ListingsInv, LockInv, BatchInv, UploadFits
<1>6. KeysInv' /\ ImagesFinite' /\ ImagesInOrder' /\ NoDanglingImage'
  BY <1>3 DEF ListingsInv, KeysInv, ImagesFinite, ImagesInOrder, NoDanglingImage, Referenced
<1> QED
  BY <1>4, <1>5, <1>6 DEF ListingsInv

\* A new row is nobody's yet.
LEMMA Created ==
  ASSUME ListingsInv, NEW r \in Requests, NEW l \in Ids, Create(r, l)
  PROVE  ListingsInv'
<1>1. /\ status[l] = "absent" /\ status' = [status EXCEPT ![l] = "available"]
      /\ UNCHANGED <<images, removals, rowLock, stored, pc, id, text, base, todo, placed>>
  BY DEF Create, control
<1>2. TypeOK'
  BY <1>1 DEF Create, ListingsInv, TypeOK, Statuses
<1>3. LockInv' /\ KeysInv' /\ ImagesFinite' /\ ImagesInOrder' /\ NoDanglingImage'
  BY <1>1 DEF ListingsInv, LockInv, KeysInv, ImagesFinite, ImagesInOrder, NoDanglingImage, Referenced
<1>4. BatchInv'
  BY <1>1 DEF ListingsInv, TypeOK, BatchInv, UploadFits, LockInv
<1> QED
  BY <1>2, <1>3, <1>4 DEF ListingsInv

-----------------------------------------------------------------------------
\* The upload.

\* The lock, the checks and the new keys.
LEMMA Locked ==
  ASSUME ListingsInv, NEW r \in Requests, NEW l \in Ids, UploadLock(r, l)
  PROVE  ListingsInv'
<1>1. PICK batch \in SUBSET FreshKeys :
        /\ Cardinality(images[l]) + Cardinality(batch) <= MaxImages
        /\ todo' = [todo EXCEPT ![r] = batch]
  BY DEF UploadLock
<1>2. /\ pc[r] = "idle" /\ rowLock[l] = None /\ status[l] = "available"
      /\ rowLock' = [rowLock EXCEPT ![l] = r]
      /\ base' = [base EXCEPT ![r] = Cardinality(images[l])]
      /\ pc' = [pc EXCEPT ![r] = "uploading"] /\ id' = [id EXCEPT ![r] = l]
      /\ UNCHANGED <<status, content, images, removals, stored, text, placed>>
  BY DEF UploadLock, database
<1>3. /\ pc'[r] = "uploading" /\ id'[r] = l /\ base'[r] = Cardinality(images[l])
      /\ todo'[r] = batch /\ placed[r] = {}
      /\ \A s \in Requests \ {r} : /\ pc'[s] = pc[s] /\ id'[s] = id[s] /\ base'[s] = base[s]
                                   /\ todo'[s] = todo[s]
  BY <1>1, <1>2 DEF ListingsInv, TypeOK, BatchInv
<1>4. Cardinality(images[l]) \in Nat
  BY FS_CardinalityType DEF ListingsInv, ImagesFinite
<1>5. TypeOK'
  BY <1>1, <1>2, <1>4 DEF ListingsInv, TypeOK, PCs, FreshKeys
<1>6. LockInv'
  BY <1>2, <1>3, NoneAssumption DEF ListingsInv, TypeOK, LockInv
<1>7. BatchInv'
  <2>1. Positions({}) = {} /\ Cardinality({}) = 0
    BY FS_EmptySet DEF Positions
  <2>2. base'[r] .. base'[r] + 0 - 1 = {}
    BY <1>3, <1>4
  <2>3. IsFiniteSet(batch) /\ Cardinality(batch) \in Nat
    BY <1>1, KeysAssumption, FS_Subset, FS_CardinalityType DEF FreshKeys
  <2>4. base'[r] + Cardinality(placed[r]) + Cardinality(todo'[r]) <= MaxImages
    BY <1>1, <1>3, <1>4, <2>1, <2>3
  <2>5. Positions(placed[r]) = base'[r] .. base'[r] + Cardinality(placed[r]) - 1
    BY <1>3, <2>1, <2>2
  <2>6. UploadFits(r)'
    BY <1>2, <1>3, <2>4, <2>5 DEF UploadFits
  <2>7. ASSUME NEW s \in Requests \ {r}, pc[s] = "uploading" PROVE UploadFits(s)'
    BY <1>2, <1>3, <2>7 DEF ListingsInv, BatchInv, UploadFits
  <2>8. \A s \in Requests \ {r} : pc[s] \notin {"uploading", "cleaning"} => placed[s] = {} /\ todo[s] = {}
    BY DEF ListingsInv, BatchInv
  <2>9. \A s \in Requests : placed'[s] = placed[s] /\ IsFiniteSet(placed[s])
    BY <1>2 DEF ListingsInv, BatchInv
  <2> QED
    BY <1>3, <2>6, <2>7, <2>8, <2>9 DEF BatchInv
<1>8. KeysInv'
  <2>1. batch \intersect stored = {} /\ \A s \in Requests : batch \intersect todo[s] = {}
    BY <1>1 DEF FreshKeys
  <2> QED
    BY <1>2, <1>3, <2>1 DEF ListingsInv, KeysInv, Referenced
<1>9. ImagesFinite' /\ ImagesInOrder' /\ NoDanglingImage'
  BY <1>2 DEF ListingsInv, ImagesFinite, ImagesInOrder, NoDanglingImage, Referenced
<1> QED
  BY <1>5, <1>6, <1>7, <1>8, <1>9 DEF ListingsInv

\* A file is stored: its image takes the next position.
LEMMA Stored ==
  ASSUME ListingsInv, NEW r \in Requests, NEW k \in Keys, Put(r, k)
  PROVE  ListingsInv'
<1> DEFINE n == Cardinality(placed[r])
           i == [key |-> k, position |-> base[r] + n]
<1>1. /\ pc[r] = "uploading" /\ k \in todo[r] /\ stored' = stored \union {k}
      /\ placed' = [placed EXCEPT ![r] = @ \union {i}]
      /\ todo' = [todo EXCEPT ![r] = @ \ {k}]
      /\ UNCHANGED <<status, content, images, removals, rowLock, pc, id, text, base>>
  BY DEF Put, NextPosition, database
<1>2. /\ placed'[r] = placed[r] \union {i} /\ todo'[r] = todo[r] \ {k}
      /\ \A s \in Requests \ {r} : placed'[s] = placed[s] /\ todo'[s] = todo[s]
  BY <1>1 DEF ListingsInv, TypeOK
<1>3. n \in Nat /\ base[r] \in Nat /\ i \in Image /\ i.key = k /\ i.position = base[r] + n
  BY FS_CardinalityType DEF ListingsInv, TypeOK, BatchInv, Image
<1>4. k \notin stored /\ k \notin Referenced /\ i \notin placed[r]
  BY <1>1, <1>3 DEF ListingsInv, KeysInv, NoDanglingImage
<1> HIDE DEF i
<1>5. TypeOK'
  BY <1>1, <1>3 DEF ListingsInv, TypeOK
<1>6. LockInv'
  BY <1>1 DEF ListingsInv, LockInv
<1>7. BatchInv'
  <2>1. IsFiniteSet(placed'[r]) /\ Cardinality(placed'[r]) = n + 1
    <3>1. IsFiniteSet(placed[r])
      BY DEF ListingsInv, BatchInv
    <3>2. /\ IsFiniteSet(placed[r] \union {i})
          /\ Cardinality(placed[r] \union {i}) =
                IF i \in placed[r] THEN Cardinality(placed[r]) ELSE Cardinality(placed[r]) + 1
      BY <3>1, FS_AddElement, Zenon
    <3> QED
      BY <1>2, <1>4, <3>2
  <2>2. IsFiniteSet(todo[r])
    <3>1. todo[r] \in SUBSET Keys
      BY DEF ListingsInv, TypeOK
    <3> QED
      BY <3>1, KeysAssumption, FS_Subset
  <2>3. Cardinality(todo'[r]) = Cardinality(todo[r]) - 1 /\ Cardinality(todo[r]) \in Nat
    BY <1>1, <1>2, <2>2, FS_RemoveElement, FS_CardinalityType
  <2>4. base[r] + Cardinality(placed'[r]) + Cardinality(todo'[r]) <= MaxImages
    <3>1. base[r] + n + Cardinality(todo[r]) <= MaxImages
      BY <1>1 DEF ListingsInv, BatchInv, UploadFits
    <3> HIDE DEF n
    <3> QED
      BY <1>3, <2>1, <2>3, <3>1
  <2>5. Positions(placed'[r]) = base[r] .. base[r] + (n + 1) - 1
    <3>1. Positions(placed'[r]) = Positions(placed[r]) \union {base[r] + n}
      BY <1>2, <1>3 DEF Positions
    <3>2. Positions(placed[r]) = base[r] .. base[r] + n - 1
      BY <1>1 DEF ListingsInv, BatchInv, UploadFits
    <3>3. \A b, m \in Nat : (b .. b + m - 1) \union {b + m} = b .. b + (m + 1) - 1
      OBVIOUS
    <3> HIDE DEF n
    <3> QED
      BY <1>3, <3>1, <3>2, <3>3
  <2> QED
    BY <1>1, <1>2, <2>1, <2>4, <2>5 DEF ListingsInv, BatchInv, UploadFits
<1>8. KeysInv'
  <2>1. Referenced' = Referenced
    BY <1>1 DEF Referenced
  <2>2. \A s \in Requests : \A j \in placed[s] : j.key # k
    BY <1>4 DEF ListingsInv, KeysInv
  <2>3. \A s \in Requests \ {r} : k \notin todo[s]
    BY <1>1 DEF ListingsInv, KeysInv
  <2>4. \A s \in Requests : \A j \in placed'[s] : j \in placed[s] \/ (s = r /\ j = i)
    BY <1>2
  <2>5. \A s, u \in Requests : \A j \in placed'[s], m \in placed'[u] :
           j.key = m.key => s = u /\ j = m
    BY <1>3, <2>2, <2>4 DEF ListingsInv, KeysInv
  <2>6. \A s \in Requests : \A j \in placed'[s] : j.key \in stored' \ Referenced'
    BY <1>1, <1>3, <1>4, <2>1, <2>4 DEF ListingsInv, KeysInv
  <2>7. /\ \A s \in Requests : todo'[s] \intersect stored' = {}
        /\ \A s, u \in Requests : s # u => todo'[s] \intersect todo'[u] = {}
    BY <1>1, <1>2, <2>3 DEF ListingsInv, KeysInv
  <2> QED
    BY <2>5, <2>6, <2>7 DEF KeysInv
<1>9. ImagesFinite' /\ ImagesInOrder' /\ NoDanglingImage'
  BY <1>1 DEF ListingsInv, ImagesFinite, ImagesInOrder, NoDanglingImage, Referenced
<1> QED
  BY <1>5, <1>6, <1>7, <1>8, <1>9 DEF ListingsInv

\* The put failed: nobody refers to what it may have stored.
LEMMA PutFailed ==
  ASSUME ListingsInv, NEW r \in Requests, NEW k \in Keys, PutFails(r, k)
  PROVE  ListingsInv'
<1>1. /\ pc[r] = "uploading" /\ k \in todo[r] /\ stored' \in {stored, stored \union {k}}
      /\ todo' = [todo EXCEPT ![r] = {}] /\ pc' = [pc EXCEPT ![r] = "cleaning"]
      /\ UNCHANGED <<status, content, images, removals, rowLock, id, text, base, placed>>
  BY DEF PutFails, database
<1>2. /\ pc'[r] = "cleaning" /\ todo'[r] = {}
      /\ \A s \in Requests \ {r} : pc'[s] = pc[s] /\ todo'[s] = todo[s]
  BY <1>1 DEF ListingsInv, TypeOK
<1>3. TypeOK'
  BY <1>1 DEF ListingsInv, TypeOK, PCs
<1>4. LockInv' /\ BatchInv'
  BY <1>1, <1>2 DEF ListingsInv, LockInv, BatchInv, UploadFits
<1>5. KeysInv'
  <2>1. \A s \in Requests \ {r} : k \notin todo[s]
    BY <1>1 DEF ListingsInv, KeysInv
  <2> QED
    BY <1>1, <1>2, <2>1 DEF ListingsInv, KeysInv, Referenced
<1>6. ImagesFinite' /\ ImagesInOrder' /\ NoDanglingImage'
  BY <1>1 DEF ListingsInv, ImagesFinite, ImagesInOrder, NoDanglingImage, Referenced
<1> QED
  BY <1>3, <1>4, <1>5, <1>6 DEF ListingsInv

\* The clean-up deletes objects that only this upload knows.
LEMMA CleanedUp ==
  ASSUME ListingsInv, NEW r \in Requests, NEW i \in placed[r], CleanUp(r, i)
  PROVE  ListingsInv'
<1>1. /\ pc[r] = "cleaning" /\ stored' \in {stored, stored \ {i.key}}
      /\ placed' = [placed EXCEPT ![r] = @ \ {i}]
      /\ UNCHANGED <<status, content, images, removals, rowLock, pc, id, text, base, todo>>
  BY DEF CleanUp, database
<1>2. /\ placed'[r] = placed[r] \ {i}
      /\ \A s \in Requests \ {r} : placed'[s] = placed[s]
  BY <1>1 DEF ListingsInv, TypeOK
<1>3. i.key \notin Referenced
  BY DEF ListingsInv, KeysInv
<1>4. TypeOK'
  BY <1>1 DEF ListingsInv, TypeOK
<1>5. LockInv'
  BY <1>1 DEF ListingsInv, LockInv
<1>6. BatchInv'
  <2>1. IsFiniteSet(placed[r])
    BY DEF ListingsInv, BatchInv
  <2>2. IsFiniteSet(placed'[r])
    BY <1>2, <2>1, FS_RemoveElement
  <2> QED
    BY <1>1, <1>2, <2>2 DEF ListingsInv, BatchInv, UploadFits
<1>7. KeysInv'
  <2>1. \A s \in Requests : \A j \in placed'[s] : j \in placed[s] /\ j.key # i.key
    BY <1>2 DEF ListingsInv, KeysInv
  <2> QED
    BY <1>1, <2>1 DEF ListingsInv, KeysInv, Referenced
<1>8. ImagesFinite' /\ ImagesInOrder' /\ NoDanglingImage'
  BY <1>1, <1>3 DEF ListingsInv, ImagesFinite, ImagesInOrder, NoDanglingImage, Referenced
<1> QED
  BY <1>4, <1>5, <1>6, <1>7, <1>8 DEF ListingsInv

\* No image of the batch is in the gallery it joins.
LEMMA BatchJoins ==
  ASSUME ListingsInv, NEW r \in Requests, AddImages(r)
  PROVE  LET l == id[r] IN
         /\ Cardinality(images[l]) \in Nat /\ Cardinality(placed[r]) \in Nat
         /\ IsFiniteSet(images[l] \union placed[r])
         /\ Cardinality(images[l] \union placed[r]) = Cardinality(images[l]) + Cardinality(placed[r])
<1> DEFINE l == id[r]
<1>1. l \in Ids
  BY DEF AddImages, ListingsInv, LockInv
<1>2. /\ IsFiniteSet(images[l]) /\ IsFiniteSet(placed[r])
      /\ images[l] \intersect placed[r] = {}
  <2>1. \A i \in images[l] : i.key \in Referenced
    BY <1>1 DEF Referenced, KeysOf
  <2> QED
    BY <1>1, <2>1 DEF ListingsInv, ImagesFinite, BatchInv, KeysInv
<1>3. /\ IsFiniteSet(images[l] \union placed[r])
      /\ Cardinality(images[l] \union placed[r]) = Cardinality(images[l])
            + Cardinality(placed[r]) - Cardinality(images[l] \intersect placed[r])
  BY <1>2, FS_Union, Zenon
<1>4. Cardinality(images[l]) \in Nat /\ Cardinality(placed[r]) \in Nat
  BY <1>2, FS_CardinalityType, Zenon
<1>5. Cardinality(images[l] \intersect placed[r]) = 0
  BY <1>2, FS_EmptySet, Zenon
<1>6. Cardinality(images[l] \union placed[r]) = Cardinality(images[l]) + Cardinality(placed[r])
  <2> DEFINE b == Cardinality(images[l])
             n == Cardinality(placed[r])
             m == Cardinality(images[l] \intersect placed[r])
             u == Cardinality(images[l] \union placed[r])
  <2>1. b \in Nat /\ n \in Nat /\ m = 0 /\ u = b + n - m
    BY <1>3, <1>4, <1>5, Zenon
  <2> HIDE DEF b, n, m, u
  <2>2. u = b + n
    BY <2>1
  <2> QED
    BY <2>2 DEF b, n, u
<1> QED
  BY <1>3, <1>4, <1>6, Zenon

\* The images go in behind those that the listing had, which are those it has.
LEMMA Added ==
  ASSUME ListingsInv, NEW r \in Requests, AddImages(r)
  PROVE  ListingsInv'
<1> DEFINE l == id[r]
<1>1. /\ pc[r] = "uploading" /\ todo[r] = {} /\ l \in Ids /\ rowLock[l] = r
      /\ images' = [images EXCEPT ![l] = @ \union placed[r]] /\ End(r)
      /\ UNCHANGED <<status, content, removals, stored>>
  BY DEF AddImages, ListingsInv, LockInv
<1>2. /\ pc'[r] = "idle" /\ todo'[r] = {} /\ placed'[r] = {}
      /\ \A s \in Requests \ {r} : /\ pc'[s] = pc[s] /\ id'[s] = id[s] /\ base'[s] = base[s]
                                   /\ todo'[s] = todo[s] /\ placed'[s] = placed[s]
      /\ \A m \in Ids : rowLock'[m] = IF rowLock[m] = r THEN None ELSE rowLock[m]
  BY DEF AddImages, End, ListingsInv, TypeOK
<1>3. /\ images'[l] = images[l] \union placed[r]
      /\ \A m \in Ids \ {l} : images'[m] = images[m]
  BY <1>1 DEF ListingsInv, TypeOK
<1>4. TypeOK'
  BY <1>1 DEF End, ListingsInv, TypeOK, PCs
<1>5. LockInv'
  BY <1>2 DEF ListingsInv, LockInv
<1>6. Referenced' = Referenced \union KeysOf(placed[r])
  <2>1. KeysOf(images'[l]) = KeysOf(images[l]) \union KeysOf(placed[r])
    BY <1>3 DEF KeysOf
  <2>2. \A m \in Ids \ {l} : KeysOf(images'[m]) = KeysOf(images[m])
    BY <1>3
  <2>3. \A k : k \in Referenced <=> \E m \in Ids : k \in KeysOf(images[m])
    BY DEF Referenced
  <2>4. \A k : k \in Referenced' <=> \E m \in Ids : k \in KeysOf(images'[m])
    BY DEF Referenced
  <2> HIDE DEF l
  <2>5. ASSUME NEW k PROVE k \in Referenced' <=> k \in Referenced \/ k \in KeysOf(placed[r])
    BY <1>1, <2>1, <2>2, <2>3, <2>4
  <2> QED
    BY <2>5
<1>7. BatchInv'
  <2>1. ASSUME NEW s \in Requests \ {r}, pc[s] = "uploading" PROVE id[s] \in Ids \ {l}
    BY <1>1, <2>1 DEF ListingsInv, LockInv
  <2>2. IsFiniteSet(placed'[r])
    BY <1>2, FS_EmptySet
  <2>3. ASSUME NEW s \in Requests \ {r}, pc[s] = "uploading"
        PROVE  UploadFits(s)'
    BY <1>1, <1>2, <1>3, <2>1, <2>3 DEF ListingsInv, BatchInv, UploadFits
  <2>4. \A s \in Requests \ {r} : /\ pc[s] \notin {"uploading", "cleaning"} => placed[s] = {} /\ todo[s] = {}
                                  /\ IsFiniteSet(placed[s])
    BY DEF ListingsInv, BatchInv
  <2> QED
    BY <1>2, <2>2, <2>3, <2>4 DEF BatchInv
<1>8. KeysInv'
  <2>1. \A s \in Requests \ {r} : \A j \in placed[s] : j.key \notin KeysOf(placed[r])
    BY DEF ListingsInv, KeysInv, KeysOf
  <2> QED
    BY <1>1, <1>2, <1>6, <2>1 DEF ListingsInv, KeysInv
<1>9. NoDanglingImage'
  BY <1>1, <1>6 DEF ListingsInv, KeysInv, NoDanglingImage, KeysOf
<1>10. /\ IsFiniteSet(images'[l])
       /\ Cardinality(images'[l]) = Cardinality(images[l]) + Cardinality(placed[r])
       /\ Cardinality(images[l]) \in Nat /\ Cardinality(placed[r]) \in Nat
  BY <1>3, BatchJoins, Zenon
<1>11. ImagesFinite'
  BY <1>3, <1>10 DEF ListingsInv, ImagesFinite
<1>12. ImagesInOrder'
  <2> DEFINE b == Cardinality(images[l])
             n == Cardinality(placed[r])
  <2>1. b + n + 0 <= MaxImages /\ Positions(placed[r]) = b .. b + n - 1
    BY <1>1, FS_EmptySet DEF ListingsInv, BatchInv, UploadFits
  <2>2. Positions(images[l]) = 0 .. b - 1
    BY <1>1 DEF ListingsInv, ImagesInOrder
  <2>3. Positions(images'[l]) = Positions(images[l]) \union Positions(placed[r])
    BY <1>3 DEF Positions
  <2>4. b \in Nat /\ n \in Nat /\ Cardinality(images'[l]) = b + n
    BY <1>10
  <2>5. \A c, m \in Nat : (0 .. c - 1) \union (c .. c + m - 1) = 0 .. (c + m) - 1
    OBVIOUS
  <2> HIDE DEF b, n
  <2>6. Cardinality(images'[l]) <= MaxImages /\ Positions(images'[l]) = 0 .. Cardinality(images'[l]) - 1
    BY <2>1, <2>2, <2>3, <2>4, <2>5, MaxImagesAssumption
  <2> QED
    BY <1>3, <2>6 DEF ListingsInv, ImagesInOrder
<1> QED
  BY <1>4, <1>5, <1>7, <1>8, <1>9, <1>11, <1>12 DEF ListingsInv

-----------------------------------------------------------------------------
\* Every step keeps the invariant: one case for each action.
LEMMA ListingsStep == ListingsInv /\ [Next]_vars => ListingsInv'
<1> SUFFICES ASSUME ListingsInv, [Next]_vars PROVE ListingsInv'
  OBVIOUS
<1>1. CASE UNCHANGED vars
  BY <1>1 DEF vars, database, control, ListingsInv, TypeOK, LockInv, BatchInv, UploadFits, KeysInv,
              ImagesFinite, ImagesInOrder, NoDanglingImage, Referenced
<1>2. ASSUME NEW r \in Requests, Arrival(r) PROVE ListingsInv'
  BY <1>1, <1>2, Created, Decided, Locked DEF Arrival, Refused
<1>3. ASSUME NEW r \in Requests, Step(r) PROVE ListingsInv'
  BY <1>3, RowWritten, Stored, PutFailed, CleanedUp, NothingWritten, Added DEF Step
<1>4. ASSUME NEW r \in Requests, Abort(r) PROVE ListingsInv'
  BY <1>4, NothingWritten
<1> QED
  BY <1>1, <1>2, <1>3, <1>4 DEF Next

\* The inductive invariant of listings, their images and the uploads under way.
THEOREM ListingsInvariant == Spec => []ListingsInv
<1> QED
  BY ListingsInitially, ListingsStep, PTL DEF Spec

\* Every variable keeps its type.
THEOREM ListingsTypeOK == Spec => []TypeOK
<1>1. ListingsInv => TypeOK
  BY DEF ListingsInv
<1> QED
  BY <1>1, ListingsInvariant, PTL

\* However many uploads of a listing overlap, fail and are aborted, its images are within
\* the cap and at the positions 0, 1, 2, ... (upload_images).
THEOREM ListingsImagesInOrder == Spec => []ImagesInOrder
<1>1. ListingsInv => ImagesInOrder
  BY DEF ListingsInv
<1> QED
  BY <1>1, ListingsInvariant, PTL

\* No row refers to an object that is not there, whatever fails or is cleaned up beside it.
THEOREM ListingsNoDanglingImage == Spec => []NoDanglingImage
<1>1. ListingsInv => NoDanglingImage
  BY DEF ListingsInv
<1> QED
  BY <1>1, ListingsInvariant, PTL

\* The availability that upload_images checked holds when its rows are inserted, because
\* every operation that ends it waits for the row's lock.
THEOREM ListingsImagesOnlyWhileAvailable == Spec => ImagesOnlyWhileAvailable
<1> DEFINE Gains == \A l \in Ids : images[l] # images'[l] => status[l] = "available"
<1>1. ListingsInv /\ [Next]_vars => [Gains]_vars
  <2> SUFFICES ASSUME ListingsInv, [Next]_vars, NEW l \in Ids, images[l] # images'[l]
               PROVE  status[l] = "available"
    OBVIOUS
  <2>1. PICK r \in Requests : AddImages(r)
    BY DEF Next, Arrival, Step, Abort, Refused, Create, EditRead, MarkSoldRead, DeleteRead,
           RemoveRead, UploadLock, EditWrite, MarkSoldWrite, DeleteWrite, RemoveWrite, WriteRow,
           Put, PutFails, CleanUp, UploadUnavailable, Decide, vars, database
  <2>2. l = id[r]
    BY <2>1 DEF AddImages, ListingsInv, TypeOK
  <2> QED
    BY <2>1, <2>2 DEF AddImages, ListingsInv, BatchInv, UploadFits
<1> QED
  BY <1>1, ListingsInvariant, PTL DEF Spec, ImagesOnlyWhileAvailable

-----------------------------------------------------------------------------
(* Listings implements ListingLife: the writing step of each operation is    *)
(* the operation, every other step is a stutter.                             *)

\* A request works on a listing that exists, and no listing ceases to exist.
FoundInv ==
    \A r \in Requests :
        /\ pc[r] # "idle" => status[id[r]] # "absent"
        /\ pc[r] = "editing" => text[r] \in Contents

LEMMA FoundStep == ListingsInv /\ FoundInv /\ [Next]_vars => FoundInv'
<1> SUFFICES ASSUME ListingsInv, FoundInv, [Next]_vars PROVE FoundInv'
  OBVIOUS
<1>1. CASE UNCHANGED vars
  BY <1>1 DEF vars, database, control, FoundInv
<1>2. ASSUME NEW r \in Requests, Arrival(r) \/ Step(r) \/ Abort(r) PROVE FoundInv'
  <2>1. ASSUME NEW l \in Ids PROVE status[l] # "absent" => status'[l] # "absent"
    BY <1>2, <2>1 DEF Arrival, Step, Abort, Refused, Create, EditRead, MarkSoldRead, DeleteRead,
           RemoveRead, UploadLock, EditWrite, MarkSoldWrite, DeleteWrite, RemoveWrite, WriteRow,
           Put, PutFails, CleanUp, UploadUnavailable, AddImages, Decide, vars, database,
           ListingsInv, TypeOK
  <2> DEFINE Settled(s) ==
               \/ pc'[s] = "idle"
               \/ /\ pc[s] # "idle" /\ id'[s] = id[s]
                  /\ pc'[s] = "editing" => pc[s] = "editing" /\ text'[s] = text[s]
               \/ /\ id'[s] \in Ids /\ status'[id'[s]] # "absent"
                  /\ pc'[s] = "editing" => text'[s] \in Contents
  <2>2. ASSUME NEW s \in Requests PROVE Settled(s)
    <3>1. CASE Step(r) \/ Abort(r)
      BY <3>1 DEF Step, Abort, EditWrite, MarkSoldWrite, DeleteWrite, RemoveWrite, WriteRow,
             Put, PutFails, CleanUp, UploadUnavailable, AddImages, End, ListingsInv, TypeOK
    <3>2. CASE Arrival(r)
      <4>1. CASE Refused(r) \/ \E l \in Ids : Create(r, l)
        BY <4>1 DEF Refused, Create, vars, control
      <4>2. ASSUME NEW l \in Ids, EditRead(r, l) PROVE Settled(s)
        BY <4>2 DEF EditRead, Decide, ListingsInv, TypeOK, database
      <4>3. ASSUME NEW l \in Ids, MarkSoldRead(r, l) \/ DeleteRead(r, l) \/ RemoveRead(r, l)
            PROVE Settled(s)
        BY <4>3 DEF MarkSoldRead, DeleteRead, RemoveRead, Decide, ListingsInv, TypeOK, database
      <4>4. ASSUME NEW l \in Ids, UploadLock(r, l) PROVE Settled(s)
        BY <4>4 DEF UploadLock, ListingsInv, TypeOK, database
      <4> QED
        BY <3>2, <4>1, <4>2, <4>3, <4>4 DEF Arrival
    <3> QED
      BY <1>2, <3>1, <3>2
  <2> QED
    BY <2>1, <2>2 DEF ListingsInv, LockInv, FoundInv
<1> QED
  BY <1>1, <1>2 DEF Next

\* A batch goes in at once, into an available listing that has room for it, numbered on.
LEMMA AddedIllustrates ==
  ASSUME ListingsInv, NEW r \in Requests, AddImages(r)
  PROVE  \E batch \in SUBSET [key : Keys, position : 0 .. MaxImages - 1] : Life!Illustrate(id[r], batch)
<1> DEFINE l == id[r]
           batch == placed[r]
           n == Cardinality(images[l])
           total == Cardinality(images[l] \union batch)
<1>1. /\ l \in Ids /\ status[l] = "available" /\ todo[r] = {}
      /\ base[r] = n
      /\ base[r] + Cardinality(batch) + Cardinality(todo[r]) <= MaxImages
      /\ Positions(batch) = base[r] .. base[r] + Cardinality(batch) - 1
      /\ images' = [images EXCEPT ![l] = @ \union batch]
      /\ UNCHANGED <<status, content, removals>>
  BY DEF AddImages, ListingsInv, LockInv, BatchInv, UploadFits
<1>2. n \in Nat /\ Cardinality(batch) \in Nat /\ total = n + Cardinality(batch)
  BY BatchJoins, Zenon
<1>3. total <= MaxImages /\ Positions(batch) = n .. total - 1
  <2>1. Cardinality(todo[r]) = 0
    BY <1>1, FS_EmptySet
  <2> HIDE DEF n, total, batch
  <2> QED
    BY <1>1, <1>2, <2>1, MaxImagesAssumption
<1>4. batch \in SUBSET [key : Keys, position : 0 .. MaxImages - 1]
  <2>1. \A i \in batch : i \in Image /\ i.position \in n .. total - 1
    BY <1>3 DEF ListingsInv, TypeOK, Positions
  <2> HIDE DEF n, total
  <2>2. \A i \in batch : i.key \in Keys /\ i.position \in 0 .. MaxImages - 1
                      /\ i = [key |-> i.key, position |-> i.position]
    BY <1>2, <1>3, <2>1, MaxImagesAssumption DEF Image
  <2> QED
    BY <2>2
<1>5. ASSUME NEW i \in batch, NEW j \in (UNION {images[m] : m \in Ids}) \union batch, i.key = j.key
      PROVE  i = j /\ j \notin UNION {images[m] : m \in Ids}
  <2>1. i.key \notin Referenced
    BY DEF ListingsInv, KeysInv
  <2>2. j \notin UNION {images[m] : m \in Ids}
    BY <1>5, <2>1 DEF Referenced, KeysOf
  <2> QED
    BY <1>5, <2>2 DEF ListingsInv, KeysInv
<1>6. Life!Illustrate(l, batch)
  <2>1. {i.position : i \in batch} = n .. total - 1
    BY <1>3 DEF Positions
  <2>2. \A i \in batch, j \in (UNION {images[m] : m \in Ids}) \union batch :
           i.key = j.key => i = j /\ j \notin UNION {images[m] : m \in Ids}
    BY <1>5
  <2>3. Life!Cardinality(images[l]) = n /\ Life!Cardinality(images[l] \union batch) = total
    BY DEF Cardinality, Life!Cardinality
  <2> QED
    BY <1>1, <1>3, <2>1, <2>2, <2>3, Zenon DEF Life!Illustrate
<1> QED
  BY <1>4, <1>6, Zenon

\* A step of the services is a step of the life cycle or none.
LEMMA LifeStep == ListingsInv /\ FoundInv /\ [Next]_vars => [Life!LifeNext]_(Life!lifeVars)
<1> SUFFICES ASSUME ListingsInv, FoundInv, Next, ~ UNCHANGED Life!lifeVars PROVE Life!LifeNext
  BY DEF vars, database, Life!lifeVars
<1>1. PICK r \in Requests : Arrival(r) \/ Step(r) \/ Abort(r)
  BY DEF Next
<1>2. pc[r] # "idle" => id[r] \in Life!Listed
  BY DEF ListingsInv, LockInv, FoundInv, Life!Listed
<1>3. ASSUME NEW l \in Ids, Create(r, l) PROVE Life!LifeNext
  <2>1. PICK c \in Contents : content' = [content EXCEPT ![l] = c]
    BY <1>3 DEF Create
  <2>2. Life!Offer(l, c)
    BY <1>3, <2>1 DEF Create, Life!Offer, Life!Listed
  <2> QED
    BY <2>2 DEF Life!LifeNext
<1>4. CASE EditWrite(r)
  <2>1. Life!Revise(id[r], text[r]) /\ text[r] \in Contents
    BY <1>2, <1>4 DEF EditWrite, WriteRow, Life!Revise, FoundInv
  <2> QED
    BY <1>2, <1>4, <2>1 DEF Life!LifeNext, Life!Listed, EditWrite, WriteRow
<1>5. CASE MarkSoldWrite(r)
  <2>1. Life!Close(id[r], "sold")
    BY <1>2, <1>5 DEF MarkSoldWrite, WriteRow, Life!Close
  <2> QED
    BY <1>2, <1>5, <2>1 DEF Life!LifeNext, Life!Listed, MarkSoldWrite, WriteRow
<1>6. CASE DeleteWrite(r)
  <2>1. Life!Close(id[r], "deleted")
    BY <1>2, <1>6 DEF DeleteWrite, WriteRow, Life!Close
  <2> QED
    BY <1>2, <1>6, <2>1 DEF Life!LifeNext, Life!Listed, DeleteWrite, WriteRow
<1>7. CASE RemoveWrite(r)
  <2>1. Life!TakeDown(id[r])
    BY <1>2, <1>7 DEF RemoveWrite, WriteRow, Life!TakeDown
  <2> QED
    BY <1>2, <1>7, <2>1 DEF Life!LifeNext, Life!Listed, RemoveWrite, WriteRow
<1>8. CASE AddImages(r)
  BY <1>2, <1>8, AddedIllustrates DEF Life!LifeNext, Life!Listed, AddImages
<1> QED
  BY <1>1, <1>3, <1>4, <1>5, <1>6, <1>7, <1>8
     DEF Arrival, Step, Abort, Refused, EditRead, MarkSoldRead, DeleteRead, RemoveRead, UploadLock,
         Put, PutFails, CleanUp, UploadUnavailable, Decide, vars, database, Life!lifeVars

\* However requests overlap, fail and are aborted, what they do to a listing is what some
\* sequence of whole operations of its life cycle would do (create, update, mark_sold,
\* delete, remove_listing, upload_images).
THEOREM ListingsImplementListingLife == Spec => ImplementsListingLife
<1>1. Init => FoundInv /\ Life!LifeInit
  BY DEF Init, FoundInv, Life!LifeInit
<1> QED
  BY <1>1, FoundStep, LifeStep, ListingsInvariant, PTL DEF Spec, ImplementsListingLife, Life!LifeSpec

\* In the life cycle, what has ended is not on sale again and gains no image.
LEMMA EndedStaysEnded ==
  ASSUME TypeOK, [Life!LifeNext]_(Life!lifeVars), NEW l \in Ids, status[l] \in {"sold", "deleted"}
  PROVE  status'[l] \in {"sold", "deleted"} /\ images'[l] = images[l]
<1>1. CASE UNCHANGED Life!lifeVars
  BY <1>1 DEF Life!lifeVars
<1>2. ASSUME NEW m \in Ids, NEW c \in Contents, Life!Offer(m, c) \/ Life!Revise(m, c)
      PROVE  status'[l] \in {"sold", "deleted"} /\ images'[l] = images[l]
  BY <1>2 DEF Life!Offer, Life!Revise, Life!Listed, TypeOK
<1>3. ASSUME NEW m \in Ids, NEW how \in {"sold", "deleted"}, Life!Close(m, how) \/ Life!TakeDown(m)
      PROVE  status'[l] \in {"sold", "deleted"} /\ images'[l] = images[l]
  BY <1>3 DEF Life!Close, Life!TakeDown, TypeOK
<1>4. ASSUME NEW m \in Ids, NEW batch, Life!Illustrate(m, batch)
      PROVE  status'[l] \in {"sold", "deleted"} /\ images'[l] = images[l]
  BY <1>4 DEF Life!Illustrate, TypeOK
<1> QED
  BY <1>1, <1>2, <1>3, <1>4 DEF Life!LifeNext

\* So no listing that was sold or deleted is ever on sale again, and its gallery is final.
THEOREM ListingsEndedStaysEnded ==
  Spec => [][\A l \in Ids : status[l] \in {"sold", "deleted"} =>
                status'[l] \in {"sold", "deleted"} /\ images'[l] = images[l]]_vars
<1> DEFINE Stays == \A l \in Ids : status[l] \in {"sold", "deleted"} =>
                       status'[l] \in {"sold", "deleted"} /\ images'[l] = images[l]
<1>1. Init => FoundInv
  BY DEF Init, FoundInv
<1>2. ListingsInv /\ FoundInv /\ [Next]_vars => [Stays]_vars
  BY LifeStep, EndedStaysEnded DEF ListingsInv
<1> QED
  BY <1>1, <1>2, FoundStep, ListingsInvariant, PTL DEF Spec

-----------------------------------------------------------------------------
(* What a removal is worth where the unlocked decisions do not overlap it.   *)

\* No sale of the listing that a moderator removes has been decided on and is yet to be
\* written.
SalesApart ==
    [][\A r, s \in Requests : RemoveWrite(r) /\ pc[s] = "selling" => id[s] # id[r]]_vars

\* No other removal of it has been decided on and is yet to be written.
RemovalsApart ==
    [][\A r, s \in Requests : RemoveWrite(r) /\ pc[s] = "removing" /\ s # r => id[s] # id[r]]_vars

\* A removed listing stays deleted, and nobody is about to sell it.
RemovedInv ==
    \A l \in Ids : removals[l] > 0 =>
        /\ status[l] = "deleted"
        /\ \A s \in Requests : pc[s] = "selling" => id[s] # l

\* It is removed once, and nobody is about to remove it again.
RemovedOnceInv ==
    \A l \in Ids :
        /\ removals[l] <= 1
        /\ removals[l] > 0 => \A s \in Requests : pc[s] = "removing" => id[s] # l

\* Requests reach the write of a sale or a removal by reading a listing that is not deleted.
LEMMA Deciding ==
  ASSUME ListingsInv, Next, NEW s \in Requests, NEW step \in {"selling", "removing"},
         pc'[s] = step
  PROVE  \/ pc[s] = step /\ id'[s] = id[s]
         \/ id'[s] \in Ids /\ status[id'[s]] # "deleted" /\ UNCHANGED <<status, removals>>
<1> DEFINE Came == \/ pc[s] = step /\ id'[s] = id[s]
                   \/ id'[s] \in Ids /\ status[id'[s]] # "deleted" /\ UNCHANGED <<status, removals>>
<1>1. PICK r \in Requests : Arrival(r) \/ Step(r) \/ Abort(r)
  BY DEF Next
<1>2. CASE Step(r) \/ Abort(r)
  BY <1>2 DEF Step, Abort, EditWrite, MarkSoldWrite, DeleteWrite, RemoveWrite, WriteRow,
         Put, PutFails, CleanUp, UploadUnavailable, AddImages, End, ListingsInv, TypeOK
<1>3. CASE Refused(r) \/ \E l \in Ids : Create(r, l)
  BY <1>3 DEF Refused, Create, vars, control
<1>4. ASSUME NEW l \in Ids, EditRead(r, l) \/ MarkSoldRead(r, l) \/ DeleteRead(r, l) \/ RemoveRead(r, l)
      PROVE  Came
  BY <1>4 DEF EditRead, MarkSoldRead, DeleteRead, RemoveRead, Decide, ListingsInv, TypeOK, database
<1>5. ASSUME NEW l \in Ids, UploadLock(r, l) PROVE Came
  BY <1>5 DEF UploadLock, ListingsInv, TypeOK
<1> QED
  BY <1>1, <1>2, <1>3, <1>4, <1>5 DEF Arrival

\* What a step does to the status and to the audit rows of a listing.
LEMMA Writing ==
  ASSUME ListingsInv, Next, NEW l \in Ids
  PROVE  \/ status'[l] = status[l] /\ removals'[l] = removals[l]
         \/ status[l] = "absent" /\ removals'[l] = removals[l]
         \/ \E r \in Requests : MarkSoldWrite(r) /\ id[r] = l /\ removals'[l] = removals[l]
         \/ status'[l] = "deleted" /\ removals'[l] = removals[l]
         \/ \E r \in Requests :
               RemoveWrite(r) /\ id[r] = l /\ status'[l] = "deleted" /\ removals'[l] = removals[l] + 1
<1> DEFINE Kept == status'[l] = status[l] /\ removals'[l] = removals[l]
<1>1. PICK r \in Requests : Arrival(r) \/ Step(r) \/ Abort(r)
  BY DEF Next
<1>2. id[r] = l \/ id[r] # l
  OBVIOUS
<1>3. CASE EditWrite(r) \/ AddImages(r) \/ Abort(r) \/ UploadUnavailable(r)
  BY <1>3 DEF EditWrite, AddImages, Abort, UploadUnavailable, database
<1>4. CASE \E k \in Keys : Put(r, k) \/ PutFails(r, k)
  BY <1>4 DEF Put, PutFails, database
<1>5. CASE \E i \in placed[r] : CleanUp(r, i)
  BY <1>5 DEF CleanUp, database
<1>6. CASE MarkSoldWrite(r)
  BY <1>2, <1>6 DEF MarkSoldWrite, ListingsInv, TypeOK
<1>7. CASE DeleteWrite(r)
  BY <1>2, <1>7 DEF DeleteWrite, ListingsInv, TypeOK
<1>8. CASE RemoveWrite(r)
  BY <1>2, <1>8 DEF RemoveWrite, ListingsInv, TypeOK
<1>9. ASSUME NEW m \in Ids, Create(r, m)
      PROVE  Kept \/ (status[l] = "absent" /\ removals'[l] = removals[l])
  BY <1>9 DEF Create, ListingsInv, TypeOK
<1>10. ASSUME NEW m \in Ids, EditRead(r, m) \/ MarkSoldRead(r, m) \/ DeleteRead(r, m)
                              \/ RemoveRead(r, m) \/ UploadLock(r, m)
       PROVE  Kept
  BY <1>10 DEF EditRead, MarkSoldRead, DeleteRead, RemoveRead, UploadLock, Decide, database
<1>11. CASE Refused(r)
  BY <1>11 DEF Refused, vars, database
<1> QED
  BY <1>1, <1>3, <1>4, <1>5, <1>6, <1>7, <1>8, <1>9, <1>10, <1>11 DEF Arrival, Step

\* A removal, or a step after one, leaves no sale of the listing under way.
LEMMA RemovedStep ==
  ASSUME ListingsInv, RemovedInv, [Next]_vars,
         [\A r, s \in Requests : RemoveWrite(r) /\ pc[s] = "selling" => id[s] # id[r]]_vars
  PROVE  RemovedInv'
<1>1. CASE UNCHANGED vars
  BY <1>1 DEF vars, database, control, RemovedInv
<1>2. CASE Next /\ ~ UNCHANGED vars
  <2> SUFFICES ASSUME NEW l \in Ids, removals'[l] > 0
               PROVE  /\ status'[l] = "deleted"
                      /\ \A s \in Requests : pc'[s] = "selling" => id'[s] # l
    BY DEF RemovedInv
  <2>1. removals[l] \in Nat
    BY DEF ListingsInv, TypeOK
  <2>2. CASE removals[l] > 0
    <3>1. status[l] = "deleted" /\ \A s \in Requests : pc[s] = "selling" => id[s] # l
      BY <2>2 DEF RemovedInv
    <3>2. status'[l] = "deleted"
      BY <1>2, <3>1, Writing DEF MarkSoldWrite, WriteRow
    <3>3. ASSUME NEW s \in Requests, pc'[s] = "selling" PROVE id'[s] # l
      BY <1>2, <3>1, <3>3, Deciding
    <3> QED
      BY <3>2, <3>3
  <2>3. CASE removals[l] = 0
    <3>1. PICK r \in Requests : RemoveWrite(r) /\ id[r] = l /\ status'[l] = "deleted"
      BY <1>2, <2>3, Writing
    <3>2. \A s \in Requests : pc[s] = "selling" => id[s] # l
      BY <1>2, <3>1
    <3>3. ASSUME NEW s \in Requests, pc'[s] = "selling" PROVE pc[s] = "selling" /\ id'[s] = id[s]
      BY <3>1, <3>3 DEF RemoveWrite, WriteRow, End, ListingsInv, TypeOK
    <3> QED
      BY <3>1, <3>2, <3>3
  <2> QED
    BY <2>1, <2>2, <2>3
<1> QED
  BY <1>1, <1>2

\* Nor does it leave another removal.
LEMMA RemovedOnceStep ==
  ASSUME ListingsInv, RemovedInv, RemovedOnceInv, [Next]_vars,
         [\A r, s \in Requests : RemoveWrite(r) /\ pc[s] = "removing" /\ s # r => id[s] # id[r]]_vars
  PROVE  RemovedOnceInv'
<1>1. CASE UNCHANGED vars
  BY <1>1 DEF vars, database, control, RemovedOnceInv
<1>2. CASE Next /\ ~ UNCHANGED vars
  <2> SUFFICES ASSUME NEW l \in Ids
               PROVE  /\ removals'[l] <= 1
                      /\ removals'[l] > 0 => \A s \in Requests : pc'[s] = "removing" => id'[s] # l
    BY DEF RemovedOnceInv
  <2>1. removals[l] \in Nat
    BY DEF ListingsInv, TypeOK
  <2>2. CASE removals'[l] = removals[l]
    <3>1. ASSUME NEW s \in Requests, removals[l] > 0, pc'[s] = "removing" PROVE id'[s] # l
      BY <1>2, <3>1, Deciding DEF RemovedInv, RemovedOnceInv
    <3> QED
      BY <2>2, <3>1 DEF RemovedOnceInv
  <2>3. CASE removals'[l] # removals[l]
    <3>1. PICK r \in Requests : RemoveWrite(r) /\ id[r] = l /\ removals'[l] = removals[l] + 1
      BY <1>2, <2>3, Writing
    <3>2. removals[l] = 0
      BY <2>1, <3>1 DEF RemovedOnceInv, RemoveWrite, WriteRow
    <3>3. \A s \in Requests : pc[s] = "removing" /\ s # r => id[s] # l
      BY <1>2, <3>1
    <3>4. ASSUME NEW s \in Requests, pc'[s] = "removing"
          PROVE  pc[s] = "removing" /\ s # r /\ id'[s] = id[s]
      BY <3>1, <3>4 DEF RemoveWrite, WriteRow, End, ListingsInv, TypeOK
    <3> QED
      BY <3>1, <3>2, <3>3, <3>4
  <2> QED
    BY <2>2, <2>3
<1> QED
  BY <1>1, <1>2

\* A removed listing comes back, as sold, only through a mark_sold that decided before
\* remove_listing wrote: where no removal is written beside such a sale, removals last.
THEOREM ListingsOnlySalesUndoRemovals == Spec /\ SalesApart => []RemovalLasts
<1>1. Init => RemovedInv
  BY DEF Init, RemovedInv
<1>2. RemovedInv => RemovalLasts
  BY DEF RemovedInv, RemovalLasts
<1> QED
  BY <1>1, <1>2, RemovedStep, ListingsInvariant, PTL DEF Spec, SalesApart

\* And where no removal is written beside another one either, each listing has at most one
\* remove_listing row in the audit trail (FR-029: a repeated removal is a no-op).
THEOREM ListingsRemovedOnce ==
  Spec /\ SalesApart /\ RemovalsApart => [](\A l \in Ids : removals[l] <= 1)
<1>1. Init => RemovedInv /\ RemovedOnceInv
  BY DEF Init, RemovedInv, RemovedOnceInv
<1>2. RemovedOnceInv => \A l \in Ids : removals[l] <= 1
  BY DEF RemovedOnceInv
<1> QED
  BY <1>1, <1>2, RemovedStep, RemovedOnceStep, ListingsInvariant, PTL
     DEF Spec, SalesApart, RemovalsApart
=============================================================================
