------------------------ MODULE ListingImagesProofs ------------------------
(***************************************************************************)
(* For any number of photos and faults: a listed photo has its files, and  *)
(* one of the photos that were only added is the main one.                 *)
(***************************************************************************)
EXTENDS MCListingImages, FiniteSetTheorems, TLAPS

Ups == {"new", "counted", "orig", "saved", "undo", "clean", "cleaner", "over"}
Dels == {"none", "orig", "thumb"}

(* What the step of an upload says of the storage: a picture is there from its *)
(* own save on, both files when the row is due, and no files are removed while *)
(* there is a row.                                                             *)
PhotoSound(u) ==
  /\ up[u] = "orig" => u \in orig
  /\ up[u] = "saved" => u \in orig /\ u \in thumb
  /\ u \in rows => up[u] = "over" /\ del[u] = "none" /\ u \in orig /\ u \in thumb
  /\ del[u] # "none" => up[u] = "over"

FilesInv ==
  /\ up \in [Photos -> Ups] /\ del \in [Photos -> Dels]
  /\ rows \subseteq Photos
  /\ \A u \in Photos : PhotoSound(u)

LEMMA FilesStep == FilesInv /\ [Next]_vars => FilesInv'
<1> SUFFICES ASSUME FilesInv, [Next]_vars PROVE FilesInv'
  OBVIOUS
<1> USE DEF FilesInv, Ups, Dels
<1>1. CASE UNCHANGED vars
  BY <1>1 DEF vars, Table, PhotoSound
<1>2. ASSUME NEW u \in Photos, Upload(u) PROVE FilesInv'
  <2>1. CASE Count(u)
    BY <2>1 DEF Count, Goes, Table, PhotoSound
  <2>2. CASE SaveOrig(u)
    BY <2>2 DEF SaveOrig, Goes, Table, PhotoSound
  <2>3. CASE SaveThumb(u)
    BY <2>3 DEF SaveThumb, Goes, Table, PhotoSound
  <2>4. CASE ThumbFails(u) \/ CommitFails(u) \/ InsertClashes(u)
    BY <2>4 DEF ThumbFails, CommitFails, InsertClashes, Goes, Table, PhotoSound
  <2>5. CASE Undo(u) \/ Clean(u)
    BY <2>5 DEF Undo, Clean, Goes, Table, PhotoSound
  <2>6. CASE Cleaner(u)
    BY <2>6 DEF Cleaner, Goes, Table, PhotoSound
  <2>7. CASE InsertRow(u)
    BY <2>7 DEF InsertRow, Goes, PhotoSound
  <2>8. CASE UploadEnds(u)
    BY <2>8 DEF UploadEnds, Table, PhotoSound
  <2> QED BY <1>2, <2>1, <2>2, <2>3, <2>4, <2>5, <2>6, <2>7, <2>8 DEF Upload
<1>3. ASSUME NEW u \in Photos, Delete(u) PROVE FilesInv'
  <2>1. CASE DeleteRow(u)
    BY <2>1 DEF DeleteRow, PhotoSound
  <2>2. CASE DeleteOrig(u)
    BY <2>2 DEF DeleteOrig, Table, PhotoSound
  <2>3. CASE DeleteThumb(u)
    BY <2>3 DEF DeleteThumb, Table, PhotoSound
  <2>4. CASE DeleteEnds(u)
    BY <2>4 DEF DeleteEnds, Table, PhotoSound
  <2> QED BY <1>3, <2>1, <2>2, <2>3, <2>4 DEF Delete
<1>4. CASE CountForPublish \/ Publish
  BY <1>4 DEF CountForPublish, Publish, Table, PhotoSound
<1> QED BY <1>1, <1>2, <1>3, <1>4 DEF Next

LEMMA TypeStep == FilesInv /\ TypeOK /\ [Next]_vars => TypeOK'
<1> SUFFICES ASSUME FilesInv, TypeOK, [Next]_vars PROVE TypeOK'
  OBVIOUS
<1> USE DEF TypeOK
<1>1. CASE UNCHANGED vars
  BY <1>1 DEF vars, Table
<1>2. ASSUME NEW u \in Photos, Count(u) PROVE TypeOK'
  <2>1. Cardinality(rows) \in 0..Cardinality(Photos)
    BY PhotosAssumption, FS_Subset, FS_CardinalityType
  <2> QED BY <1>2, <2>1 DEF Count, Goes, Table
<1>3. ASSUME NEW u \in Photos, InsertRow(u) PROVE TypeOK'
  BY <1>3 DEF InsertRow, Goes
<1>4. ASSUME NEW u \in Photos,
             \/ SaveOrig(u) \/ SaveThumb(u) \/ Undo(u) \/ InsertClashes(u) \/ Clean(u) \/ Cleaner(u)
      PROVE  TypeOK'
  BY <1>4 DEF SaveOrig, SaveThumb, Undo, InsertClashes, Clean, Cleaner, Goes, Table
<1>5. ASSUME NEW u \in Photos, ThumbFails(u) \/ CommitFails(u) \/ UploadEnds(u) PROVE TypeOK'
  BY <1>5, PhotosAssumption DEF ThumbFails, CommitFails, UploadEnds, Goes, Table, Fault
<1>6. ASSUME NEW u \in Photos, Delete(u) PROVE TypeOK'
  <2>1. CASE DeleteRow(u)
    BY <2>1 DEF DeleteRow
  <2>2. CASE DeleteOrig(u) \/ DeleteThumb(u)
    BY <2>2 DEF DeleteOrig, DeleteThumb, Table
  <2>3. CASE DeleteEnds(u)
    BY <2>3, PhotosAssumption DEF DeleteEnds, Table, Fault
  <2> QED BY <1>6, <2>1, <2>2, <2>3 DEF Delete
<1>7. CASE CountForPublish \/ Publish
  BY <1>7 DEF CountForPublish, Publish, Table
<1> QED BY <1>1, <1>2, <1>3, <1>4, <1>5, <1>6, <1>7 DEF Next, Upload

-----------------------------------------------------------------------------
(* The storage while nothing fails. *)

(* Which files of a photo are there: those its upload has saved and not taken *)
(* back, and those its removal has still to delete.                           *)
StoreSound(u) ==
  /\ up[u] # "undo"
  /\ u \in orig <=> \/ up[u] \in {"orig", "saved", "clean"}
                    \/ up[u] = "over" /\ (u \in rows \/ del[u] = "orig")
  /\ u \in thumb <=> \/ up[u] \in {"saved", "clean", "cleaner"}
                     \/ up[u] = "over" /\ (u \in rows \/ del[u] \in {"orig", "thumb"})

StoreInv == faults \in Nat /\ (faults = 0 => \A u \in Photos : StoreSound(u))

LEMMA StoreStep == FilesInv /\ StoreInv /\ [Next]_vars => StoreInv'
<1> SUFFICES ASSUME FilesInv, StoreInv, [Next]_vars PROVE StoreInv'
  OBVIOUS
<1>1. ASSUME Fault PROVE StoreInv'
  BY <1>1 DEF Fault, StoreInv
<1>2. ASSUME UNCHANGED faults,
             \A u \in Photos : StoreSound(u) => StoreSound(u)'
      PROVE  StoreInv'
  BY <1>2 DEF StoreInv
<1>3. CASE UNCHANGED vars \/ CountForPublish \/ Publish
  BY <1>2, <1>3 DEF vars, CountForPublish, Publish, Table, StoreSound
<1>4. ASSUME NEW u \in Photos, Upload(u) PROVE StoreInv'
  <2> USE DEF FilesInv, Ups, Dels, PhotoSound, StoreSound
  <2>1. CASE Count(u)
    BY <1>2, <2>1 DEF Count, Goes, Table
  <2>2. CASE SaveOrig(u)
    BY <1>2, <2>2 DEF SaveOrig, Goes, Table
  <2>3. CASE SaveThumb(u)
    BY <1>2, <2>3 DEF SaveThumb, Goes, Table
  <2>4. CASE ThumbFails(u) \/ CommitFails(u) \/ UploadEnds(u)
    BY <1>1, <2>4 DEF ThumbFails, CommitFails, UploadEnds
  <2>5. CASE Undo(u)
    BY <1>2, <2>5 DEF Undo, Goes, Table
  <2>6. CASE InsertRow(u)
    BY <1>2, <2>6 DEF InsertRow, Goes
  <2>7. CASE InsertClashes(u)
    BY <1>2, <2>7 DEF InsertClashes, Goes, Table
  <2>8. CASE Clean(u)
    BY <1>2, <2>8 DEF Clean, Goes, Table
  <2>9. CASE Cleaner(u)
    BY <1>2, <2>9 DEF Cleaner, Goes, Table
  <2> QED BY <1>4, <2>1, <2>2, <2>3, <2>4, <2>5, <2>6, <2>7, <2>8, <2>9 DEF Upload
<1>5. ASSUME NEW u \in Photos, Delete(u) PROVE StoreInv'
  <2> USE DEF FilesInv, Ups, Dels, PhotoSound, StoreSound
  <2>1. CASE DeleteRow(u)
    BY <1>2, <2>1 DEF DeleteRow
  <2>2. CASE DeleteOrig(u)
    BY <1>2, <2>2 DEF DeleteOrig, Table
  <2>3. CASE DeleteThumb(u)
    BY <1>2, <2>3 DEF DeleteThumb, Table
  <2>4. CASE DeleteEnds(u)
    BY <1>1, <2>4 DEF DeleteEnds
  <2> QED BY <1>5, <2>1, <2>2, <2>3, <2>4 DEF Delete
<1> QED BY <1>3, <1>4, <1>5 DEF Next

LEMMA Storage == Spec => [](TypeOK /\ FilesInv /\ StoreInv)
<1>1. Init => TypeOK /\ FilesInv /\ StoreInv
  <2>1. Cardinality(Photos) \in Nat
    BY PhotosAssumption, FS_CardinalityType
  <2>2. Init => TypeOK
    <3>1. 0 \in 0..Cardinality(Photos) /\ 0 \in 0..MaxFaults
      BY <2>1, PhotosAssumption
    <3> QED BY <3>1 DEF Init, TypeOK
  <2>3. Init => FilesInv
    BY DEF Init, FilesInv, PhotoSound, Ups, Dels
  <2>4. Init => StoreInv
    BY DEF Init, StoreInv, StoreSound
  <2> QED BY <2>2, <2>3, <2>4
<1> QED BY <1>1, TypeStep, FilesStep, StoreStep, PTL DEF Spec

-----------------------------------------------------------------------------
(* The rows, the two kinds of files and the steps of the requests are what the *)
(* code makes of them, for any number of photos.                               *)
THEOREM ImagesTyped == Spec => []TypeOK
BY Storage, PTL

(* The index refuses the main photo of an upload that lost the race, and its   *)
(* files are taken away again; a removal takes both files of its row: when no  *)
(* request is under way and nothing failed, the storage holds no file of a     *)
(* photo that is not listed (upload_listing_image, delete_listing_image).      *)
THEOREM NoOrphansAlways == Spec => []NoOrphans
<1>1. TypeOK /\ FilesInv /\ StoreInv => NoOrphans
  <2> SUFFICES ASSUME TypeOK, FilesInv, StoreInv, faults = 0, Quiet PROVE orig = rows /\ thumb = rows
    BY DEF NoOrphans
  <2>1. ASSUME NEW u \in Photos PROVE (u \in orig <=> u \in rows) /\ (u \in thumb <=> u \in rows)
    BY DEF FilesInv, PhotoSound, StoreInv, StoreSound, Quiet
  <2> QED BY <2>1 DEF TypeOK
<1> QED BY <1>1, Storage, PTL

(* A listed photo has its picture and its thumbnail, whatever fails and in *)
(* whatever order the requests run (upload_listing_image,                  *)
(* validate_and_save, delete_listing_image).                               *)
THEOREM RowsHaveFiles == Spec => []RowHasFiles
<1>1. FilesInv => RowHasFiles
  BY DEF FilesInv, PhotoSound, RowHasFiles
<1> QED BY <1>1, Storage, PTL

-----------------------------------------------------------------------------
(* The main photo. *)

(* Whoever counted a photo counted one that is still there, the first of all *)
(* took the flag, and the index keeps it from a second.                      *)
MainInv ==
  /\ up \in [Photos -> Ups]
  /\ seen \in [Photos -> Nat]
  /\ rows \subseteq Photos
  /\ \A u \in Photos : (up[u] # "new" /\ seen[u] # 0) => rows # {}
  /\ rows # {} => \E u \in Photos : primary = {u}
  /\ rows = {} => primary = {}

LEMMA MainStep == MainInv /\ [Next /\ rows \subseteq rows']_vars => MainInv'
<1> SUFFICES ASSUME MainInv, [Next /\ rows \subseteq rows']_vars PROVE MainInv'
  OBVIOUS
<1> USE DEF MainInv, Ups
<1>1. CASE UNCHANGED vars
  BY <1>1 DEF vars, Table
<1>2. ASSUME NEW u \in Photos, Count(u) PROVE MainInv'
  <2>1. Cardinality(rows) \in Nat /\ (rows = {} => Cardinality(rows) = 0)
    BY PhotosAssumption, FS_Subset, FS_CardinalityType, FS_EmptySet
  <2> QED BY <1>2, <2>1 DEF Count, Goes, Table
<1>3. ASSUME NEW u \in Photos, InsertRow(u) PROVE MainInv'
  <2>1. CASE seen[u] = 0
    <3>1. primary = {} /\ rows = {}
      BY <1>3, <2>1 DEF InsertRow, Clashes, IsPrimary
    <3>2. primary' = {u} /\ rows' = {u}
      BY <1>3, <2>1, <3>1 DEF InsertRow, IsPrimary
    <3>3. up' \in [Photos -> Ups] /\ seen' = seen
      BY <1>3 DEF InsertRow, Goes
    <3> QED BY <3>2, <3>3
  <2>2. CASE seen[u] # 0
    <3>1. rows # {}
      BY <1>3, <2>2 DEF InsertRow, Goes
    <3>2. primary' = primary /\ rows' = rows \cup {u}
      BY <1>3, <2>2 DEF InsertRow, IsPrimary
    <3>3. up' \in [Photos -> Ups] /\ seen' = seen
      BY <1>3 DEF InsertRow, Goes
    <3>4. rows' # {} /\ rows' \subseteq Photos
      BY <3>1, <3>2
    <3> QED BY <3>1, <3>2, <3>3, <3>4
  <2> QED BY <2>1, <2>2
<1>4. ASSUME NEW u \in Photos, UNCHANGED <<rows, primary, seen>>,
             \/ up' = up
             \/ up[u] # "new" /\ \E to \in Ups : up' = [up EXCEPT ![u] = to]
      PROVE MainInv'
  <2>1. \A x \in Photos : up'[x] # "new" => (up[x] # "new" \/ up' = up)
    BY <1>4
  <2> QED BY <1>4, <2>1
<1>5. ASSUME NEW u \in Photos, Upload(u) PROVE MainInv'
  <2>1. CASE \/ SaveOrig(u) \/ SaveThumb(u) \/ ThumbFails(u) \/ Undo(u) \/ InsertClashes(u)
             \/ CommitFails(u) \/ Clean(u) \/ Cleaner(u) \/ UploadEnds(u)
    BY <1>4, <2>1
    DEF SaveOrig, SaveThumb, ThumbFails, Undo, InsertClashes, CommitFails, Clean, Cleaner,
        UploadEnds, Goes, Table
  <2> QED BY <1>2, <1>3, <1>5, <2>1 DEF Upload
<1>6. ASSUME NEW u \in Photos, Delete(u), rows \subseteq rows' PROVE MainInv'
  <2>1. ~DeleteRow(u)
    BY <1>6 DEF DeleteRow
  <2> QED BY <1>4, <1>6, <2>1 DEF Delete, DeleteOrig, DeleteThumb, DeleteEnds, Table
<1>7. CASE CountForPublish \/ Publish
  BY <1>7 DEF CountForPublish, Publish, Table
<1> QED BY <1>1, <1>5, <1>6, <1>7 DEF Next

(* Photos that are only added have one main photo among them, however their *)
(* uploads overlap and fail (is_primary of upload_listing_image).           *)
THEOREM OneMainAlways == Growing => []OneMain
<1>1. Init => MainInv
  BY DEF Init, MainInv, Ups
<1>2. MainInv => OneMain
  BY FS_Singleton DEF MainInv, OneMain
<1> QED BY <1>1, <1>2, MainStep, PTL DEF Growing

(* In a behaviour of the instances that are checked, too: the choice to only   *)
(* add photos is made at its beginning.                                        *)
THEOREM GrownAlwaysHasOneMain == MCSpec => []GrownHasOneMain
<1>1. MCInit => (growing => MainInv)
  BY DEF MCInit, Init, MainInv, Ups
<1>2. (growing => MainInv) /\ [MCNext]_<<vars, growing>> => (growing => MainInv)'
  BY MainStep DEF MCNext
<1>3. (growing => MainInv) => GrownHasOneMain
  BY FS_Singleton DEF MainInv, OneMain, GrownHasOneMain
<1> QED BY <1>1, <1>2, <1>3, PTL DEF MCSpec
=============================================================================
