--------------------------- MODULE ListingImages ---------------------------
(***************************************************************************)
(* The photographs of one listing: a row in listing_images, a picture and  *)
(* a thumbnail in the storage, written and removed one after the other by  *)
(* requests that overlap (services/images/image_service.py and             *)
(* api/routes/listings.py), among publications that count them.            *)
(***************************************************************************)
EXTENDS Naturals, FiniteSets

CONSTANTS
  Photos,   \* uploads, each with a name of its own (uuid4)
  MaxFaults \* storage and database errors and crashes in a run

ASSUME PhotosAssumption == IsFiniteSet(Photos) /\ MaxFaults \in Nat

VARIABLES
  up,        \* what the upload of each photo is at
  seen,      \* how many rows it counted
  del,       \* what the removal of each photo is at
  rows,      \* the photos with a row
  primary,   \* those whose row is_primary
  orig,      \* pictures in the storage
  thumb,     \* thumbnails in the storage
  pub,       \* a publication has counted a photo and not committed yet
  published, \* the listing is out of the drafts
  faults

vars == <<up, seen, del, rows, primary, orig, thumb, pub, published, faults>>

TypeOK ==
  /\ up \in [Photos -> {"new", "counted", "orig", "saved", "undo", "clean", "cleaner", "over"}]
  /\ seen \in [Photos -> 0..Cardinality(Photos)]
  /\ del \in [Photos -> {"none", "orig", "thumb"}]
  /\ primary \subseteq rows /\ rows \subseteq Photos
  /\ orig \subseteq Photos /\ thumb \subseteq Photos
  /\ pub \in BOOLEAN /\ published \in BOOLEAN
  /\ faults \in 0..MaxFaults

Init ==
  /\ up = [u \in Photos |-> "new"] /\ seen = [u \in Photos |-> 0]
  /\ del = [u \in Photos |-> "none"]
  /\ rows = {} /\ primary = {} /\ orig = {} /\ thumb = {}
  /\ pub = FALSE /\ published = FALSE /\ faults = 0

Fault == faults < MaxFaults /\ faults' = faults + 1
Table == <<rows, primary>>
Goes(u, from, to) == up[u] = from /\ up' = [up EXCEPT ![u] = to]

-----------------------------------------------------------------------------
(* upload_listing_image. *)

Count(u) ==
  /\ Goes(u, "new", "counted")
  /\ seen' = [seen EXCEPT ![u] = Cardinality(rows)]
  /\ UNCHANGED <<del, Table, orig, thumb, pub, published, faults>>

SaveOrig(u) ==
  /\ Goes(u, "counted", "orig")
  /\ orig' = orig \cup {u}
  /\ UNCHANGED <<seen, del, Table, thumb, pub, published, faults>>

SaveThumb(u) ==
  /\ Goes(u, "orig", "saved")
  /\ thumb' = thumb \cup {u}
  /\ UNCHANGED <<seen, del, Table, orig, pub, published, faults>>

\* The thumbnail is refused: the picture is taken back.
ThumbFails(u) ==
  /\ Fault /\ Goes(u, "orig", "undo")
  /\ UNCHANGED <<seen, del, Table, orig, thumb, pub, published>>

Undo(u) ==
  /\ Goes(u, "undo", "over")
  /\ orig' = orig \ {u}
  /\ UNCHANGED <<seen, del, Table, thumb, pub, published, faults>>

IsPrimaryBug(u) == seen[u] = 1
IsPrimary(u) == seen[u] = 0

\* The index uniq_primary_image refuses a second one.
Clashes(u) == IsPrimary(u) /\ primary # {}

InsertRow(u) ==
  /\ ~Clashes(u) /\ Goes(u, "saved", "over")
  /\ rows' = rows \cup {u}
  /\ primary' = IF IsPrimary(u) THEN primary \cup {u} ELSE primary
  /\ UNCHANGED <<seen, del, orig, thumb, pub, published, faults>>

InsertClashes(u) ==
  /\ Clashes(u) /\ Goes(u, "saved", "clean")
  /\ UNCHANGED <<seen, del, Table, orig, thumb, pub, published, faults>>

\* A commit that raises is one that did not happen.
CommitFails(u) ==
  /\ Fault /\ Goes(u, "saved", "clean")
  /\ UNCHANGED <<seen, del, Table, orig, thumb, pub, published>>

\* delete_image_files, after a row that was refused.
Clean(u) ==
  /\ Goes(u, "clean", "cleaner")
  /\ orig' = orig \ {u}
  /\ UNCHANGED <<seen, del, Table, thumb, pub, published, faults>>

CleanerBug(u) ==
  /\ Goes(u, "cleaner", "over")
  /\ UNCHANGED <<seen, del, Table, orig, thumb, pub, published, faults>>
Cleaner(u) ==
  /\ Goes(u, "cleaner", "over")
  /\ thumb' = thumb \ {u}
  /\ UNCHANGED <<seen, del, Table, orig, pub, published, faults>>

\* The process ends, or the storage does not answer: what was begun is left.
UploadEnds(u) ==
  /\ Fault
  /\ up[u] \notin {"new", "over"}
  /\ up' = [up EXCEPT ![u] = "over"]
  /\ UNCHANGED <<seen, del, Table, orig, thumb, pub, published>>

-----------------------------------------------------------------------------
(* delete_listing_image: the row is gone before its files. *)

DeleteRowBug(u) ==
  /\ u \in rows /\ del[u] = "none"
  /\ orig' = orig \ {u} /\ thumb' = thumb \ {u}
  /\ del' = [del EXCEPT ![u] = "orig"]
  /\ UNCHANGED <<up, seen, Table, pub, published, faults>>
DeleteRowOnly(u) ==
  /\ u \in rows /\ del[u] = "none"
  /\ rows' = rows \ {u}
  /\ del' = [del EXCEPT ![u] = "orig"]
  /\ UNCHANGED <<up, seen, primary, orig, thumb, pub, published, faults>>
DeleteRow(u) ==
  /\ u \in rows /\ del[u] = "none"
  /\ rows' = rows \ {u} /\ primary' = primary \ {u}
  /\ del' = [del EXCEPT ![u] = "orig"]
  /\ UNCHANGED <<up, seen, orig, thumb, pub, published, faults>>

DeleteOrig(u) ==
  /\ del[u] = "orig"
  /\ orig' = orig \ {u}
  /\ del' = [del EXCEPT ![u] = "thumb"]
  /\ UNCHANGED <<up, seen, Table, thumb, pub, published, faults>>

DeleteThumb(u) ==
  /\ del[u] = "thumb"
  /\ thumb' = thumb \ {u}
  /\ del' = [del EXCEPT ![u] = "none"]
  /\ UNCHANGED <<up, seen, Table, orig, pub, published, faults>>

DeleteEnds(u) ==
  /\ Fault
  /\ del[u] # "none"
  /\ del' = [del EXCEPT ![u] = "none"]
  /\ UNCHANGED <<up, seen, Table, orig, thumb, pub, published>>

-----------------------------------------------------------------------------
(* publish_listing: a count, then a commit. *)

CountForPublish ==
  /\ ~pub /\ ~published /\ rows # {}
  /\ pub' = TRUE
  /\ UNCHANGED <<up, seen, del, Table, orig, thumb, published, faults>>

Publish ==
  /\ pub
  /\ pub' = FALSE /\ published' = TRUE
  /\ UNCHANGED <<up, seen, del, Table, orig, thumb, faults>>

Upload(u) ==
  \/ Count(u) \/ SaveOrig(u) \/ SaveThumb(u) \/ ThumbFails(u) \/ Undo(u)
  \/ InsertRow(u) \/ InsertClashes(u) \/ CommitFails(u) \/ Clean(u) \/ Cleaner(u)
  \/ UploadEnds(u)

Delete(u) == DeleteRow(u) \/ DeleteOrig(u) \/ DeleteThumb(u) \/ DeleteEnds(u)

Next ==
  \/ \E u \in Photos : Upload(u) \/ Delete(u)
  \/ CountForPublish
  \/ Publish

Spec == Init /\ [][Next]_vars

\* Photos are only added.
Growing == Init /\ [][Next /\ rows \subseteq rows']_vars

-----------------------------------------------------------------------------
(* Properties. *)

(* A photo that is listed has its picture and its thumbnail, whatever fails  *)
(* and however requests interleave (files are saved before the row is        *)
(* committed and removed after it is gone).                                  *)
RowHasFiles == rows \subseteq orig \cap thumb

(* When nothing failed and no request is under way, the storage holds the    *)
(* files of the listed photos and no others: an upload that lost the race    *)
(* for the primary photo cleans up (except of upload_listing_image).         *)
Quiet == \A u \in Photos : up[u] \in {"new", "over"} /\ del[u] = "none"
NoOrphans == (faults = 0 /\ Quiet) => (orig = rows /\ thumb = rows)

(* While photos are only added one of them is the main one, though uploads   *)
(* decide it by a count they read long before (is_primary=existing == 0).    *)
OneMain == rows # {} => Cardinality(primary) = 1

-----------------------------------------------------------------------------
(* What the code, its texts or its tests say and a behaviour refutes: see the README.            *)

(* A listing that was published has a photo (validate_publish).                                  *)
PublishedHasImage == published => rows # {}
=============================================================================
