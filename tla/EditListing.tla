---------------------------- MODULE EditListing -----------------------------
(***************************************************************************)
(* CreateListingPage as the edit page of a listing: what it loads, the      *)
(* fields it shows, the requests that delete a photo, and handleSubmit: an  *)
(* update that the rules of apply_edit admit or refuse, then the new photos *)
(* and viewing windows.  One price, plate and car stand for the fields that *)
(* are always editable, editable once and not sent.                         *)
(***************************************************************************)
EXTENDS Naturals, FiniteSets

CONSTANTS
  Photos, Calls,
  Acts    \* "elsewhere": others publish and approve; a field that is changed; "lost"

VARIABLES
  row,    \* the listing
  page,   \* the page: at, its fields, the photos shown, the photo whose button waits
  save,   \* the requests of handleSubmit, one at a time
  call,   \* call[c]: the deletion of a photo
  before  \* history: the listing before the update last answered, and whether one changed the plate

vars == <<row, page, save, call, before>>

None == "none"
Prices == {1, 2}
Plates == {0, 1, 2}   \* 0: no plate
Cars == {1, 2}
NoCall == [photo |-> None, step |-> "idle", here |-> TRUE]
NoSave == [at |-> "none", step |-> "idle", sent |-> [price |-> 1, plate |-> 0, viewing |-> FALSE, files |-> 0]]
Loading == [at |-> "loading", price |-> 1, plate |-> 0, car |-> 1, days |-> FALSE, files |-> 0,
            touched |-> {}, photos |-> {}, deleting |-> None, submitting |-> FALSE,
            said |-> None, failed |-> {}]

Init ==
  /\ row \in [status : {"draft", "active"}, price : {1}, plate : {0, 1}, edits : {0}, vin : {TRUE},
              car : {1}, viewing : BOOLEAN, photos : {Photos}, new : {FALSE}]
  /\ page = Loading
  /\ save = NoSave
  /\ call = [c \in Calls |-> NoCall]
  /\ before = [row |-> row, edited |-> FALSE]

\* The listing and the lists of the form are there, or one of them is not.
load ==
  /\ page.at = "loading"
  /\ page' = [page EXCEPT !.at = "form", !.price = row.price, !.plate = row.plate,
                          !.car = row.car, !.photos = row.photos]
  /\ UNCHANGED <<row, save, call, before>>
errorLoad ==
  /\ page.at = "loading" /\ "lost" \in Acts
  /\ page' = [page EXCEPT !.at = "drafts"]
  /\ UNCHANGED <<row, save, call, before>>

Set(field, p) ==
  /\ page.at = "form"
  /\ page' = [p EXCEPT !.touched = @ \cup {field}]
  /\ UNCHANGED <<row, save, call, before>>
setPrice(v) == "price" \in Acts /\ Set("price", [page EXCEPT !.price = v])
setLicensePlate(v) == "plate" \in Acts /\ Set("plate", [page EXCEPT !.plate = v])
changeCar(v) == "car" \in Acts /\ Set("car", [page EXCEPT !.car = v])
toggleDay == "days" \in Acts /\ Set("days", [page EXCEPT !.days = ~@])
handleImageAdd == "files" \in Acts /\ page.files = 0 /\ Set("files", [page EXCEPT !.files = 1])

\* A photo's button waits while it is the last one pressed.
handleExistingImageDelete(c, p) ==
  /\ page.at = "form" /\ p \in page.photos /\ page.deleting # p /\ call[c] = NoCall
  /\ page' = [page EXCEPT !.deleting = p]
  /\ call' = [call EXCEPT ![c] = [NoCall EXCEPT !.photo = p, !.step = "sent"]]
  /\ UNCHANGED <<row, save, before>>

\* The answer is for the page that asked; a page left by then hears nothing.
deleted(c) ==
  LET r == call[c]
  IN /\ r.step \in {"ok", "failed"}
     /\ page' = IF ~(r.here /\ page.at = "form") THEN page
                ELSE IF r.step = "ok" THEN [page EXCEPT !.deleting = None, !.photos = @ \ {r.photo}]
                ELSE [page EXCEPT !.deleting = None, !.failed = @ \cup {r.photo}]
     /\ call' = [call EXCEPT ![c] = NoCall]
     /\ UNCHANGED <<row, save, before>>

handleSubmit ==
  /\ page.at = "form" /\ ~page.submitting /\ (row.vin \/ page.plate # 0)
  /\ page' = [page EXCEPT !.submitting = TRUE, !.said = None]
  /\ save' = [at |-> "update", step |-> "sent",
              sent |-> [price |-> page.price, plate |-> page.plate, viewing |-> page.days,
                        files |-> page.files]]
  /\ UNCHANGED <<row, call, before>>

\* The next request of the save; after the windows the drafts are drawn.
Step(at) == save' = [save EXCEPT !.at = at, !.step = "sent"]
Ends(said, at) ==
  /\ save' = [save EXCEPT !.at = "none", !.step = "idle"]
  /\ page' = [page EXCEPT !.at = at, !.submitting = FALSE, !.said = said]
updated ==
  /\ save.at = "update" /\ save.step \in {"ok", "plate", "locked", "failed"}
  /\ IF save.step = "ok" THEN Step("upload") /\ UNCHANGED page ELSE Ends(save.step, "form")
  /\ UNCHANGED <<row, call, before>>
uploaded ==
  /\ save.at = "upload" /\ (save.sent.files = 0 \/ save.step \in {"ok", "failed"})
  /\ Step("windows")
  /\ UNCHANGED <<row, page, call, before>>
saved ==
  /\ save.at = "windows"
  /\ Ends("saved", "drafts")
  /\ UNCHANGED <<row, call, before>>

\* The page is left (while it saves: NewListing), and opened again from the drafts.
cancel ==
  /\ page.at = "form" /\ ~page.submitting
  /\ page' = [page EXCEPT !.at = "drafts"]
  /\ UNCHANGED <<row, save, call, before>>
open ==
  /\ page.at = "drafts"
  /\ page' = Loading
  /\ call' = [c \in Calls |-> IF call[c] = NoCall THEN NoCall ELSE [call[c] EXCEPT !.here = FALSE]]
  /\ UNCHANGED <<row, save, before>>

-----------------------------------------------------------------------------
\* apply_edit: fields in the order of the schema, up to the first it refuses.
Refusal ==
  IF save.sent.plate # 0 /\ row.edits > 0 THEN "plate"
  ELSE IF row.status # "draft" THEN "locked" ELSE None
Sets(r, s) == [r EXCEPT !.price = s.price, !.viewing = s.viewing,
                        !.plate = IF s.plate = 0 THEN @ ELSE s.plate,
                        !.edits = IF s.plate = 0 THEN @ ELSE @ + 1]
Refused(r, s) == r
edit_listing ==
  /\ save.at = "update" /\ save.step = "sent"
  /\ save' = [save EXCEPT !.step = IF Refusal = None THEN "ok" ELSE Refusal]
  /\ row' = IF Refusal = None THEN Sets(row, save.sent) ELSE Refused(row, save.sent)
  /\ before' = [row |-> row, edited |-> before.edited \/ row'.plate # row.plate]
  /\ UNCHANGED <<page, call>>

upload_listing_image ==
  /\ save.at = "upload" /\ save.sent.files > 0 /\ save.step = "sent"
  /\ row' = [row EXCEPT !.new = TRUE]
  /\ save' = [save EXCEPT !.step = "ok"]
  /\ UNCHANGED <<page, call, before>>

delete_listing_image(c) ==
  LET p == call[c].photo
  IN /\ call[c].step = "sent"
     /\ row' = [row EXCEPT !.photos = @ \ {p}]
     /\ call' = [call EXCEPT ![c].step = IF p \in row.photos THEN "ok" ELSE "failed"]
     /\ UNCHANGED <<page, save, before>>

\* A request is lost, or its answer.
Lost ==
  /\ "lost" \in Acts /\ save.at \in {"update", "upload"} /\ save.step \in {"sent", "ok"}
  /\ save' = [save EXCEPT !.step = "failed"]
  /\ UNCHANGED <<row, page, call, before>>
LostDeletion(c) ==
  /\ "lost" \in Acts /\ call[c].step \in {"sent", "ok"}
  /\ call' = [call EXCEPT ![c].step = "failed"]
  /\ UNCHANGED <<row, page, save, before>>

\* Another page publishes the draft and a moderator decides.
Elsewhere ==
  /\ "elsewhere" \in Acts
  /\ \E s \in {<<"draft", "pending_review">>, <<"pending_review", "active">>} :
       row.status = s[1] /\ row' = [row EXCEPT !.status = s[2]]
  /\ UNCHANGED <<page, save, call, before>>

Serve == edit_listing \/ upload_listing_image \/ \E c \in Calls : delete_listing_image(c)
Hear == load \/ updated \/ uploaded \/ saved \/ \E c \in Calls : deleted(c)

Next ==
  \/ Serve \/ Hear \/ errorLoad \/ toggleDay \/ handleImageAdd \/ handleSubmit \/ cancel \/ open \/ Lost \/ Elsewhere
  \/ \E v \in Prices : setPrice(v)
  \/ \E v \in Plates : setLicensePlate(v)
  \/ \E v \in Cars : changeCar(v)
  \/ \E c \in Calls : LostDeletion(c) \/ \E p \in Photos : handleExistingImageDelete(c, p)

Spec == Init /\ [][Next]_vars

-----------------------------------------------------------------------------
\* The button waits for a save, and the photo whose button waits for its deletion.
TypeOK ==
  /\ page.photos \subseteq Photos /\ row.edits \in {0, 1}
  /\ page.submitting <=> save.at # "none"
  /\ page.at = "form" /\ page.deleting # None => \E c \in Calls : call[c].photo = page.deleting /\ call[c].here

\* An update is admitted as a whole or not at all: what the page says was saved is in the
\* listing, and after a refusal the listing is as it was before.
AllOrNothing ==
  /\ page.said = "saved" /\ save.at = "none" =>
       row.price = save.sent.price /\ (save.sent.plate # 0 => row.plate = save.sent.plate)
  /\ page.said \in {"plate", "locked"} => row.price = before.row.price /\ row.plate = before.row.plate

\* The page never hides a photo that is there, whichever deletions fail.
HiddenIsDeleted == page.at = "form" => row.photos \subseteq page.photos

-----------------------------------------------------------------------------
\* What the code, its texts or its tests say and a behaviour refutes: see the README.

\* The car the page shows when it says the changes are saved is the listing's.
SavesTheCar == page.said = "saved" => row.car = page.car

\* A save that the days of the viewings were not touched in leaves the viewings on.
KeepsViewings == page.said = "saved" /\ "days" \notin page.touched => row.viewing = before.row.viewing

\* A plate is refused as edited only once when it was edited.
RefusedAfterAnEdit == page.said = "plate" => before.edited

\* A price is editable in every status.
PriceIsEditable == page.said = "locked" => page.touched # {"price"}

\* A photo whose deletion is said to have failed is there.
ErrorMeansThere == page.failed \subseteq row.photos
=============================================================================
