---------------------------- MODULE AdminCarForm ----------------------------
(***************************************************************************)
(* The form of CarsTab in AdminPage, for a new listing or over a row of the *)
(* list: openEdit draws it at once with what the row has and fills in the   *)
(* details when they come, handleSave sends it.  The VIN and the            *)
(* description stand for the fields of the details, a value being known by  *)
(* the listing it is of.                                                    *)
(***************************************************************************)
EXTENDS Naturals, FiniteSets

CONSTANTS
  Listings, Calls,
  Acts    \* "create", "write", "files", "condition": what the admin does; "masked", "fail"

VARIABLES
  row,      \* row[l]: vin, description, condition and whether it has the new photos
  created,  \* the descriptions of the listings made here
  tab,      \* the form
  call,     \* call[c]: the details that openEdit waits for
  save,     \* the requests of handleSave
  mixed     \* history: a form opened while the details for another were on their way

vars == <<row, created, tab, call, save, mixed>>

None == "none"
Typed == "typed"
Of(l) == [of |-> l, masked |-> FALSE]
Masked(l) == [of |-> l, masked |-> TRUE]
Empty == Of(None)
NoCall == [l |-> None, step |-> "idle", vin |-> Empty]
NoSave == [l |-> None, step |-> "idle", vin |-> Empty, description |-> Empty,
           condition |-> FALSE, files |-> FALSE]
Closed == [open |-> FALSE, l |-> None, vin |-> Empty, description |-> Empty, condition |-> FALSE,
           files |-> FALSE, loading |-> FALSE, saving |-> FALSE, said |-> None]

Init ==
  /\ row = [l \in Listings |-> [vin |-> Of(l), description |-> Of(l), condition |-> FALSE, photos |-> FALSE]]
  /\ created = {}
  /\ tab = Closed
  /\ call = [c \in Calls |-> NoCall]
  /\ save = NoSave
  /\ mixed = FALSE

Asked == {c \in Calls : call[c] # NoCall}

\* A form covers the list; a row has no VIN and no description.
Opens(l) == [Closed EXCEPT !.open = TRUE, !.l = l, !.loading = IF l = None THEN tab.loading ELSE TRUE,
                           !.condition = l # None /\ tab.condition, !.saving = tab.saving]
openCreate ==
  /\ "create" \in Acts /\ ~tab.open
  /\ tab' = Opens(None)
  /\ mixed' = (mixed \/ Asked # {})
  /\ UNCHANGED <<row, created, call, save>>
openEdit(c, l) ==
  /\ ~tab.open /\ call[c] = NoCall
  /\ tab' = Opens(l)
  /\ call' = [call EXCEPT ![c] = [NoCall EXCEPT !.l = l, !.step = "sent"]]
  /\ mixed' = (mixed \/ Asked # {})
  /\ UNCHANGED <<row, created, save>>

\* The next form opened has none of the fields but the condition.
Shut(t) == [Closed EXCEPT !.condition = t.condition, !.loading = t.loading, !.saving = t.saving, !.said = t.said]
onClose ==
  /\ tab.open
  /\ tab' = Shut(tab)
  /\ UNCHANGED <<row, created, call, save, mixed>>

\* The details go into the form that is there by then.
Fill(t, r) == IF t.open THEN [t EXCEPT !.vin = r.vin, !.description = Of(r.l), !.condition = FALSE]
              ELSE [t EXCEPT !.condition = FALSE]
Filled(r) == [Fill(tab, r) EXCEPT !.loading = FALSE]
detailed(c) ==
  LET r == call[c]
  IN /\ r.step \in {"ok", "failed"}
     /\ tab' = IF r.step = "ok" THEN Filled(r) ELSE [tab EXCEPT !.loading = FALSE]
     /\ call' = [call EXCEPT ![c] = NoCall]
     /\ UNCHANGED <<row, created, save, mixed>>

Set(act, form) ==
  /\ act \in Acts /\ tab.open
  /\ tab' = form
  /\ UNCHANGED <<row, created, call, save, mixed>>
setVin(v) == tab.l # None /\ Set("write", [tab EXCEPT !.vin = v])
setDescription(v) == Set("write", [tab EXCEPT !.description = v])
setCondition == Set("condition", [tab EXCEPT !.condition = TRUE])
setFiles(b) == Set("files", [tab EXCEPT !.files = b])

Free == ~tab.saving
handleSave ==
  /\ tab.open /\ Free
  /\ tab' = [tab EXCEPT !.saving = TRUE, !.said = None]
  /\ save' = [l |-> tab.l, step |-> "sent", vin |-> tab.vin, description |-> tab.description,
              condition |-> tab.condition, files |-> tab.files]
  /\ UNCHANGED <<row, created, call, mixed>>

\* The end of a save: carDeletedSuccess after an edit, and whatever form is open closes.
Says(r) == IF r.l = None THEN "published" ELSE "Listing deleted"
saved ==
  /\ save.step \in {"photos", "failed"}
  /\ tab' = IF save.step = "failed" THEN [tab EXCEPT !.saving = FALSE, !.said = "error"]
            ELSE [Shut(tab) EXCEPT !.saving = FALSE, !.said = Says(save)]
  /\ save' = [save EXCEPT !.step = "idle", !.vin = Empty, !.description = Empty]
  /\ UNCHANGED <<row, created, call, mixed>>

-----------------------------------------------------------------------------
\* The listing's own details, and the full VIN unless the request for it fails.
get_listing_detail(c) ==
  LET l == call[c].l
  IN /\ call[c].step = "sent"
     /\ \E full \in {TRUE} \cup (IF "masked" \in Acts THEN {FALSE} ELSE {}) :
          call' = [call EXCEPT ![c].step = "ok",
                     ![c].vin = IF full \/ row[l].vin = Empty THEN row[l].vin ELSE Masked(row[l].vin.of)]
     /\ UNCHANGED <<row, created, tab, save, mixed>>

\* A field that is empty is not sent, and the condition never is.
Or(new, old) == IF new = Empty THEN old ELSE new
Patched(r) == [r EXCEPT !.vin = Or(save.vin, @), !.description = Or(save.description, @)]
edit_listing_admin ==
  /\ save.step = "sent" /\ save.l # None
  /\ row' = [row EXCEPT ![save.l] = Patched(@)]
  /\ save' = [save EXCEPT !.step = "patched"]
  /\ UNCHANGED <<created, tab, call, mixed>>

\* The photos are uploaded as a seller's, and the admin is not the seller: none is taken.
upload_listing_image ==
  /\ save.step = "patched"
  /\ save' = [save EXCEPT !.step = "photos"]
  /\ UNCHANGED <<row, created, tab, call, mixed>>

\* The requests that make a listing (NewListing), which has the description of the form.
create_listing ==
  /\ save.step = "sent" /\ save.l = None
  /\ created' = created \cup {save.description}
  /\ save' = [save EXCEPT !.step = "photos"]
  /\ UNCHANGED <<row, tab, call, mixed>>

Fails ==
  /\ "fail" \in Acts
  /\ \/ \E c \in Calls : call[c].step = "sent" /\ call' = [call EXCEPT ![c].step = "failed"] /\ UNCHANGED save
     \/ save.step \in {"sent", "patched"} /\ save' = [save EXCEPT !.step = "failed"] /\ UNCHANGED call
  /\ UNCHANGED <<row, created, tab, mixed>>

Serve == edit_listing_admin \/ upload_listing_image \/ create_listing

Next ==
  \/ \E c \in Calls : get_listing_detail(c) \/ detailed(c) \/ \E l \in Listings : openEdit(c, l)
  \/ Serve \/ openCreate \/ onClose \/ setCondition \/ handleSave \/ saved \/ Fails
  \/ setVin(Of(Typed)) \/ setDescription(Of(Typed))
  \/ \E b \in BOOLEAN : setFiles(b)

Spec == Init /\ [][Next]_vars

-----------------------------------------------------------------------------
Written(l) == {Of(l), Of(Typed)}

\* The spinners have their requests.
TypeOK ==
  /\ tab.loading => Asked # {}
  /\ tab.saving <=> save.step # "idle"
  /\ tab.l \in Listings \cup {None}

\* While one form was opened at a time and no request failed, a listing has its own VIN and
\* description or those the admin wrote, whether or not the details had come when it was saved.
WritesItsOwn ==
  ~mixed => /\ \A l \in Listings : row[l].vin \in Written(l) /\ row[l].description \in Written(l)
            /\ created \subseteq {Empty, Of(Typed)}

-----------------------------------------------------------------------------
\* What the code, its texts or its tests say and a behaviour refutes: see the README.

\* A save writes to the listing its form is of what was entered there, whatever forms are opened.
FormsAreApart == \A l \in Listings : row[l].vin \in Written(l) /\ row[l].description \in Written(l)

\* No listing gets a VIN with its digits masked.
VinIsWhole == \A l \in Listings : ~row[l].vin.masked

\* A listing said to be deleted is gone.
SaidDeletedIsGone == tab.said = "Listing deleted" => save.l \notin Listings

\* A save that succeeded has the condition chosen in the form.
ConditionSaved == tab.said = "Listing deleted" /\ save.condition => row[save.l].condition

\* And the photos chosen in it.
PhotosSaved == tab.said = "Listing deleted" /\ save.files => row[save.l].photos
=============================================================================
