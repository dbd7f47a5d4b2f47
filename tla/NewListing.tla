----------------------------- MODULE NewListing -----------------------------
(***************************************************************************)
(* CreateListingPage for a new listing: three steps of a form and its       *)
(* handleSubmit, a chain of requests that creates the listing, uploads its  *)
(* photos one by one, creates its viewing windows at once and publishes it. *)
(* A chain goes on after its page was left; a page opened later has its own.*)
(***************************************************************************)
EXTENDS Naturals, Sequences, FiniteSets

CONSTANTS
  MaxPhotos,    \* how many photos a form keeps
  MaxWindows,   \* how many windows the chosen days make
  MaxListings,  \* bound on the submissions
  Acts          \* "leave": the page is left; "lost": requests or answers are lost; "refused"

VARIABLES
  row,    \* row[n]: the n-th listing: status, viewing_enabled, its photos and windows
  form,   \* the page
  chain,  \* chain[s]: the s-th handleSubmit: the request it waits for and what it said
  sent    \* history: sent[s]: the form it submitted

vars == <<row, form, chain, sent>>

Steps == 0..2
Details == {"car", "data"}
\* days: how many windows the chosen days make
Blank == [step |-> 0, given |-> {}, photos |-> 0, days |-> 0]
Opened == [fields |-> Blank, open |-> TRUE, submitting |-> FALSE]

Init ==
  /\ row = <<>>
  /\ form = Opened
  /\ chain = <<>>
  /\ sent = <<>>

\* What the user does is done on an open page.
Using == form.open
Set(fields) == form' = [form EXCEPT !.fields = fields] /\ UNCHANGED <<row, chain, sent>>

\* The car is chosen in the first step (CarChoice) and may be changed there, which forgets it
\* until a modification is chosen again; the rest is filled in, or emptied, in the second.
Field(s) == IF s = 0 THEN "car" ELSE "data"
edit ==
  LET f == form.fields
      x == Field(f.step)
  IN Using /\ f.step < 2 /\ Set([f EXCEPT !.given = IF x \in @ THEN @ \ {x} ELSE @ \cup {x}])

toggleDay(n) ==
  Using /\ form.fields.step = 1 /\ n # form.fields.days /\ Set([form.fields EXCEPT !.days = n])

\* canGoNext0, canGoNext1
next ==
  LET f == form.fields
  IN Using /\ f.step < 2 /\ Field(f.step) \in f.given /\ Set([f EXCEPT !.step = @ + 1])
back == Using /\ form.fields.step > 0 /\ Set([form.fields EXCEPT !.step = @ - 1])

Kept(n) == IF n <= MaxPhotos THEN n ELSE MaxPhotos
handleImageAdd(n) ==
  LET f == form.fields
  IN Using /\ f.step = 2 /\ Set([f EXCEPT !.photos = Kept(@ + n)])
handleImageRemove ==
  LET f == form.fields
  IN Using /\ f.step = 2 /\ f.photos > 0 /\ Set([f EXCEPT !.photos = @ - 1])

\* The page is left, its chain goes on; another is opened.
Left == [s \in DOMAIN chain |-> [chain[s] EXCEPT !.here = FALSE]]
leave ==
  /\ "leave" \in Acts /\ Using
  /\ form' = [form EXCEPT !.open = FALSE]
  /\ chain' = Left
  /\ UNCHANGED <<row, sent>>
open ==
  /\ "leave" \in Acts /\ ~form.open
  /\ form' = Opened
  /\ UNCHANGED <<row, chain, sent>>

\* The submit button waits while the chain goes on.
Free == ~form.submitting
handleSubmit ==
  LET f == form.fields
  IN /\ Using /\ f.step = 2 /\ f.given = Details /\ Free /\ Len(chain) < MaxListings
     /\ form' = [form EXCEPT !.submitting = TRUE]
     /\ chain' = Append(chain, [at |-> "create", step |-> "sent", l |-> 0, left |-> 1,
                                said |-> {}, here |-> TRUE])
     /\ sent' = Append(sent, f)
     /\ UNCHANGED row

\* The request a chain goes on to, past those it has nothing for.
After(at, s) ==
  IF at = "create" /\ sent[s].photos > 0 THEN [at |-> "upload", left |-> sent[s].photos]
  ELSE IF at \in {"create", "upload"} /\ sent[s].days > 0 THEN [at |-> "windows", left |-> sent[s].days]
  ELSE [at |-> "publish", left |-> 1]
GoOn(s, r) ==
  LET n == After(r.at, s)
  IN chain' = [chain EXCEPT ![s] = [r EXCEPT !.at = n.at, !.left = n.left, !.step = "sent"]]

\* The chain ends: after an error the form is there to be sent again, else the profile is
\* drawn, whichever page is open by then.
Ends(s, said) ==
  LET Done(c) == [c EXCEPT ![s].at = "done", ![s].said = @ \cup {said}]
  IN IF said = "error"
     THEN chain' = Done(chain) /\ form' = [form EXCEPT !.submitting = @ /\ ~chain[s].here]
     ELSE chain' = Done(Left) /\ form' = [form EXCEPT !.open = FALSE]

created(s) ==
  LET r == chain[s]
  IN /\ r.at = "create" /\ r.step # "sent"
     /\ IF r.step = "failed" THEN Ends(s, "error") ELSE GoOn(s, r) /\ UNCHANGED form
     /\ UNCHANGED <<row, sent>>

\* One photo after another, up to the first that fails.
ToldBug(r) == [r EXCEPT !.left = 0]
Told(r) == [r EXCEPT !.left = 0, !.said = @ \cup {"photos"}]
uploaded(s) ==
  LET r == chain[s]
  IN /\ r.at = "upload" /\ r.step # "sent"
     /\ IF r.step = "ok" /\ r.left > 1
        THEN chain' = [chain EXCEPT ![s].left = @ - 1, ![s].step = "sent"]
        ELSE GoOn(s, IF r.step = "ok" THEN r ELSE Told(r))
     /\ UNCHANGED <<row, form, sent>>

\* All windows were answered, whatever the answers.
windowsSaved(s) ==
  /\ chain[s].at = "windows" /\ chain[s].left = 0
  /\ GoOn(s, chain[s])
  /\ UNCHANGED <<row, form, sent>>

Says(r) == IF r.step = "ok" THEN "published" ELSE "drafts"
published(s) ==
  LET r == chain[s]
  IN /\ r.at = "publish" /\ r.step # "sent"
     /\ Ends(s, Says(r))
     /\ UNCHANGED <<row, sent>>

-----------------------------------------------------------------------------
Waits(s, at) == chain[s].at = at /\ chain[s].step = "sent" /\ chain[s].left > 0
Answer(s, step) == chain' = [chain EXCEPT ![s].step = step]

create_listing(s) ==
  /\ Waits(s, "create")
  /\ row' = Append(row, [status |-> "draft", viewing |-> sent[s].days > 0, photos |-> 0, windows |-> 0])
  /\ chain' = [chain EXCEPT ![s].step = "ok", ![s].l = Len(row) + 1]
  /\ UNCHANGED <<form, sent>>

upload_listing_image(s) ==
  /\ Waits(s, "upload")
  /\ row' = [row EXCEPT ![chain[s].l].photos = @ + 1]
  /\ Answer(s, "ok")
  /\ UNCHANGED <<form, sent>>

\* A window is created and answered, or one of the two is lost.
add_viewing_window(s) ==
  /\ Waits(s, "windows")
  /\ row' = [row EXCEPT ![chain[s].l].windows = @ + 1]
  /\ chain' = [chain EXCEPT ![s].left = @ - 1]
  /\ UNCHANGED <<form, sent>>
NoWindow(s) ==
  /\ "lost" \in Acts /\ Waits(s, "windows")
  /\ chain' = [chain EXCEPT ![s].left = @ - 1]
  /\ UNCHANGED <<row, form, sent>>

Valid(l) == l.photos > 0 /\ (l.viewing => l.windows > 0)
publish_listing(s) ==
  LET l == chain[s].l
  IN /\ Waits(s, "publish")
     /\ IF Valid(row[l]) THEN Answer(s, "ok") /\ row' = [row EXCEPT ![l].status = "pending_review"]
        ELSE Answer(s, "failed") /\ UNCHANGED row
     /\ UNCHANGED <<form, sent>>

\* The request or its answer is lost, or it is refused: too many listings, a year outside
\* the generation's, a file that is no photo.
Fails(s) ==
  /\ chain[s].at \in {"create", "upload", "publish"}
  /\ \/ "lost" \in Acts /\ chain[s].step \in {"sent", "ok"}
     \/ "refused" \in Acts /\ chain[s].at # "publish" /\ chain[s].step = "sent"
  /\ Answer(s, "failed")
  /\ UNCHANGED <<row, form, sent>>

Serve(s) == create_listing(s) \/ upload_listing_image(s) \/ add_viewing_window(s) \/ publish_listing(s)
Hear(s) == created(s) \/ uploaded(s) \/ windowsSaved(s) \/ published(s)

Next ==
  \/ edit \/ next \/ back \/ handleImageRemove \/ leave \/ open \/ handleSubmit
  \/ \E n \in 0..MaxWindows : toggleDay(n)
  \/ \E n \in 1..MaxPhotos : handleImageAdd(n)
  \/ \E s \in DOMAIN chain : Serve(s) \/ Hear(s) \/ NoWindow(s) \/ Fails(s)

Spec == Init /\ [][Next]_vars

-----------------------------------------------------------------------------
\* A form keeps up to MaxPhotos photos, and while its button waits its chain goes on.
TypeOK ==
  /\ form.fields.photos \in 0..MaxPhotos /\ form.fields.days \in 0..MaxWindows
  /\ form.fields.step \in Steps /\ form.fields.given \subseteq Details
  /\ form.open /\ form.submitting => \E s \in DOMAIN chain : chain[s].here /\ chain[s].at # "done"
  /\ \A s \in DOMAIN chain : chain[s].l \in 0..Len(row)

\* What the page said is submitted for review is, with a photo, and with a window where
\* viewings are offered.
SubmittedIsComplete ==
  \A s \in DOMAIN chain : "published" \in chain[s].said =>
    LET l == row[chain[s].l] IN l.status = "pending_review" /\ l.photos > 0 /\ (l.viewing => l.windows > 0)

\* A chain that ended without a word about the photos left all that were chosen.
PhotosOrTold ==
  \A s \in DOMAIN chain : chain[s].at = "done" /\ {"error", "photos"} \cap chain[s].said = {} =>
    row[chain[s].l].photos = sent[s].photos

-----------------------------------------------------------------------------
\* What the code, its texts or its tests say and a behaviour refutes: see the README.

\* A listing the page said is saved to drafts is a draft.
SavedToDrafts ==
  \A s \in DOMAIN chain : "drafts" \in chain[s].said => row[chain[s].l].status = "draft"

\* A listing whose photos the page said could not be uploaded has none.
PhotosNotUploaded ==
  \A s \in DOMAIN chain : "photos" \in chain[s].said => row[chain[s].l].photos = 0

\* An error in creating the listing means there is none.
ErrorMeansNone == \A s \in DOMAIN chain : "error" \in chain[s].said => chain[s].l = 0
=============================================================================
