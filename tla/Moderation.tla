----------------------------- MODULE Moderation -----------------------------
(***************************************************************************)
(* OffersTab of AdminPage, where a moderator approves, rejects and revokes  *)
(* listings, with the badge AdminPage draws beside the tab's name, and the  *)
(* moderation routes.  The tab stays open.  A query finds one listing; the  *)
(* seller sends a listing to moderation again and withdraws it in Elsewhere.*)
(***************************************************************************)
EXTENDS Naturals, FiniteSets

CONSTANTS
  Listings, Calls,
  Acts        \* "search", "filter", "elsewhere", "fail": what happens in a run

VARIABLES
  row,      \* row[l]: listings.status, "gone" without a row
  tab,      \* the state of OffersTab, and AdminPage's badge
  call,     \* call[c]: a request of the page
  revoked,  \* history: listings the page said are revoked
  mixed     \* history: a list heard beside another request, or a failure

vars == <<row, tab, call, revoked, mixed>>

None == "none"
Pending == {l \in Listings : row[l] = "pending_review"}
Reviews == {"approved", "rejected", "revoke"}
Filters == {"", "pending", "approved", "rejected"}
NoCall == [kind |-> "idle", step |-> "idle", l |-> None, reason |-> None, filter |-> "", data |-> {}]
NoModal == [op |-> None, l |-> None]
Request(kind) == [NoCall EXCEPT !.kind = kind, !.step = "sent"]

\* AdminPage asks for the count of the badge, OffersTab for its list.
Init ==
  /\ row \in [Listings -> {"pending_review", "active"}]
  /\ tab = [offers |-> {}, resolved |-> {}, found |-> {}, filter |-> "", badge |-> 0,
            query |-> None, debounced |-> None, loading |-> TRUE, searching |-> FALSE,
            modal |-> NoModal, reason |-> None, processing |-> None]
  /\ \E c, d \in Calls : c # d /\ call = [e \in Calls |->
       IF e = c THEN Request("root") ELSE IF e = d THEN Request("load") ELSE NoCall]
  /\ revoked = {}
  /\ mixed = FALSE

Card(l, status) == [l |-> l, status |-> status]
Searching == tab.query # None
Spinner == tab.loading /\ tab.offers = {} /\ ~Searching

\* The cards drawn: what is found, or what was reviewed here before what waits.
Cards ==
  IF Searching THEN tab.found
  ELSE {card \in tab.resolved \cup {Card(l, "pending") : l \in tab.offers} :
          tab.filter \in {"", card.status}}

\* The effects of load and performSearch, as far as the state they depend on changed.
Effects(new, loads, searches) ==
  LET search == searches /\ new.debounced # None
      load == loads /\ new.query = None
  IN /\ tab' = [new EXCEPT !.loading = @ \/ load, !.searching = @ \/ search,
                           !.found = IF searches /\ ~search THEN {} ELSE @]
     /\ \E c, d \in Calls :
          /\ load /\ search => c # d
          /\ load => call[c] = NoCall
          /\ search => call[d] = NoCall
          /\ call' = [e \in Calls |-> IF load /\ e = c THEN [Request("load") EXCEPT !.filter = new.filter]
                                      ELSE IF search /\ e = d
                                        THEN [Request("search") EXCEPT !.l = new.debounced]
                                      ELSE call[e]]
     /\ UNCHANGED <<row, revoked, mixed>>

Free == tab.modal = NoModal /\ ~Spinner

refresh == Free /\ ~Searching /\ Effects(tab, TRUE, FALSE)

setFilterStatus(f) ==
  /\ "filter" \in Acts /\ Free /\ f # tab.filter
  /\ Effects([tab EXCEPT !.filter = f], TRUE, TRUE)

setSearchQuery(q) ==
  /\ "search" \in Acts /\ Free /\ q # tab.query
  /\ Effects([tab EXCEPT !.query = q], TRUE, FALSE)

clearSearch ==
  /\ Free /\ Searching
  /\ Effects([tab EXCEPT !.query = None, !.found = {}], TRUE, FALSE)

useDebounce ==
  /\ tab.debounced # tab.query
  /\ Effects([tab EXCEPT !.debounced = tab.query], FALSE, TRUE)

\* A button of a card opens its dialog over the page; a dialog can always be closed.
setModal(op, card) ==
  /\ Free /\ card \in Cards /\ tab.processing # card.l
  /\ card.status = (IF op = "revoke" THEN "approved" ELSE "pending")
  /\ tab' = [tab EXCEPT !.modal = [op |-> op, l |-> card.l]]
  /\ UNCHANGED <<row, call, revoked, mixed>>

onClose ==
  /\ tab.modal # NoModal /\ ~Spinner
  /\ tab' = [tab EXCEPT !.modal = NoModal]
  /\ UNCHANGED <<row, call, revoked, mixed>>

\* The reason is written for the listing of the dialog.
setRejectReason ==
  /\ tab.modal.op = "rejected" /\ tab.reason = None /\ ~Spinner
  /\ tab' = [tab EXCEPT !.reason = tab.modal.l]
  /\ UNCHANGED <<row, call, revoked, mixed>>

\* handleApprove, handleReject, handleRevoke: one at a time.
CanReview == tab.processing = None
handleReview(c) ==
  LET m == tab.modal
  IN /\ m # NoModal /\ CanReview /\ ~Spinner /\ call[c] = NoCall
     /\ tab' = [tab EXCEPT !.processing = m.l]
     /\ call' = [call EXCEPT ![c] = [Request(m.op) EXCEPT !.l = m.l,
                   !.reason = IF m.op = "rejected" THEN tab.reason ELSE None]]
     /\ UNCHANGED <<row, revoked, mixed>>

\* What a review that succeeded changes in the tab and its badge.
Mark(cards, l, status) ==
  {IF card.l = l THEN Card(l, status) ELSE card : card \in cards}
Reviewed(r) ==
  LET status == IF r.kind = "revoke" THEN "rejected" ELSE r.kind
      found == Mark(tab.found, r.l, status)
      modal == IF tab.modal.op = r.kind THEN NoModal ELSE tab.modal
  IN IF r.kind = "revoke"
     THEN [tab EXCEPT !.resolved = Mark(@, r.l, status), !.found = found, !.modal = modal]
     ELSE [tab EXCEPT !.resolved = IF r.l \in tab.offers THEN @ \cup {Card(r.l, status)} ELSE @,
                      !.offers = @ \ {r.l}, !.badge = Cardinality(tab.offers \ {r.l}),
                      !.reason = IF r.kind = "rejected" THEN None ELSE @,
                      !.found = found, !.modal = modal]

Under == {c \in Calls : call[c] # NoCall}
Done(c) == call[c].step \in {"ok", "failed"}

Freed(new) == [new EXCEPT !.processing = None]
reviewed(c) ==
  LET r == call[c]
      ok == r.step = "ok"
  IN /\ r.kind \in Reviews /\ Done(c)
     /\ tab' = Freed(IF ok THEN Reviewed(r) ELSE tab)
     /\ call' = [call EXCEPT ![c] = NoCall]
     /\ revoked' = IF ok /\ r.kind = "revoke" THEN revoked \cup {r.l} ELSE revoked
     /\ mixed' = (mixed \/ ~ok \/ Under # {c})
     /\ UNCHANGED row

\* The answer of load; it tells the badge only under the filter it was asked for.
loaded(c) ==
  LET r == call[c]
      ok == r.step = "ok"
  IN /\ r.kind = "load" /\ Done(c)
     /\ tab' = [tab EXCEPT !.loading = FALSE,
                  !.offers = IF ok THEN r.data ELSE @,
                  !.badge = IF ok /\ r.filter \in {"", "pending"} THEN Cardinality(r.data) ELSE @]
     /\ call' = [call EXCEPT ![c] = NoCall]
     /\ mixed' = (mixed \/ ~ok \/ Under # {c})
     /\ UNCHANGED <<row, revoked>>

\* The answer of AdminPage's own request.
setPendingOffersCount(c) ==
  LET r == call[c]
  IN /\ r.kind = "root" /\ Done(c)
     /\ tab' = IF r.step = "ok" THEN [tab EXCEPT !.badge = Cardinality(r.data)] ELSE tab
     /\ call' = [call EXCEPT ![c] = NoCall]
     /\ mixed' = (mixed \/ r.step = "failed")
     /\ UNCHANGED <<row, revoked>>

\* The answer of performSearch, whichever was sent last: the controller aborts nothing.
Matches(q, l) == l = q
searched(c) ==
  LET r == call[c]
  IN /\ r.kind = "search" /\ Done(c)
     /\ tab' = [tab EXCEPT !.searching = FALSE,
                  !.found = IF r.step = "failed" THEN {}
                            ELSE {Card(l, "pending") : l \in {k \in r.data : Matches(r.l, k)}}]
     /\ call' = [call EXCEPT ![c] = NoCall]
     /\ mixed' = (mixed \/ r.step = "failed" \/ Under # {c})
     /\ UNCHANGED <<row, revoked>>

-----------------------------------------------------------------------------
Reply(c, step, data) == call' = [call EXCEPT ![c].step = step, ![c].data = data]

\* The status and the page asked for are not used: the whole queue is the answer.
moderation_queue(c) ==
  /\ call[c].kind \in {"load", "root", "search"} /\ call[c].step = "sent"
  /\ Reply(c, "ok", Pending)
  /\ UNCHANGED <<row, tab, revoked, mixed>>

\* approve_listing, reject_listing
review_listing(c) ==
  LET r == call[c]
  IN /\ r.kind \in {"approved", "rejected"} /\ r.step = "sent"
     /\ IF r.l \notin Pending THEN Reply(c, "failed", {}) /\ UNCHANGED row
        ELSE /\ row' = [row EXCEPT ![r.l] = IF r.kind = "approved" THEN "active" ELSE "archived"]
             /\ Reply(c, "ok", {})
     /\ UNCHANGED <<tab, revoked, mixed>>

delete_listing_admin(c) ==
  LET r == call[c]
  IN /\ r.kind = "revoke" /\ r.step = "sent"
     /\ IF row[r.l] = "gone" THEN Reply(c, "failed", {}) /\ UNCHANGED row
        ELSE row' = [row EXCEPT ![r.l] = "gone"] /\ Reply(c, "ok", {})
     /\ UNCHANGED <<tab, revoked, mixed>>

Fails(c) ==
  /\ "fail" \in Acts /\ call[c].step \in {"sent", "ok"}
  /\ Reply(c, "failed", {})
  /\ UNCHANGED <<row, tab, revoked, mixed>>

Moves == {<<"active", "archived">>, <<"archived", "pending_review">>, <<"pending_review", "archived">>}
Elsewhere(l) ==
  /\ "elsewhere" \in Acts
  /\ \E m \in Moves : row[l] = m[1] /\ row' = [row EXCEPT ![l] = m[2]]
  /\ UNCHANGED <<tab, call, revoked, mixed>>

Serve(c) == moderation_queue(c) \/ review_listing(c) \/ delete_listing_admin(c)
Hear(c) == loaded(c) \/ setPendingOffersCount(c) \/ searched(c) \/ reviewed(c)

Next ==
  \/ \E c \in Calls : Serve(c) \/ Hear(c) \/ Fails(c) \/ handleReview(c)
  \/ \E l \in Listings : Elsewhere(l)
  \/ \E op \in Reviews, l \in Listings, s \in {"pending", "approved"} : setModal(op, Card(l, s))
  \/ \E f \in Filters : setFilterStatus(f)
  \/ \E q \in Listings \cup {None} : setSearchQuery(q)
  \/ refresh \/ clearSearch \/ useDebounce \/ onClose \/ setRejectReason

Spec == Init /\ [][Next]_vars

-----------------------------------------------------------------------------
\* A listing under review has the one request that ends it, and the badge counts no
\* more than there is.
TypeOK ==
  /\ tab.offers \subseteq Listings /\ tab.badge \in 0..Cardinality(Listings)
  /\ {tab.processing} \ {None} = {call[c].l : c \in {d \in Calls : call[d].kind \in Reviews}}
  /\ Cardinality({c \in Calls : call[c].kind \in Reviews}) <= 1

Quiet == Under = {} /\ tab.debounced = tab.query

\* When requests came one at a time and none failed, the tab waits for what the queue holds,
\* the badge counts it, and what it says was approved or rejected is so.
ShowsItsReviews ==
  ~mixed /\ Quiet =>
    /\ tab.offers = Pending
    /\ tab.badge = Cardinality(Pending)
    /\ \A card \in tab.resolved :
         row[card.l] \in (IF card.status = "approved" THEN {"active"} ELSE {"archived", "gone"})

-----------------------------------------------------------------------------
\* What the code, its texts or its tests say and a behaviour refutes: see the README.

\* A search, with nothing under way, finds the listing that waits and is typed.
FindsWhatIsTyped ==
  ~mixed /\ Quiet /\ Searching /\ tab.query \in Pending => Card(tab.query, "pending") \in Cards

\* Once nothing is under way the page offers no listing for review that it said is reviewed.
ReviewedOnce ==
  Quiet => \A card \in tab.resolved : card.l \notin tab.offers

\* Once nothing is under way a search shows nothing but what the query finds.
FoundForTheQuery == Quiet /\ Searching => \A card \in Cards : card.l = tab.query

\* A reason is sent for the listing it was written for.
ReasonMeant == \A c \in Calls : call[c].reason \in {None, call[c].l}

\* A listing whose approval was revoked is withdrawn from the catalog, not lost.
RevokedIsKept == \A l \in revoked : row[l] # "gone"
=============================================================================
