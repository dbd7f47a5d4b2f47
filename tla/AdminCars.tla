----------------------------- MODULE AdminCars ------------------------------
(***************************************************************************)
(* The list of CarsTab in AdminPage: pages of active listings, to each of   *)
(* which getCars adds the reserved and the sold ones, completed by details  *)
(* once they come; the filter, the status select and the deletion of a row. *)
(* Listings are their numbers in order of creation.                         *)
(***************************************************************************)
EXTENDS Naturals, Sequences, FiniteSets, SequencesExt

CONSTANTS
  Listings,   \* a set of numbers
  OfBrand,    \* the listings of the brand one may filter by
  PageSize, Calls,
  Acts        \* "filter", "status", "delete", "elsewhere", "fail": what happens in a run

VARIABLES
  row,    \* row[l]: listings.status, "gone" without a row
  tab,    \* the state of CarsTab
  call,   \* call[c]: a request of the tab
  mixed   \* history: an answer heard while another request was under way, or a failure

vars == <<row, tab, call, mixed>>

PageAssumption == PageSize \in Nat \ {0}

None == 0
Extra == <<"reserved", "sold">>
Shown == {"active", "reserved", "sold"}
Filters == {"any", "brand"}
NoCall == [kind |-> "idle", step |-> "idle", heard |-> FALSE, filter |-> "any", cursor |-> None,
           l |-> None, status |-> "none", data |-> <<>>, extra |-> <<>>, next |-> None]

\* A row of /listings has the name of the brand, one of /admin/listings only its id.
Card(l, status, named) == [l |-> l, status |-> status, named |-> named]
Ids(cards) == {cards[i].l : i \in DOMAIN cards}
Of(f, l) == f = "any" \/ l \in OfBrand

Init ==
  /\ row \in [Listings -> {"active", "reserved"}]
  /\ tab = [cars |-> <<>>, next |-> None, loading |-> TRUE, more |-> FALSE, filter |-> "any",
            modal |-> None, deleting |-> FALSE]
  /\ \E c \in Calls : call = [d \in Calls |->
       IF d = c THEN [NoCall EXCEPT !.kind = "list", !.step = "sent", !.heard = TRUE] ELSE NoCall]
  /\ mixed = FALSE

Under == {c \in Calls : call[c] # NoCall}

\* The effect that loads the list: the load before it, and its details, are cancelled.
Reload(c, new) ==
  /\ tab' = [new EXCEPT !.cars = <<>>, !.next = None, !.loading = TRUE]
  /\ call' = [d \in Calls |->
       IF d = c THEN [NoCall EXCEPT !.kind = "list", !.step = "sent", !.heard = TRUE,
                                    !.filter = new.filter]
       ELSE IF call[d].kind \in {"list", "details"} THEN [call[d] EXCEPT !.heard = FALSE] ELSE call[d]]

handleReload(c) ==
  /\ tab.modal = None /\ ~tab.loading /\ call[c] = NoCall
  /\ Reload(c, tab)
  /\ UNCHANGED <<row, mixed>>

setFilters(c, f) ==
  /\ "filter" \in Acts /\ tab.modal = None /\ f # tab.filter /\ call[c] = NoCall
  /\ Reload(c, [tab EXCEPT !.filter = f])
  /\ UNCHANGED <<row, mixed>>

\* The end of the table came into view.
CanLoadMore == tab.next # None /\ ~tab.loading /\ ~tab.more
loadMore(c) ==
  /\ CanLoadMore /\ call[c] = NoCall
  /\ tab' = [tab EXCEPT !.more = TRUE]
  /\ call' = [call EXCEPT ![c] = [NoCall EXCEPT !.kind = "more", !.step = "sent", !.heard = TRUE,
                                                !.filter = tab.filter, !.cursor = tab.next]]
  /\ UNCHANGED <<row, mixed>>

\* What getCars makes of its three answers: listings of the page are not added again.
getCars(r) ==
  [i \in DOMAIN r.data |-> Card(r.data[i], "active", TRUE)]
    \o SelectSeq(r.extra, LAMBDA card : \A i \in DOMAIN r.data : r.data[i] # card.l)

\* The first page is the list; a later one is added to it, whichever list it belongs to.
Paged(r) ==
  IF r.kind = "list" THEN [tab EXCEPT !.cars = getCars(r), !.next = r.next, !.loading = FALSE]
  ELSE [tab EXCEPT !.cars = @ \o getCars(r), !.next = r.next, !.more = FALSE]
paged(c) ==
  LET r == call[c]
      ok == r.step = "ok"
  IN /\ r.kind \in {"list", "more"} /\ r.step \in {"ok", "failed"}
     /\ tab' = IF ~r.heard THEN tab ELSE IF ok THEN Paged(r)
               ELSE IF r.kind = "list" THEN [tab EXCEPT !.loading = FALSE] ELSE [tab EXCEPT !.more = FALSE]
     /\ call' = [call EXCEPT ![c] =
          IF ok /\ r.heard THEN [NoCall EXCEPT !.kind = IF r.kind = "list" THEN "details" ELSE "moredetails",
                                               !.heard = TRUE, !.extra = getCars(r)]
          ELSE NoCall]
     /\ mixed' = (mixed \/ ~ok \/ Under # {c})
     /\ UNCHANGED row

\* enrichAdminCars: the cards as they were answered, with what the details add.
detailed(c) ==
  LET r == call[c]
      new(card) == IF card.l \in Ids(r.extra)
                   THEN CHOOSE d \in ToSet(r.extra) : d.l = card.l ELSE card
  IN /\ r.kind \in {"details", "moredetails"}
     /\ tab' = IF ~r.heard THEN tab
               ELSE IF r.kind = "details" THEN [tab EXCEPT !.cars = r.extra]
               ELSE [tab EXCEPT !.cars = [i \in DOMAIN @ |-> new(@[i])]]
     /\ call' = [call EXCEPT ![c] = NoCall]
     /\ mixed' = (mixed \/ Under # {c})
     /\ UNCHANGED row

\* The rows drawn: the listings loaded that the filter lets through.
Drawn == {card \in ToSet(tab.cars) : tab.filter = "any" \/ (card.l \in OfBrand /\ card.named)}

handleStatusChange(c, l, s) ==
  /\ "status" \in Acts /\ tab.modal = None /\ l \in {card.l : card \in Drawn} /\ call[c] = NoCall
  /\ call' = [call EXCEPT ![c] = [NoCall EXCEPT !.kind = "status", !.step = "sent", !.heard = TRUE,
                                                !.l = l, !.status = s]]
  /\ UNCHANGED <<row, tab, mixed>>

Changed(r) == [tab EXCEPT !.cars = [i \in DOMAIN @ |->
                 IF @[i].l = r.l THEN [@[i] EXCEPT !.status = r.status] ELSE @[i]]]
statusChanged(c) ==
  LET r == call[c]
  IN /\ r.kind = "status" /\ r.step \in {"ok", "failed"}
     /\ tab' = IF r.step = "ok" THEN Changed(r) ELSE tab
     /\ call' = [call EXCEPT ![c] = NoCall]
     /\ mixed' = (mixed \/ r.step = "failed" \/ Under # {c})
     /\ UNCHANGED row

handleDelete(l) ==
  /\ "delete" \in Acts /\ tab.modal = None /\ l \in {card.l : card \in Drawn}
  /\ tab' = [tab EXCEPT !.modal = l]
  /\ UNCHANGED <<row, call, mixed>>

onClose ==
  /\ tab.modal # None
  /\ tab' = [tab EXCEPT !.modal = None]
  /\ UNCHANGED <<row, call, mixed>>

confirmDelete(c) ==
  /\ tab.modal # None /\ ~tab.deleting /\ call[c] = NoCall
  /\ tab' = [tab EXCEPT !.deleting = TRUE]
  /\ call' = [call EXCEPT ![c] = [NoCall EXCEPT !.kind = "delete", !.step = "sent", !.heard = TRUE,
                                                !.l = tab.modal]]
  /\ UNCHANGED <<row, mixed>>

\* A deletion that succeeded closes the dialog, whichever is open, and loads the list.
deleted(c) ==
  LET r == call[c]
      ok == r.step = "ok"
  IN /\ r.kind = "delete" /\ r.step \in {"ok", "failed"}
     /\ IF ok THEN Reload(c, [tab EXCEPT !.modal = None, !.deleting = FALSE])
        ELSE /\ tab' = [tab EXCEPT !.deleting = FALSE]
             /\ call' = [call EXCEPT ![c] = NoCall]
     /\ mixed' = (mixed \/ ~ok \/ Under # {c})
     /\ UNCHANGED row

-----------------------------------------------------------------------------
Reply(c, step) == call' = [call EXCEPT ![c].step = step]

\* search_active: the page after the cursor, and the next one when the page is full.
Matching(r) == {l \in Listings : row[l] = "active" /\ Of(r.filter, l) /\ (r.cursor # None => l < r.cursor)}
list_listings(c) ==
  LET r == call[c]
      after == SetToSortSeq(Matching(r), LAMBDA a, b : a > b)
      page == SubSeq(after, 1, IF Len(after) < PageSize THEN Len(after) ELSE PageSize)
  IN /\ r.kind \in {"list", "more"} /\ r.step = "sent"
     /\ call' = [call EXCEPT ![c].step = "active", ![c].data = page,
                             ![c].next = IF Len(page) = PageSize THEN Last(page) ELSE None]
     /\ UNCHANGED <<row, tab, mixed>>

\* The answers for the reserved and for the sold ones, in any order: of no brand in particular.
moderation_queue(c, s) ==
  LET r == call[c]
      cards == LET ls == SetToSortSeq({l \in Listings : row[l] = s}, LAMBDA a, b : a > b)
               IN [i \in DOMAIN ls |-> Card(ls[i], s, FALSE)]
  IN /\ r.step \in {"active", "reserved", "sold"} /\ r.step # s
     /\ call' = [call EXCEPT ![c].extra = IF s = "reserved" THEN cards \o @ ELSE @ \o cards,
                             ![c].step = IF @ = "active" THEN s ELSE "ok"]
     /\ UNCHANGED <<row, tab, mixed>>

set_listing_status(c) ==
  LET r == call[c]
  IN /\ r.kind = "status" /\ r.step = "sent"
     /\ IF row[r.l] = "gone" THEN Reply(c, "failed") /\ UNCHANGED row
        ELSE Reply(c, "ok") /\ row' = [row EXCEPT ![r.l] = r.status]
     /\ UNCHANGED <<tab, mixed>>

delete_listing_admin(c) ==
  LET r == call[c]
  IN /\ r.kind = "delete" /\ r.step = "sent"
     /\ IF row[r.l] = "gone" THEN Reply(c, "failed") /\ UNCHANGED row
        ELSE Reply(c, "ok") /\ row' = [row EXCEPT ![r.l] = "gone"]
     /\ UNCHANGED <<tab, mixed>>

\* A request fails; when one for the reserved or the sold does, the page goes without both.
Fails(c) ==
  /\ "fail" \in Acts /\ call[c].step \in {"sent", "active", "reserved", "sold"}
  /\ call' = [call EXCEPT ![c].step = IF @ = "sent" THEN "failed" ELSE "ok", ![c].extra = <<>>]
  /\ mixed' = TRUE
  /\ UNCHANGED <<row, tab>>

Moves == {<<"active", "reserved">>, <<"reserved", "active">>, <<"reserved", "sold">>}
Elsewhere(l) ==
  /\ "elsewhere" \in Acts
  /\ \E m \in Moves : row[l] = m[1] /\ row' = [row EXCEPT ![l] = m[2]]
  /\ UNCHANGED <<tab, call, mixed>>

Serve(c) ==
  \/ list_listings(c) \/ set_listing_status(c) \/ delete_listing_admin(c)
  \/ \E i \in DOMAIN Extra : moderation_queue(c, Extra[i])
Hear(c) == paged(c) \/ detailed(c) \/ statusChanged(c) \/ deleted(c)

Next ==
  \/ \E c \in Calls : \/ Serve(c) \/ Hear(c) \/ Fails(c)
                      \/ handleReload(c) \/ loadMore(c) \/ confirmDelete(c)
                      \/ \E f \in Filters : setFilters(c, f)
                      \/ \E l \in Listings, s \in Shown \cup {"archived"} : handleStatusChange(c, l, s)
  \/ \E l \in Listings : Elsewhere(l) \/ handleDelete(l)
  \/ onClose

Spec == Init /\ [][Next]_vars

-----------------------------------------------------------------------------
\* A spinner has the one request it is for.
TypeOK ==
  /\ Ids(tab.cars) \subseteq Listings
  /\ Cardinality({c \in Calls : call[c].kind = "list" /\ call[c].heard}) = (IF tab.loading THEN 1 ELSE 0)
  /\ Cardinality({c \in Calls : call[c].kind = "more"}) = (IF tab.more THEN 1 ELSE 0)
  /\ Cardinality({c \in Calls : call[c].kind = "delete"}) = (IF tab.deleting THEN 1 ELSE 0)

AllLoaded == Under = {} /\ tab.next = None

\* When answers came one at a time and no one else changed listings, the rows are the
\* listings of the filter as they are, each status once its page was asked for.
ShowsItsChanges ==
  ~mixed /\ AllLoaded =>
    /\ \A card \in ToSet(tab.cars) : card.status = row[card.l]
    /\ {l \in Listings : row[l] \in Shown /\ Of(tab.filter, l)} \subseteq Ids(tab.cars)

-----------------------------------------------------------------------------
\* What the code, its texts or its tests say and a behaviour refutes: see the README.

\* Once everything is loaded no listing that is on sale, reserved or sold is missing.
NoneDisappears ==
  AllLoaded => {l \in Listings : row[l] \in Shown /\ Of(tab.filter, l)} \subseteq Ids(tab.cars)

\* And each has one row.
DrawnOnce == AllLoaded => Cardinality(Ids(tab.cars)) = Len(tab.cars)

\* And a reserved listing is drawn under the filter of its brand.
BrandKeepsReserved ==
  AllLoaded /\ ~mixed => \A l \in Listings : row[l] = "reserved" /\ Of(tab.filter, l) =>
                           \E card \in Drawn : card.l = l

\* And a row shows the status its listing has, when no one but the page changed it.
ShowsStatus == Under = {} => \A card \in Drawn : card.status = row[card.l]
=============================================================================
