------------------------------- MODULE Catalog -------------------------------
(***************************************************************************)
(* CatalogPage: the list of active listings page by page, to which the      *)
(* details of each listing are added once they come, the filters the server *)
(* applies (the year stands for them, and the order), one the page applies  *)
(* itself to what the details say (the transmission), and the sentinel that *)
(* asks for the next page when it is scrolled into view.  Listings are      *)
(* their numbers in order of creation.                                      *)
(***************************************************************************)
EXTENDS Naturals, Sequences, FiniteSets, SequencesExt

CONSTANTS
  Listings,  \* a set of numbers
  Recent,    \* the listings of the years one may filter by
  Manual,    \* the listings with the transmission one may filter by
  Price,     \* Price[l]
  PageSize, Calls,
  Acts       \* "year", "sort", "gear", "moves", "fail", "reload": what happens in a run

VARIABLES
  row,    \* row[l]: listings.status, active or reserved
  page,   \* the state of CatalogPage
  call,   \* call[c]: a request of the page
  mixed   \* history: what happened to the list that may spoil it

vars == <<row, page, call, mixed>>

SizeAssumption == PageSize \in Nat \ {0}

Sorts == {"newest", "oldest", "price"}
Filters == [year : {"any", "recent"}, sort : Sorts]
AnyCar == [year |-> "any", sort |-> "newest"]
NoCursor == [order |-> "none", l |-> 0]
NoCall == [kind |-> "idle", step |-> "idle", heard |-> FALSE, filter |-> AnyCar, cursor |-> NoCursor,
           data |-> <<>>, next |-> NoCursor]
Sent(kind, f, cursor) ==
  [NoCall EXCEPT !.kind = kind, !.step = "sent", !.heard = TRUE, !.filter = f, !.cursor = cursor]

\* A card of the list; full once its details have come.
Card(l) == [l |-> l, full |-> FALSE]
Ids(cards) == {card.l : card \in ToSet(cards)}

\* mapSort: the server knows the newest first and the prices.
mapSort(s) == IF s = "price" THEN "price" ELSE "newest"
Before(order, k, l) ==
  IF order = "price" THEN Price[k] < Price[l] \/ (Price[k] = Price[l] /\ k < l) ELSE k > l
InYear(f, l) == f.year = "any" \/ l \in Recent

\* The filter of the page: only the details name the transmission.
Passes(p, card) == p.gear = "any" \/ (card.full /\ card.l \in Manual)
Drawn(p) == IF p.loading \/ p.error THEN {} ELSE {card \in ToSet(p.cars) : Passes(p, card)}

\* The sentinel is drawn below the cards.  It is observed anew when what loadMore needs changed,
\* and not when it is only drawn again.
Sentinel(p) == Drawn(p) # {} /\ p.next # NoCursor
LoadMoreOf(p) == <<p.more, p.next, p.filter, p.loading>>
Render(new) == [new EXCEPT !.watched = Sentinel(new) /\ (LoadMoreOf(new) # LoadMoreOf(page) \/ page.watched)]

\* On mount the list is asked for without filters; once the query is read, with those it names.
Loading(f, gear, more) ==
  [cars |-> <<>>, next |-> NoCursor, loading |-> TRUE, error |-> FALSE, more |-> more,
   filter |-> f, gear |-> gear, watched |-> FALSE]
Named == {f \in Filters : ("year" \in Acts \/ f.year = "any") /\ ("sort" \in Acts \/ f.sort = "newest")}
Opened(f) ==
  \E c, d \in Calls : c # d /\ call =
    [e \in Calls |-> IF e = c THEN Sent("list", f, NoCursor)
                     ELSE IF e = d /\ f # AnyCar THEN [Sent("list", AnyCar, NoCursor) EXCEPT !.heard = FALSE]
                     ELSE NoCall]
Init ==
  /\ row \in [Listings -> IF "moves" \in Acts THEN {"active", "reserved"} ELSE {"active"}]
  /\ \E f \in Named, gear \in {"any", "manual"} :
       /\ gear = "any" \/ "gear" \in Acts
       /\ page = Loading(f, gear, FALSE) /\ Opened(f)
  /\ mixed = {}

Under == {c \in Calls : call[c] # NoCall}

\* The effect on the filters of the server: the load before it, and its details, are cancelled;
\* a page asked for by loadMore is not.
Refilter(c, f, gear) ==
  /\ call[c] = NoCall
  /\ page' = Loading(f, gear, page.more)
  /\ call' = [d \in Calls |->
       IF d = c THEN Sent("list", f, NoCursor)
       ELSE IF call[d].kind \in {"list", "details"} THEN [call[d] EXCEPT !.heard = FALSE] ELSE call[d]]
  /\ mixed' = IF \E d \in Calls : call[d].kind = "more" THEN {"stale"} ELSE {}
  /\ UNCHANGED row

setYear(c, y) ==
  /\ "year" \in Acts /\ y # page.filter.year
  /\ Refilter(c, [page.filter EXCEPT !.year = y], page.gear)
setSortBy(c, s) ==
  /\ "sort" \in Acts /\ s # page.filter.sort
  /\ Refilter(c, [page.filter EXCEPT !.sort = s], page.gear)

\* The transmissions offered are those of the listings loaded; one chosen stays chosen.
setTransmission(gear) ==
  /\ "gear" \in Acts /\ gear # page.gear
  /\ gear = "any" \/ \E card \in ToSet(page.cars) : card.full /\ card.l \in Manual
  /\ page' = Render([page EXCEPT !.gear = gear])
  /\ UNCHANGED <<row, call, mixed>>

resetFilters(c) ==
  /\ page.filter.year # "any" \/ page.gear # "any" \/ (Drawn(page) = {} /\ ~page.loading /\ ~page.error)
  /\ IF page.filter # AnyCar THEN Refilter(c, AnyCar, "any")
     ELSE /\ page' = Render([page EXCEPT !.gear = "any"])
          /\ UNCHANGED <<row, call, mixed>>

\* The button of the error loads the document again: its filters are in the query.
reload ==
  /\ "reload" \in Acts /\ page.error
  /\ page' = Loading(page.filter, page.gear, FALSE)
  /\ \E c \in Calls : call' = [d \in Calls |-> IF d = c THEN Sent("list", page.filter, NoCursor) ELSE NoCall]
  /\ mixed' = {}
  /\ UNCHANGED row

\* The sentinel came into view.
CanLoadMoreBug == page.watched
CanLoadMore == page.watched /\ ~page.more
loadMore(c) ==
  /\ CanLoadMore /\ call[c] = NoCall
  /\ page' = Render([page EXCEPT !.more = TRUE])
  /\ call' = [call EXCEPT ![c] = Sent("more", page.filter, page.next)]
  /\ UNCHANGED <<row, mixed>>

\* The first page is the list; a later one is added to it, whichever list it belongs to.
Cards(r) == [i \in DOMAIN r.data |-> Card(r.data[i])]
Paged(r) ==
  IF r.kind = "list" THEN [page EXCEPT !.cars = Cards(r), !.next = r.next, !.loading = FALSE]
  ELSE [page EXCEPT !.cars = @ \o Cards(r), !.next = r.next, !.more = FALSE]
paged(c) ==
  LET r == call[c]
  IN /\ r.kind \in {"list", "more"} /\ r.step = "ok"
     /\ page' = IF r.heard THEN Render(Paged(r)) ELSE page
     /\ call' = [call EXCEPT ![c] =
          IF r.heard THEN [NoCall EXCEPT !.kind = IF r.kind = "list" THEN "details" ELSE "moredetails",
                                         !.heard = TRUE, !.data = r.data]
          ELSE NoCall]
     /\ UNCHANGED <<row, mixed>>

\* A first page that fails shows the error; a later one is asked for again, the sentinel
\* being observed anew.
NotPaged(r) ==
  IF r.kind = "list" THEN [page EXCEPT !.error = TRUE, !.loading = FALSE]
  ELSE [page EXCEPT !.more = FALSE]
notPaged(c) ==
  LET r == call[c]
  IN /\ r.kind \in {"list", "more"} /\ r.step = "failed"
     /\ page' = IF r.heard THEN Render(NotPaged(r)) ELSE page
     /\ call' = [call EXCEPT ![c] = NoCall]
     /\ UNCHANGED <<row, mixed>>

\* enrichWithImages: the details of a first page are a new list, those of a later one go into it.
Enriched(r, got) == [i \in DOMAIN r.data |-> [Card(r.data[i]) EXCEPT !.full = r.data[i] \in got]]
Detailed(r, got) ==
  IF r.kind = "details" THEN [page EXCEPT !.cars = Enriched(r, got)]
  ELSE [page EXCEPT !.cars = [i \in DOMAIN @ |->
         IF @[i].l \in ToSet(r.data) THEN [l |-> @[i].l, full |-> @[i].l \in got] ELSE @[i]]]
detailed(c) ==
  LET r == call[c]
  IN /\ r.kind \in {"details", "moredetails"}
     /\ \E got \in IF "fail" \in Acts THEN SUBSET ToSet(r.data) ELSE {ToSet(r.data)} :
          page' = IF r.heard THEN Render(Detailed(r, got)) ELSE page
     /\ call' = [call EXCEPT ![c] = NoCall]
     /\ mixed' = IF r.kind = "details" /\ r.heard /\ Len(page.cars) > Len(r.data)
                 THEN mixed \cup {"cut"} ELSE mixed
     /\ UNCHANGED row

\* search_active: the listings after the cursor, in the order of the request; a full page has a
\* cursor to the next.  A cursor is a key of its own order, and another order cannot read it.
Matching(f) == {l \in Listings : row[l] = "active" /\ InYear(f, l)}
Asked(r) == {l \in Matching(r.filter) : r.cursor = NoCursor \/ Before(r.cursor.order, r.cursor.l, l)}
Found(r) ==
  LET all == SetToSortSeq(Asked(r), LAMBDA k, l : Before(mapSort(r.filter.sort), k, l))
  IN SubSeq(all, 1, IF Len(all) < PageSize THEN Len(all) ELSE PageSize)
NextOf(r, found) ==
  IF Len(found) = PageSize THEN [order |-> mapSort(r.filter.sort), l |-> Last(found)] ELSE NoCursor
Readable(r) == r.cursor.order \in {"none", mapSort(r.filter.sort)}
list_listings(c) ==
  LET r == call[c]
  IN /\ r.step = "sent"
     /\ call' = [call EXCEPT ![c] =
          IF Readable(r) THEN [r EXCEPT !.step = "ok", !.data = Found(r), !.next = NextOf(r, Found(r))]
          ELSE [r EXCEPT !.step = "failed"]]
     /\ UNCHANGED <<row, page, mixed>>

Fails(c) ==
  /\ "fail" \in Acts /\ call[c].step \in {"sent", "ok"} 
  /\ call' = [call EXCEPT ![c].step = "failed"]
  /\ UNCHANGED <<row, page, mixed>>

\* Elsewhere a listing is reserved, or freed.
Moves(l) ==
  /\ "moves" \in Acts
  /\ row' = [row EXCEPT ![l] = IF @ = "active" THEN "reserved" ELSE "active"]
  /\ UNCHANGED <<page, call, mixed>>

Asks(c) ==
  \/ \E y \in {"any", "recent"} : setYear(c, y)
  \/ \E s \in Sorts : setSortBy(c, s)
  \/ resetFilters(c)
Answers(c) == list_listings(c) \/ paged(c) \/ notPaged(c) \/ detailed(c)
Next ==
  \/ \E c \in Calls : Asks(c) \/ loadMore(c) \/ Answers(c) \/ Fails(c)
  \/ \E gear \in {"any", "manual"} : setTransmission(gear)
  \/ reload
  \/ \E l \in Listings : Moves(l)

Spec == Init /\ [][Next]_vars

-----------------------------------------------------------------------------
(* Every variable has its type, and the list is empty while it is loaded.    *)
Cursors == {NoCursor} \cup [order : {"newest", "price"}, l : Listings]
TypeOK ==
  /\ row \in [Listings -> {"active", "reserved"}]
  /\ page.cars \in Seq([l : Listings, full : BOOLEAN]) /\ page.next \in Cursors
  /\ page.filter \in Filters /\ page.gear \in {"any", "manual"}
  /\ {page.loading, page.error, page.more, page.watched} \subseteq BOOLEAN
  /\ page.watched => page.next # NoCursor /\ ~page.loading
  /\ \A c \in Calls : /\ call[c].kind \in {"idle", "list", "more", "details", "moredetails"}
                      /\ call[c].step \in {"idle", "sent", "ok", "failed"}
                      /\ call[c].filter \in Filters /\ {call[c].cursor, call[c].next} \subseteq Cursors
  /\ mixed \subseteq {"stale", "cut"}

(* Unless a page of an earlier list was under way, the list has every listing once, in the order of  *)
(* the server, and only listings of the year asked for, whatever is reserved and freed between   *)
(* the pages (loadMore and the keyset of search_active).                                         *)
InOrder ==
  "stale" \notin mixed =>
    \A j \in DOMAIN page.cars :
       /\ InYear(page.filter, page.cars[j].l)
       /\ \A i \in 1..(j - 1) : Before(mapSort(page.filter.sort), page.cars[i].l, page.cars[j].l)

AtEnd == ~page.loading /\ ~page.error /\ page.next = NoCursor

-----------------------------------------------------------------------------
(* What the code, its texts or its tests say and a behaviour refutes: see the README.            *)

(* The details of the first page are only added to it.                                           *)
NothingCut == (AtEnd /\ "stale" \notin mixed) => Matching(page.filter) \subseteq Ids(page.cars)

(* Only cars of the year asked for are drawn.                                                    *)
OnlyOfYear == \A card \in Drawn(page) : InYear(page.filter, card.l)

(* "Oldest" shows the oldest first.                                                              *)
OldestFirst ==
  (page.filter.sort = "oldest" /\ mixed = {}) =>
    \A i, j \in DOMAIN page.cars : i < j => page.cars[i].l < page.cars[j].l

(* When the page says that no listing was found, none matches.                                   *)
NoneIsNone ==
  (~page.loading /\ ~page.error /\ Drawn(page) = {}) =>
    \A l \in Matching(page.filter) : page.gear = "manual" /\ l \notin Manual

(* Below cars that are drawn, scrolling brings the next page.                                    *)
ScrollGoesOn ==
  (page.next # NoCursor /\ Drawn(page) # {}) ~> (page.next = NoCursor \/ Drawn(page) = {} \/ page.loading)
=============================================================================
