----------------------------- MODULE MyListings -----------------------------
(***************************************************************************)
(* The seller's listings in ProfilePage: the tabs of published, archived    *)
(* and draft listings, which share useMyListings, and the handlers behind   *)
(* their buttons, each at once (Marketplace has their steps).  What is done *)
(* by moderators, buyers, the job or another page is Elsewhere.             *)
(***************************************************************************)
EXTENDS Naturals, FiniteSets

CONSTANTS
  Listings, Calls,
  Started,    \* the statuses the listings may have at the start
  Acts        \* "elsewhere": others change listings; "fail": requests fail

VARIABLES
  row,      \* row[l]: listings.status
  page,     \* the tab drawn: list, loading, dialog, the listing each button waits for
  call,     \* call[c]: a request of the page
  deleted,  \* history: listings the page said are deleted
  mixed     \* history: since the tab was drawn, two loads at once or a failure

vars == <<row, page, call, deleted, mixed>>

Statuses == {"draft", "pending_review", "active", "reserved", "sold", "archived"}
Tabs == {"listings", "archive", "drafts"}

\* Which statuses a tab lists, which of them have buttons, and the buttons
Listed == [listings |-> {"active", "reserved"}, archive |-> {"archived", "sold"},
           drafts |-> {"draft", "pending_review"}]
Buttoned == [listings |-> "active", archive |-> "archived", drafts |-> "draft"]
Buttons == [listings |-> {"deactivate", "archive", "delete"},
            archive |-> {"activate", "delete"}, drafts |-> {"publish", "delete"}]
Ops == UNION {Buttons[t] : t \in Tabs}
Publishes == {"activate", "publish"}

NoCall == [kind |-> "idle", step |-> "idle", l |-> "none", data |-> <<>>, heard |-> FALSE]
NoDialog == [op |-> "none", l |-> "none"]
Drawn(tab) == [tab |-> tab, list |-> <<>>, loading |-> tab # "none", dialog |-> NoDialog,
               busy |-> [op \in Ops |-> "none"]]

Init ==
  /\ row \in [Listings -> Started]
  /\ page = Drawn("none")
  /\ call = [c \in Calls |-> NoCall]
  /\ deleted = {}
  /\ mixed = FALSE

Loads == {c \in Calls : call[c].kind \in {"my", "details"} /\ call[c].heard}
Load == [NoCall EXCEPT !.kind = "my", !.step = "sent", !.heard = TRUE]

\* Another tab of the profile, or the same one again, is drawn and loads.
setActiveTab(c, tab) ==
  /\ call[c] = NoCall
  /\ page' = Drawn(tab)
  /\ call' = [d \in Calls |-> IF d = c THEN Load ELSE [call[d] EXCEPT !.heard = FALSE]]
  /\ mixed' = \E d \in Calls : call[d].kind \in Ops
  /\ UNCHANGED <<row, deleted>>

\* The list is drawn at once and, once the details with the images are there, again.
listed(c) ==
  /\ call[c].kind = "my" /\ call[c].step \in {"ok", "failed"}
  /\ page' = IF ~call[c].heard THEN page
             ELSE IF call[c].step = "ok" THEN [page EXCEPT !.list = call[c].data]
             ELSE [page EXCEPT !.list = <<>>, !.loading = FALSE]
  /\ call' = [call EXCEPT ![c] = IF @.step = "ok" THEN [@ EXCEPT !.kind = "details", !.step = "sent"]
                                 ELSE NoCall]
  /\ mixed' = (mixed \/ (call[c].heard /\ call[c].step = "failed"))
  /\ UNCHANGED <<row, deleted>>

\* allSettled: no detail that fails keeps the list from being drawn.
Detailed(p, r) == [p EXCEPT !.list = r.data, !.loading = FALSE]
detailed(c) ==
  /\ call[c].kind = "details"
  /\ page' = IF call[c].heard THEN Detailed(page, call[c]) ELSE page
  /\ call' = [call EXCEPT ![c] = NoCall]
  /\ UNCHANGED <<row, deleted, mixed>>

Cards == {l \in DOMAIN page.list : page.list[l] \in Listed[page.tab]}
OnScreen == page.tab # "none" /\ ~page.loading /\ Cards # {}
Waiting == {page.busy[op] : op \in Ops}

\* A button opens its dialog, which covers the page.
Enabled(l) == l \notin Waiting
ask(op, l) ==
  /\ OnScreen /\ page.dialog = NoDialog
  /\ op \in Buttons[page.tab] /\ l \in Cards /\ page.list[l] = Buttoned[page.tab]
  /\ Enabled(l)
  /\ page' = [page EXCEPT !.dialog = [op |-> op, l |-> l]]
  /\ UNCHANGED <<row, call, deleted, mixed>>

dismiss ==
  /\ OnScreen /\ page.dialog # NoDialog
  /\ page' = [page EXCEPT !.dialog = NoDialog]
  /\ UNCHANGED <<row, call, deleted, mixed>>

\* handleDeactivate, handleArchive, handleDelete, handleActivate, handlePublish
handle(c) ==
  LET d == page.dialog
  IN /\ OnScreen /\ d # NoDialog /\ page.busy[d.op] = "none" /\ call[c] = NoCall
     /\ page' = [page EXCEPT !.busy[d.op] = d.l, !.dialog = NoDialog]
     /\ call' = [call EXCEPT ![c] = [NoCall EXCEPT !.kind = d.op, !.l = d.l, !.step = "sent",
                                                   !.heard = TRUE]]
     /\ UNCHANGED <<row, deleted, mixed>>

\* A success loads the list again, a failure does not; either frees the button.
After(r) == IF r.step = "ok" /\ r.heard THEN Load ELSE NoCall
handled(c) ==
  LET r == call[c]
      ok == r.step = "ok" /\ r.heard
  IN /\ r.kind \in Ops /\ r.step \in {"ok", "failed"}
     /\ page' = IF r.heard THEN [page EXCEPT !.busy[r.kind] = "none", !.loading = @ \/ After(r) # NoCall]
                ELSE page
     /\ call' = [call EXCEPT ![c] = After(r)]
     /\ deleted' = IF ok /\ r.kind = "delete" THEN deleted \cup {r.l} ELSE deleted
     /\ mixed' = (mixed \/ (r.heard /\ (r.step = "failed" \/ Loads # {})))
     /\ UNCHANGED row

-----------------------------------------------------------------------------
Reply(c, step, data) == call' = [call EXCEPT ![c].step = step, ![c].data = data]

my_listings(c) ==
  /\ call[c].kind = "my" /\ call[c].step = "sent"
  /\ Reply(c, "ok", row)
  /\ UNCHANGED <<row, page, deleted, mixed>>

publish_listing(c) ==
  /\ call[c].kind \in Publishes /\ call[c].step = "sent"
  /\ row' = [row EXCEPT ![call[c].l] = "pending_review"]
  /\ Reply(c, "ok", <<>>)
  /\ UNCHANGED <<page, deleted, mixed>>

delete_listing(c) ==
  LET l == call[c].l
  IN /\ call[c].kind \in Ops \ Publishes /\ call[c].step = "sent"
     /\ IF row[l] = "reserved" THEN Reply(c, "failed", <<>>) /\ UNCHANGED row
        ELSE Reply(c, "ok", <<>>) /\ row' = [row EXCEPT ![l] = "archived"]
     /\ UNCHANGED <<page, deleted, mixed>>

\* The request or its answer is lost, or a publication is refused.
Fails(c) ==
  /\ "fail" \in Acts /\ call[c].kind # "details" /\ call[c].step \in {"sent", "ok"}
  /\ Reply(c, "failed", <<>>)
  /\ UNCHANGED <<row, page, deleted, mixed>>

Moves == {<<"pending_review", "active">>, <<"pending_review", "archived">>,
          <<"active", "reserved">>, <<"active", "archived">>,
          <<"reserved", "active">>, <<"reserved", "sold">>}
Elsewhere(l) ==
  /\ "elsewhere" \in Acts
  /\ \E m \in Moves : row[l] = m[1] /\ row' = [row EXCEPT ![l] = m[2]]
  /\ UNCHANGED <<page, call, deleted, mixed>>

Serve(c) == my_listings(c) \/ publish_listing(c) \/ delete_listing(c)
Hear(c) == listed(c) \/ detailed(c) \/ handled(c)

Next ==
  \/ \E c \in Calls : Serve(c) \/ Hear(c) \/ Fails(c) \/ handle(c)
                        \/ \E tab \in Tabs : setActiveTab(c, tab)
  \/ \E l \in Listings : Elsewhere(l) \/ \E op \in Ops : ask(op, l)
  \/ dismiss

Spec == Init /\ [][Next]_vars

-----------------------------------------------------------------------------
\* A button that waits has a request that frees it, and the spinner a load.
TypeOK ==
  /\ row \in [Listings -> Statuses]
  /\ DOMAIN page.list \subseteq Listings
  /\ \A op \in Ops : page.busy[op] # "none" =>
       \E c \in Calls : call[c].kind = op /\ call[c].l = page.busy[op] /\ call[c].heard
  /\ page.loading => Loads # {}

\* A tab whose loads came one at a time and all succeeded shows the listings as they
\* are, once nothing is under way and no one else changed them.
ShowsItsChanges ==
  page.tab # "none" /\ ~mixed /\ (\A c \in Calls : call[c].heard => FALSE) => page.list = row

-----------------------------------------------------------------------------
\* What the code, its texts or its tests say and a behaviour refutes: see the README.

\* Once nothing is under way a tab shows the listings as they are, when no one else changed them.
ShowsTheLast ==
  page.tab # "none" /\ (\A c \in Calls : call[c] = NoCall) => page.list = row

\* What the page said is deleted is in none of its tabs.
DeletedIsGone == \A l \in deleted : l \notin Cards
=============================================================================
