------------------------------- MODULE Tickets -------------------------------
(***************************************************************************)
(* Support tickets: TicketsTab of ProfilePage for one user, MessagesTab of   *)
(* AdminPage for one member of staff, and api/routes/tickets.py between     *)
(* them.  A text is said at most once; a title has no identity.             *)
(***************************************************************************)
EXTENDS Naturals, FiniteSets, Sequences

CONSTANTS
  Tickets, Texts, Calls,
  Statuses,     \* the statuses looked at, "open" among them
  Acts          \* the people and faults of the instance: "user", "staff", "api", "lost"

VARIABLES
  row,      \* row[t]: the status of a ticket, or "none"
  said,     \* said[t]: the messages of a ticket
  tab,      \* TicketsTab: view, list, detail and what is awaited
  adm,      \* MessagesTab: its rows, filter and what is awaited
  call,     \* call[c]: a request of one of the two
  meant     \* history: meant[x]: the ticket on screen when x was sent

vars == <<row, said, tab, adm, call, meant>>

NoCall == [kind |-> "idle", step |-> "idle", t |-> "none", x |-> "none", st |-> "none",
           data |-> <<>>, heard |-> FALSE]
NoDetail == [id |-> "none", status |-> "none", texts |-> {}]
Answer(c) == call[c].step \in {"ok", "failed"} /\ call' = [call EXCEPT ![c] = NoCall]
Ok(c) == call[c].step = "ok"

Send(c, r) ==
  /\ call[c] = NoCall
  /\ call' = [call EXCEPT ![c] = [r EXCEPT !.step = "sent", !.heard = TRUE]]
Req(kind, t, x, st) == [NoCall EXCEPT !.kind = kind, !.t = t, !.x = x, !.st = st]

\* The tab is drawn anew: TicketsTab is mounted with the profile's tab.
Fresh == [view |-> "list", list |-> <<>>, loading |-> TRUE, sel |-> NoDetail,
          opening |-> FALSE, creating |-> FALSE, sending |-> FALSE, up |-> TRUE]
FreshStaff == [items |-> <<>>, filter |-> "open", search |-> FALSE, processing |-> "none",
               loading |-> FALSE, mixed |-> FALSE, up |-> FALSE]

Init ==
  /\ row \in [Tickets -> {"none", "open"}]
  /\ said = [t \in Tickets |-> {}]
  /\ tab = [Fresh EXCEPT !.up = FALSE, !.loading = FALSE]
  /\ adm = FreshStaff
  /\ call = [c \in Calls |-> NoCall]
  /\ meant = [x \in Texts |-> "none"]

UserKinds == {"my", "get", "create", "say"}
Deaf(kinds) == [c \in Calls |-> IF call[c].kind \in kinds THEN [call[c] EXCEPT !.heard = FALSE]
                                ELSE call[c]]

-----------------------------------------------------------------------------
(* TicketsTab *)

Mount(c) ==
  /\ "user" \in Acts /\ ~tab.up /\ call[c] = NoCall
  /\ tab' = Fresh
  /\ call' = [call EXCEPT ![c] = [Req("my", "none", "none", "none") EXCEPT !.step = "sent",
                                                                          !.heard = TRUE]]
  /\ UNCHANGED <<row, said, adm, meant>>

Leave ==
  /\ tab.up
  /\ tab' = [tab EXCEPT !.up = FALSE]
  /\ call' = Deaf(UserKinds)
  /\ UNCHANGED <<row, said, adm, meant>>

\* The list answers whenever it answers: its rows replace those drawn by then.
AfterList(list, r) == IF r.step = "ok" THEN r.data ELSE <<>>

loadList(c) ==
  /\ call[c].kind = "my" /\ Answer(c)
  /\ tab' = IF call[c].heard
            THEN [tab EXCEPT !.list = AfterList(@, call[c]), !.loading = FALSE] ELSE tab
  /\ UNCHANGED <<row, said, adm, meant>>

openTicket(c, t) ==
  /\ tab.up /\ tab.view = "list" /\ ~tab.loading /\ t \in DOMAIN tab.list
  /\ tab' = [tab EXCEPT !.view = "detail", !.opening = TRUE]
  /\ Send(c, Req("get", t, "none", "none"))
  /\ UNCHANGED <<row, said, adm, meant>>

AfterOpen(s, r) ==
  [s EXCEPT !.opening = FALSE, !.sel = IF r.step = "ok" THEN r.data ELSE @,
            !.view = IF r.step = "ok" THEN @ ELSE "list"]
opened(c) ==
  /\ call[c].kind = "get" /\ Answer(c)
  /\ tab' = IF call[c].heard THEN AfterOpen(tab, call[c]) ELSE tab
  /\ UNCHANGED <<row, said, adm, meant>>

Drawn == tab.up /\ tab.view = "detail" /\ ~tab.opening /\ tab.sel # NoDetail

toList ==
  /\ Drawn \/ (tab.up /\ tab.view = "create")
  /\ tab' = [tab EXCEPT !.view = "list", !.sel = IF Drawn THEN NoDetail ELSE @]
  /\ UNCHANGED <<row, said, adm, call, meant>>

toCreate ==
  /\ tab.up /\ tab.view = "list"
  /\ tab' = [tab EXCEPT !.view = "create"]
  /\ UNCHANGED <<row, said, adm, call, meant>>

handleCreate(c, t) ==
  /\ tab.up /\ tab.view = "create" /\ ~tab.creating
  /\ row[t] = "none" /\ \A d \in Calls : ~(call[d].kind = "create" /\ call[d].t = t)
  /\ tab' = [tab EXCEPT !.creating = TRUE]
  /\ Send(c, Req("create", t, "none", "none"))
  /\ UNCHANGED <<row, said, adm, meant>>

With(items, t, st) == [u \in DOMAIN items \cup {t} |-> IF u = t THEN st ELSE items[u]]

created(c) ==
  /\ call[c].kind = "create" /\ Answer(c)
  /\ tab' = IF ~call[c].heard THEN tab
            ELSE IF Ok(c) THEN [tab EXCEPT !.creating = FALSE, !.view = "list",
                                           !.list = With(@, call[c].t, "open")]
            ELSE [tab EXCEPT !.creating = FALSE]
  /\ UNCHANGED <<row, said, adm, meant>>

\* The form is there while the status drawn is neither "resolved" nor "closed".
IsClosed(st) == st \in {"resolved", "closed"}

\* The ticket the message goes to is the one drawn.
TargetBug == CHOOSE t \in DOMAIN tab.list \cup {tab.sel.id} : TRUE
Target == tab.sel.id

handleSendMsg(c, x) ==
  /\ Drawn /\ ~IsClosed(tab.sel.status) /\ ~tab.sending /\ meant[x] = "none"
  /\ meant' = [meant EXCEPT ![x] = tab.sel.id]
  /\ tab' = [tab EXCEPT !.sending = TRUE]
  /\ Send(c, Req("say", Target, x, "none"))
  /\ UNCHANGED <<row, said, adm>>

\* The answer is appended to the ticket drawn by then, if one is.
sent(c) ==
  /\ call[c].kind = "say" /\ Answer(c)
  /\ tab' = IF ~call[c].heard THEN tab
            ELSE IF Ok(c) /\ tab.sel # NoDetail
                 THEN [tab EXCEPT !.sending = FALSE, !.sel.texts = @ \cup {call[c].x}]
            ELSE [tab EXCEPT !.sending = FALSE]
  /\ UNCHANGED <<row, said, adm, meant>>

-----------------------------------------------------------------------------
(* MessagesTab *)

StaffCalls == {c \in Calls : call[c].kind \in {"list", "set"} /\ call[c].heard}

\* The effect on load and the refresh button: load reads the filter of its render.
Load(c, filter) == Send(c, Req("list", "none", "none", filter))
Busy(a) == [a EXCEPT !.mixed = @ \/ StaffCalls # {}]
Loading(a) == [Busy(a) EXCEPT !.loading = TRUE]

\* A spinner stands for the whole tab while it loads and has nothing to show.
Staff == adm.up /\ ~(adm.loading /\ DOMAIN adm.items = {})

Open(c) ==
  /\ "staff" \in Acts /\ ~adm.up
  /\ adm' = [FreshStaff EXCEPT !.up = TRUE, !.loading = TRUE,
                               !.mixed = \E d \in Calls : call[d].kind = "set"]
  /\ Load(c, "open")
  /\ UNCHANGED <<row, said, tab, meant>>

Close ==
  /\ adm.up
  /\ adm' = [adm EXCEPT !.up = FALSE]
  /\ call' = Deaf({"list", "set"})
  /\ UNCHANGED <<row, said, tab, meant>>

setFilterStatus(c, f) ==
  /\ Staff /\ f # adm.filter
  /\ IF adm.search THEN adm' = [adm EXCEPT !.filter = f] /\ call[c] = NoCall /\ UNCHANGED call
     ELSE adm' = [Loading(adm) EXCEPT !.filter = f] /\ Load(c, f)
  /\ UNCHANGED <<row, said, tab, meant>>

setSearchQuery(c) ==
  /\ Staff
  /\ IF adm.search THEN adm' = [Loading(adm) EXCEPT !.search = FALSE] /\ Load(c, adm.filter)
     ELSE adm' = [adm EXCEPT !.search = TRUE] /\ call[c] = NoCall /\ UNCHANGED call
  /\ UNCHANGED <<row, said, tab, meant>>

refresh(c) ==
  /\ Staff /\ ~adm.search
  /\ adm' = Loading(adm)
  /\ Load(c, adm.filter)
  /\ UNCHANGED <<row, said, tab, meant>>

loaded(c) ==
  /\ call[c].kind = "list" /\ Answer(c)
  /\ adm' = IF ~call[c].heard THEN adm
            ELSE IF Ok(c) THEN [adm EXCEPT !.items = call[c].data, !.loading = FALSE]
            ELSE [adm EXCEPT !.loading = FALSE, !.mixed = TRUE]
  /\ UNCHANGED <<row, said, tab, meant>>

Shown == {t \in DOMAIN adm.items : adm.filter = "all" \/ adm.items[t] = adm.filter}

\* One ticket at a time is marked as processed; the call remembers the filter and
\* the search of the render it was made in.
handleStatusChange(c, t, st) ==
  /\ Staff /\ t \in Shown /\ adm.items[t] # st /\ adm.processing # t
  /\ adm' = [Busy(adm) EXCEPT !.processing = t]
  /\ Send(c, [Req("set", t, adm.filter, st) EXCEPT !.data = adm.search])
  /\ UNCHANGED <<row, said, tab, meant>>

\* What follows a change: load() of that render, unless it had a search.
ThenLoadBug(r) == NoCall
ThenLoad(r) ==
  IF r.step = "ok" /\ ~r.data
  THEN [Req("list", "none", "none", r.x) EXCEPT !.step = "sent", !.heard = r.heard]
  ELSE NoCall

statusChanged(c) ==
  /\ call[c].kind = "set" /\ call[c].step \in {"ok", "failed"}
  /\ adm' = IF call[c].heard
            THEN [adm EXCEPT !.processing = "none", !.mixed = @ \/ ~Ok(c),
                             !.loading = @ \/ ThenLoad(call[c]) # NoCall]
            ELSE adm
  /\ call' = [call EXCEPT ![c] = ThenLoad(call[c])]
  /\ UNCHANGED <<row, said, tab, meant>>

-----------------------------------------------------------------------------
(* api/routes/tickets.py *)

Rows(S) == [t \in S |-> row[t]]
All == {t \in Tickets : row[t] # "none"}
Reply(c, data) == call' = [call EXCEPT ![c].step = "ok", ![c].data = data]
Sent(c, kind) == call[c].kind = kind /\ call[c].step = "sent"

create_ticket(c) ==
  /\ Sent(c, "create")
  /\ row' = [row EXCEPT ![call[c].t] = "open"]
  /\ Reply(c, <<>>)
  /\ UNCHANGED <<said, tab, adm, meant>>

my_tickets(c) ==
  /\ Sent(c, "my") /\ Reply(c, Rows(All))
  /\ UNCHANGED <<row, said, tab, adm, meant>>

list_tickets(c) ==
  /\ Sent(c, "list")
  /\ Reply(c, Rows({t \in All : call[c].st \in {"all", row[t]}}))
  /\ UNCHANGED <<row, said, tab, adm, meant>>

get_ticket(c) ==
  LET t == call[c].t
  IN /\ Sent(c, "get") /\ Reply(c, [id |-> t, status |-> row[t], texts |-> said[t]])
     /\ UNCHANGED <<row, said, tab, adm, meant>>

\* The status of the ticket is not looked at.
add_message(c) ==
  /\ Sent(c, "say")
  /\ said' = [said EXCEPT ![call[c].t] = @ \cup {call[c].x}]
  /\ Reply(c, <<>>)
  /\ UNCHANGED <<row, tab, adm, meant>>

update_ticket(c) ==
  /\ Sent(c, "set")
  /\ row' = [row EXCEPT ![call[c].t] = call[c].st]
  /\ call' = [call EXCEPT ![c].step = "ok"]
  /\ UNCHANGED <<said, tab, adm, meant>>

\* Staff answers through the interface of the server: no page has a form for it.
StaffSays(t, x) ==
  /\ "api" \in Acts /\ row[t] # "none" /\ meant[x] = "none"
  /\ said' = [said EXCEPT ![t] = @ \cup {x}]
  /\ meant' = [meant EXCEPT ![x] = t]
  /\ UNCHANGED <<row, tab, adm, call>>

Lost(c) ==
  /\ "lost" \in Acts /\ call[c].step \in {"sent", "ok"}
  /\ call' = [call EXCEPT ![c].step = "failed",
                          ![c].data = IF call[c].kind = "set" THEN @ ELSE <<>>]
  /\ UNCHANGED <<row, said, tab, adm, meant>>

-----------------------------------------------------------------------------
Serve(c) == create_ticket(c) \/ my_tickets(c) \/ list_tickets(c) \/ get_ticket(c)
              \/ add_message(c) \/ update_ticket(c)
Hear(c) == loadList(c) \/ opened(c) \/ created(c) \/ sent(c) \/ loaded(c) \/ statusChanged(c)

TicketsTab(c) ==
  \/ Mount(c)
  \/ \E t \in Tickets : openTicket(c, t) \/ handleCreate(c, t)
  \/ \E x \in Texts : handleSendMsg(c, x)
MessagesTab(c) ==
  \/ Open(c) \/ setSearchQuery(c) \/ refresh(c)
  \/ \E f \in Statuses \cup {"all"} : setFilterStatus(c, f)
  \/ \E t \in Tickets, st \in Statuses : handleStatusChange(c, t, st)

Next ==
  \/ \E c \in Calls : Serve(c) \/ Hear(c) \/ Lost(c) \/ TicketsTab(c) \/ MessagesTab(c)
  \/ Leave \/ toList \/ toCreate \/ Close
  \/ \E t \in Tickets, x \in Texts : StaffSays(t, x)

Spec == Init /\ [][Next]_vars

-----------------------------------------------------------------------------
\* What the tabs draw exists, and every detail awaited has a request that brings it.
TypeOK ==
  /\ row \in [Tickets -> Statuses \cup {"none"}]
  /\ \A t \in Tickets : said[t] \subseteq Texts
  /\ DOMAIN tab.list \cup DOMAIN adm.items \subseteq All
  /\ tab.sel = NoDetail \/ tab.sel.id \in All
  /\ tab.up /\ tab.opening => \E c \in Calls : call[c].kind = "get" /\ call[c].heard

\* A message goes to the ticket that was on screen when it was sent, however long the
\* request takes and whatever the user opens meanwhile.
SaidWhereMeant == \A t \in Tickets : \A x \in said[t] : meant[x] = t

\* A tab of staff that asked one thing at a time, all answered and none left over from
\* an earlier visit, shows the tickets of its filter when it is not searched and no one
\* else changed a ticket: its own changes are in the list it shows.
StaffSeesItsChanges ==
  LET quiet == adm.up /\ ~adm.mixed /\ ~adm.search /\ StaffCalls = {}
  IN quiet => Shown = {t \in All : adm.filter \in {"all", row[t]}}

-----------------------------------------------------------------------------
\* What the code, its texts or its tests say and a behaviour refutes: see the README.

\* The tickets under a filter are the tickets with that status, once all is answered.
FilterShowsItsTickets ==
  adm.up /\ ~adm.search /\ StaffCalls = {} => Shown = {t \in All : adm.filter \in {"all", row[t]}}

\* The messages drawn under a ticket are messages of that ticket.
MessagesOfTheTicket == Drawn => tab.sel.texts \subseteq said[tab.sel.id]

\* A ticket the user created is in the list, once the list is there.
CreatedIsListed ==
  tab.up /\ ~tab.loading /\ ~tab.creating => All \subseteq DOMAIN tab.list

\* A ticket that is closed takes no more messages.
ClosedTakesNone == [][\A t \in Tickets : IsClosed(row[t]) => said'[t] = said[t]]_vars
=============================================================================
