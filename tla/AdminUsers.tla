----------------------------- MODULE AdminUsers -----------------------------
(***************************************************************************)
(* UsersTab of AdminPage, where an administrator creates, edits and deletes *)
(* users, and the user routes of /admin.  Users are their numbers in order  *)
(* of creation; the administrator's own row, which the page does not        *)
(* delete, is not among them.  A query finds one user.                      *)
(***************************************************************************)
EXTENDS Naturals, FiniteSets

CONSTANTS
  Users,      \* a set of numbers
  Emails, Calls,
  PageSize,   \* the users a request is answered with
  Acts        \* "search", "filter", "elsewhere", "fail": what happens in a run

VARIABLES
  row,        \* row[u]: email and status; "new" before and "gone" after it exists
  tab,        \* the state of UsersTab
  call,       \* call[c]: a request of the page
  banned,     \* history: users another administrator banned
  mixed       \* history: an answer heard beside a request or change, or a failure

vars == <<row, tab, call, banned, mixed>>

None == 0
Statuses == {"active", "banned"}
NoRow(s) == [email |-> "none", status |-> s]
Rows == {u \in Users : row[u].status \in Statuses}
Taken(e, u) == \E v \in Rows \ {u} : row[v].email = e

\* get_users: the newest first.  No page but the first is ever asked for, for Pagination
\* draws no buttons when the count, which the page takes from the page it has, fits one.
get_users == {u \in Rows : Cardinality({v \in Rows : v > u}) < PageSize}
Answer == [u \in get_users |-> row[u]]

NoCall == [kind |-> "idle", step |-> "idle", u |-> None, email |-> "none", status |-> "none",
           seen |-> "none", query |-> None, filter |-> "", data |-> <<>>]
NoForm == [open |-> FALSE, u |-> None, email |-> "none", status |-> "none", seen |-> "none"]
\* Load or, with a query, performSearch, under the filter of the render they belong to.
Lookup(q, f) == [NoCall EXCEPT !.kind = "list", !.step = "sent", !.query = q, !.filter = f]

Init ==
  /\ \E n \in 0..Cardinality(Users) : \E e \in [Users -> Emails] :
       /\ row = [u \in Users |-> IF u <= n THEN [email |-> e[u], status |-> "active"]
                                 ELSE NoRow("new")]
       /\ \A u, v \in 1..n : e[u] = e[v] => u = v
  /\ tab = [users |-> <<>>, found |-> <<>>, count |-> 0, filter |-> "", query |-> None,
            debounced |-> None, loading |-> TRUE, form |-> NoForm, saving |-> FALSE,
            modal |-> None, deleting |-> FALSE]
  /\ \E c \in Calls : call = [d \in Calls |-> IF d = c THEN Lookup(None, "") ELSE NoCall]
  /\ banned = {}
  /\ mixed = FALSE

Searching == tab.query # None
Drawn == IF Searching THEN tab.found ELSE tab.users
Spinner == tab.loading /\ tab.users = <<>> /\ ~Searching
Free == tab.form = NoForm /\ tab.modal = None /\ ~Spinner
Busy == {c \in Calls : call[c] # NoCall}

\* The effects of load and performSearch, as far as the state they depend on changed.
Effects(new, loads, searches) ==
  LET load == loads /\ new.query = None
      search == searches /\ new.debounced # None
      sent == (IF load THEN {Lookup(None, new.filter)} ELSE {}) \cup
              (IF search THEN {Lookup(new.debounced, new.filter)} ELSE {})
  IN /\ tab' = [new EXCEPT !.loading = @ \/ load, !.found = IF searches /\ ~search THEN <<>> ELSE @]
     /\ \E f \in [sent -> {c \in Calls : call[c] = NoCall}] :
          /\ \A r, s \in sent : f[r] = f[s] => r = s
          /\ call' = [c \in Calls |-> IF \E r \in sent : f[r] = c THEN CHOOSE r \in sent : f[r] = c
                                      ELSE call[c]]
     /\ UNCHANGED <<row, banned, mixed>>

refresh == Free /\ ~Searching /\ Effects(tab, TRUE, FALSE)

setFilterStatus(f) ==
  /\ "filter" \in Acts /\ Free /\ f # tab.filter
  /\ Effects([tab EXCEPT !.filter = f], TRUE, TRUE)

setSearchQuery(q) ==
  /\ "search" \in Acts /\ Free /\ q # tab.query
  /\ Effects([tab EXCEPT !.query = q, !.found = IF q = None THEN <<>> ELSE @], TRUE, FALSE)

useDebounce ==
  /\ tab.debounced # tab.query
  /\ Effects([tab EXCEPT !.debounced = tab.query], FALSE, TRUE)

UI(new) == tab' = new /\ UNCHANGED <<row, call, banned, mixed>>

openCreate ==
  /\ Free
  /\ \E e \in Emails : UI([tab EXCEPT !.form = [NoForm EXCEPT !.open = TRUE, !.email = e]])

\* The form takes every field from the list and what the administrator changes in it.
openEdit(u) ==
  /\ Free /\ u \in DOMAIN Drawn
  /\ \E e \in Emails, s \in Statuses :
       /\ e = Drawn[u].email \/ s = Drawn[u].status
       /\ UI([tab EXCEPT !.form = [open |-> TRUE, u |-> u, email |-> e, status |-> s,
                                  seen |-> Drawn[u].status]])

handleDelete(u) == Free /\ u \in DOMAIN Drawn /\ UI([tab EXCEPT !.modal = u])

onClose == ~Free /\ ~Spinner /\ UI([tab EXCEPT !.form = NoForm, !.modal = None])

\* The request belongs to the render it was sent from: its query and filter are that one's.
handleSave(c) ==
  LET f == tab.form
  IN /\ f.open /\ ~tab.saving /\ ~Spinner /\ call[c] = NoCall
     /\ tab' = [tab EXCEPT !.saving = TRUE]
     /\ call' = [call EXCEPT ![c] = [Lookup(tab.query, tab.filter) EXCEPT !.kind = "save",
                   !.u = f.u, !.email = f.email, !.status = f.status, !.seen = f.seen]]
     /\ UNCHANGED <<row, banned, mixed>>

confirmDeleteUser(c) ==
  /\ tab.modal # None /\ ~tab.deleting /\ ~Spinner /\ call[c] = NoCall
  /\ tab' = [tab EXCEPT !.deleting = TRUE]
  /\ call' = [call EXCEPT ![c] = [Lookup(tab.query, tab.filter) EXCEPT !.kind = "delete", !.u = tab.modal]]
  /\ UNCHANGED <<row, banned, mixed>>

Done(c) == call[c].step \in {"ok", "failed"}
Mix(c) == mixed' = (mixed \/ call[c].step = "failed" \/ Busy # {c}
                      \/ call[c].filter # tab.filter \/ call[c].query \notin {tab.query, None})

\* A success closes whatever form or dialog of its kind is open, and looks again.
After(r) == IF r.step = "ok" THEN Lookup(r.query, r.filter) ELSE NoCall
changed(c) ==
  LET r == call[c]
      ok == r.step = "ok"
  IN /\ r.kind \in {"save", "delete"} /\ Done(c)
     /\ tab' = [tab EXCEPT !.saving = @ /\ r.kind # "save", !.deleting = @ /\ r.kind # "delete",
                           !.form = IF ok /\ r.kind = "save" THEN NoForm ELSE @,
                           !.modal = IF ok /\ r.kind = "delete" THEN None ELSE @,
                           !.loading = @ \/ (ok /\ r.query = None)]
     /\ call' = [call EXCEPT ![c] = After(r)]
     /\ Mix(c)
     /\ UNCHANGED <<row, banned>>

\* The page filters what it got, and counts what is left.
Filtered(r) == {u \in DOMAIN r.data : r.filter \in {"", r.data[u].status} /\ r.query \in {None, u}}
heard(c) ==
  LET r == call[c]
      ok == r.step = "ok"
      list == [u \in Filtered(r) |-> r.data[u]]
  IN /\ r.kind = "list" /\ Done(c)
     /\ tab' = IF r.query # None THEN [tab EXCEPT !.found = IF ok THEN list ELSE <<>>]
               ELSE [tab EXCEPT !.loading = FALSE, !.users = IF ok THEN list ELSE @,
                                !.count = IF ok THEN Cardinality(DOMAIN list) ELSE @]
     /\ call' = [call EXCEPT ![c] = NoCall]
     /\ Mix(c)
     /\ UNCHANGED <<row, banned>>

-----------------------------------------------------------------------------
Reply(c, step, data) == call' = [call EXCEPT ![c].step = step, ![c].data = data]

list_users(c) ==
  /\ call[c].kind = "list" /\ call[c].step = "sent"
  /\ Reply(c, "ok", Answer)
  /\ UNCHANGED <<row, tab, banned, mixed>>

\* create_user_route, update_user_route: the address is looked up before the row is written,
Checked(r) == ~Taken(r.email, r.u) /\ (r.u = None \/ r.u \in Rows)
check_email(c) ==
  /\ call[c].kind = "save" /\ call[c].step = "sent"
  /\ Reply(c, IF Checked(call[c]) THEN "checked" ELSE "failed", <<>>)
  /\ UNCHANGED <<row, tab, banned, mixed>>

\* and the unique index refuses it when another request wrote it in between.  No more users
\* are created than Users has.
Writable(r) == ~Taken(r.email, r.u) /\ (r.u = None \/ r.u \in Rows)
write_user(c) ==
  LET r == call[c]
      fresh == {u \in Users : row[u].status = "new" /\ \A v \in Users : v < u => row[v].status # "new"}
      written == [email |-> r.email, status |-> IF r.u = None THEN "active" ELSE r.status]
  IN /\ r.kind = "save" /\ r.step = "checked"
     /\ IF ~Writable(r) \/ (r.u = None /\ fresh = {}) THEN Reply(c, "failed", <<>>) /\ UNCHANGED <<row, banned>>
        ELSE /\ \E u \in (IF r.u = None THEN fresh ELSE {r.u}) : row' = [row EXCEPT ![u] = written]
             /\ banned' = IF "banned" \in {r.status, r.seen} THEN banned \ {r.u} ELSE banned
             /\ Reply(c, "ok", <<>>)
     /\ UNCHANGED <<tab, mixed>>

\* A user with listings, reservations or tickets is not deleted: one of Fails.
delete_user_route(c) ==
  LET u == call[c].u
  IN /\ call[c].kind = "delete" /\ call[c].step = "sent"
     /\ IF u \notin Rows THEN Reply(c, "failed", <<>>) /\ UNCHANGED row
        ELSE row' = [row EXCEPT ![u] = NoRow("gone")] /\ Reply(c, "ok", <<>>)
     /\ UNCHANGED <<tab, banned, mixed>>

Fails(c) ==
  /\ "fail" \in Acts /\ call[c].step \in {"sent", "checked", "ok"}
  /\ Reply(c, "failed", <<>>)
  /\ UNCHANGED <<row, tab, banned, mixed>>

\* Another administrator changes a user's address or bans them, or someone registers.
Elsewhere(u, e, s) ==
  /\ "elsewhere" \in Acts /\ ~Taken(e, u)
  /\ row[u].status # "gone" /\ (row[u].status = "new" => \A v \in Users : v < u => row[v].status # "new")
  /\ s \in {"banned", row[u].status} \/ row[u].status = "new"
  /\ row' = [row EXCEPT ![u] = [email |-> e, status |-> s]]
  /\ banned' = IF s = "banned" THEN banned \cup {u} ELSE banned
  /\ mixed' = TRUE
  /\ UNCHANGED <<tab, call>>

Serve(c) == list_users(c) \/ check_email(c) \/ write_user(c) \/ delete_user_route(c)
Hear(c) == heard(c) \/ changed(c)

Next ==
  \/ \E c \in Calls : Serve(c) \/ Hear(c) \/ Fails(c) \/ handleSave(c) \/ confirmDeleteUser(c)
  \/ \E u \in Users : openEdit(u) \/ handleDelete(u)
                        \/ \E e \in Emails, s \in Statuses : Elsewhere(u, e, s)
  \/ \E f \in Statuses \cup {""} : setFilterStatus(f)
  \/ \E q \in Users \cup {None} : setSearchQuery(q)
  \/ refresh \/ useDebounce \/ openCreate \/ onClose

Spec == Init /\ [][Next]_vars

-----------------------------------------------------------------------------
\* A form that saves and a dialog that deletes have the one request that ends it.
TypeOK ==
  /\ tab.count = Cardinality(DOMAIN tab.users)
  /\ Cardinality({c \in Calls : call[c].kind = "save"}) = (IF tab.saving THEN 1 ELSE 0)
  /\ Cardinality({c \in Calls : call[c].kind = "delete"}) = (IF tab.deleting THEN 1 ELSE 0)

Quiet == Busy = {} /\ tab.debounced = tab.query

\* When requests came one at a time, none failed and no one else changed users, the tab
\* shows the newest users under its filter as they are.
ShowsItsChanges ==
  ~mixed /\ Quiet /\ ~Searching =>
    /\ \A u \in DOMAIN tab.users : tab.users[u] = row[u]
    /\ DOMAIN tab.users = {u \in get_users : tab.filter \in {"", row[u].status}}

-----------------------------------------------------------------------------
\* What the code, its texts or its tests say and a behaviour refutes: see the README.

\* Once nothing is under way every user drawn is under the filter that is drawn selected.
DrawnUnderFilter == Quiet => \A u \in DOMAIN Drawn : tab.filter \in {"", Drawn[u].status}

\* The number in the title is the number of users.
CountsUsers == ~mixed /\ Quiet /\ ~Searching /\ tab.filter = "" => tab.count = Cardinality(Rows)

\* A search that ended found the user it is for.
FindsEveryUser ==
  ~mixed /\ Quiet /\ Searching /\ tab.filter = "" /\ tab.query \in Rows /\ tab.found = <<>> => FALSE

\* A ban stays until an administrator lifts it: who saves a form opened before did not.
BanStays == \A u \in banned : row[u].status # "active"
=============================================================================
