---------------------------- MODULE Notifications ----------------------------
(***************************************************************************)
(* Notifications of one user: the bells of Header, one for wide screens and *)
(* one for narrow ones, each with a list of its own, and the rows behind     *)
(* api/routes/notifications.py.  A bell loads when it mounts and each time  *)
(* it is opened; marks are drawn after the server answered.                 *)
(***************************************************************************)
EXTENDS Naturals, FiniteSets, Sequences

CONSTANTS
  Bells, Notes, Calls,
  Limit    \* limit of list_for_user

VARIABLES
  rows,    \* rows[n]: whether the notification is read, or "none"
  newest,  \* the order of creation
  bell,    \* bell[b]: its items with the reading drawn, open, mounted
  call,    \* call[c]: a request of a bell
  mixed    \* history: bells that had two requests at once since they mounted

vars == <<rows, newest, bell, call, mixed>>

NoCall == [kind |-> "idle", b |-> "none", n |-> "none", step |-> "idle", data |-> <<>>,
           heard |-> FALSE]
Empty == [items |-> <<>>, open |-> FALSE]

Init ==
  /\ rows = [n \in Notes |-> "none"]
  /\ newest = <<>>
  /\ bell = [b \in Bells |-> Empty]
  /\ call = [c \in Calls |-> NoCall]
  /\ mixed = {}

Of(b) == {c \in Calls : call[c].b = b /\ call[c].heard}
Unread(b) == {n \in DOMAIN bell[b].items : bell[b].items[n] = "unread"}

Send(c, kind, b, n) ==
  /\ call[c] = NoCall
  /\ call' = [call EXCEPT ![c] = [NoCall EXCEPT !.kind = kind, !.b = b, !.n = n,
                                    !.step = "sent", !.heard = TRUE]]
  /\ mixed' = IF Of(b) # {} THEN mixed \cup {b} ELSE mixed

\* The header draws the bell again, after the page was loaded.
Mount(b, c) ==
  /\ call[c] = NoCall
  /\ bell' = [bell EXCEPT ![b] = Empty]
  /\ call' = [d \in Calls |->
       IF d = c THEN [NoCall EXCEPT !.kind = "list", !.b = b, !.step = "sent", !.heard = TRUE]
       ELSE IF call[d].b = b THEN [call[d] EXCEPT !.heard = FALSE] ELSE call[d]]
  /\ mixed' = mixed \ {b}
  /\ UNCHANGED <<rows, newest>>

handleToggle(b, c) ==
  /\ bell' = [bell EXCEPT ![b].open = ~@]
  /\ IF bell[b].open THEN call[c] = NoCall /\ UNCHANGED <<call, mixed>>
     ELSE Send(c, "list", b, "none")
  /\ UNCHANGED <<rows, newest>>

\* The button shows while something is drawn as unread.
handleMarkAllRead(b, c) ==
  /\ bell[b].open /\ Unread(b) # {}
  /\ Send(c, "all", b, "none")
  /\ UNCHANGED <<rows, newest, bell>>

handleMarkOne(b, c, n) ==
  /\ bell[b].open /\ n \in Unread(b)
  /\ Send(c, "one", b, n)
  /\ UNCHANGED <<rows, newest, bell>>

\* Answers: a list replaces the items, a mark changes those drawn by then.
AfterAnswerBug(items, r) ==
  CASE r.kind = "list" -> r.data
    [] r.kind = "one"  -> [n \in DOMAIN items |-> IF n = r.n THEN "read" ELSE items[n]]
    [] OTHER           -> [n \in DOMAIN items |-> "read"]
AfterAnswer(items, r) ==
  IF r.step = "failed" THEN items
  ELSE CASE r.kind = "list" -> r.data
         [] r.kind = "one"  -> [n \in DOMAIN items |-> IF n = r.n THEN "read" ELSE items[n]]
         [] OTHER           -> [n \in DOMAIN items |-> "read"]

Answered(c) ==
  LET r == call[c]
  IN /\ r.step \in {"ok", "failed"}
     /\ bell' = IF r.heard THEN [bell EXCEPT ![r.b].items = AfterAnswer(@, r)] ELSE bell
     /\ call' = [call EXCEPT ![c] = NoCall]
     /\ UNCHANGED <<rows, newest, mixed>>

-----------------------------------------------------------------------------
Reply(c, data) == call' = [call EXCEPT ![c].step = "ok", ![c].data = data]

\* The newest Limit rows
Listed == {newest[i] : i \in {j \in 1 .. Len(newest) : j > Len(newest) - Limit}}

list_notifications(c) ==
  /\ call[c].kind = "list" /\ call[c].step = "sent"
  /\ Reply(c, [n \in Listed |-> rows[n]])
  /\ UNCHANGED <<rows, newest, bell, mixed>>

mark_read(c) ==
  /\ call[c].kind = "one" /\ call[c].step = "sent"
  /\ rows' = [rows EXCEPT ![call[c].n] = "read"]
  /\ Reply(c, <<>>)
  /\ UNCHANGED <<newest, bell, mixed>>

mark_all_read(c) ==
  /\ call[c].kind = "all" /\ call[c].step = "sent"
  /\ rows' = [n \in Notes |-> IF rows[n] = "unread" THEN "read" ELSE rows[n]]
  /\ Reply(c, <<>>)
  /\ UNCHANGED <<newest, bell, mixed>>

\* The request or its answer is lost.
Lost(c) ==
  /\ call[c].step \in {"sent", "ok"}
  /\ call' = [call EXCEPT ![c].step = "failed", ![c].data = <<>>]
  /\ UNCHANGED <<rows, newest, bell, mixed>>

\* A cancellation, refusal or outcome of a reservation
Notify(n) ==
  /\ rows[n] = "none"
  /\ rows' = [rows EXCEPT ![n] = "unread"]
  /\ newest' = Append(newest, n)
  /\ UNCHANGED <<bell, call, mixed>>

Serve(c) == list_notifications(c) \/ mark_read(c) \/ mark_all_read(c)

Next ==
  \/ \E c \in Calls :
       \/ Serve(c) \/ Lost(c) \/ Answered(c)
       \/ \E b \in Bells :
            \/ Mount(b, c) \/ handleToggle(b, c) \/ handleMarkAllRead(b, c)
            \/ \E n \in Notes : handleMarkOne(b, c, n)
  \/ \E n \in Notes : Notify(n)

Spec == Init /\ [][Next]_vars

-----------------------------------------------------------------------------
\* A bell draws at most Limit items, of notifications that exist.
TypeOK ==
  /\ rows \in [Notes -> {"none", "unread", "read"}]
  /\ \A b \in Bells :
       /\ DOMAIN bell[b].items \subseteq {n \in Notes : rows[n] # "none"}
       /\ Cardinality(DOMAIN bell[b].items) <= Limit
       /\ \A n \in DOMAIN bell[b].items : bell[b].items[n] \in {"unread", "read"}
  /\ mixed \subseteq Bells

\* A bell that asked one thing at a time draws as read only what the server has read,
\* whatever the other bell does and whatever is lost: no notification goes unseen.
NothingHidden ==
  \A b \in Bells \ mixed : \A n \in DOMAIN bell[b].items :
    bell[b].items[n] = "read" => rows[n] = "read"

-----------------------------------------------------------------------------
\* What the code, its texts or its tests say and a behaviour refutes: see the README.

\* "Mark all read" hides no notification: what is drawn as read the server has read.
MarksWhatItShows ==
  \A b \in Bells : \A n \in DOMAIN bell[b].items :
    bell[b].items[n] = "read" => rows[n] = "read"
=============================================================================
