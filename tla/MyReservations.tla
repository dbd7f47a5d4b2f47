--------------------------- MODULE MyReservations ---------------------------
(***************************************************************************)
(* "My bookings" of the web client (ReservationsTab of ProfilePage.tsx),   *)
(* open in the browsers of a buyer and a seller, and the handlers of       *)
(* api/routes/reservations.py it calls.  A page acts on the rows it shows, *)
(* which may be older than the table; its calls and its two-stage loads    *)
(* are answered, lost and applied in any order.  A handler is one step:    *)
(* what happens inside handlers is the subject of Reservations.            *)
(* All reservations here are of one car, between one buyer and one seller. *)
(***************************************************************************)
EXTENDS ReservationService, Naturals

CONSTANTS
  Res,        \* reservation ids
  Pages,      \* the parties whose page is open
  Calls,      \* requests of a button a page may have in flight
  Loads,      \* runs of load() a page may have in flight
  MaxFaults   \* how many requests or replies may get lost

PagesAssumption == Pages \subseteq Parties

VARIABLES
  db,         \* db[r]: the row of reservations
  set_by,     \* set_by[r]: its outcome_set_by
  mark,       \* mark[r][q]: the last result q marked and the server accepted
  paylink,    \* reservations whose payment page the buyer has open
  page,       \* page[p]: the state of the component
  call,       \* call[p][c]: a request started by a button
  load,       \* load[p][s]: a run of load()
  faults

server == <<db, set_by, mark, paylink>>
vars == <<db, set_by, mark, paylink, page, call, load, faults>>

Ops == {"cancel", "decline", "delete", "pay"} \cup Outcomes
Revealed == {"active", "settling", "completed"}
Nothing == [status |-> "absent", paid |-> FALSE, outcome |-> None,
            set_by |-> None, contact |-> FALSE]
Free == [phase |-> "free"]

Shown == [status : OpenStatuses \cup _TERMINAL \cup {"absent"}, paid : BOOLEAN,
          outcome : Outcomes \cup {None}, set_by : Parties \cup {None},
          contact : BOOLEAN]
Lists == [Res -> Shown]

Page == [list : Lists, loading : BOOLEAN,
         busy : [{"cancel", "decline", "delete", "pay"} -> Res \cup {None}],
         saving : [Res -> Calls \cup {None}],
         dialog : [{"decline", "delete"} -> Res \cup {None}],
         known : [Res -> 0..3],    \* history: how far the server said it is
         overlap : BOOLEAN]        \* history: two loads ran at a time

NoList == [r \in Res |-> Nothing]
Mounted ==
  [list |-> NoList, loading |-> TRUE,
   busy |-> [o \in {"cancel", "decline", "delete", "pay"} |-> None],
   saving |-> [r \in Res |-> None],
   dialog |-> [o \in {"decline", "delete"} |-> None],
   known |-> [r \in Res |-> 0], overlap |-> FALSE]

\* How far a reservation has come; a closed one, or one not listed, is at the end.
Progress(status) ==
  CASE status = "pending_payment" -> 0
    [] status = "active" -> 1
    [] status = "settling" -> 2
    [] OTHER -> 3

Requested == [phase |-> "sent"]

-----------------------------------------------------------------------------
(* What the page makes of a row.                                           *)

isPaid(row) ==
  \/ row.status \in Revealed
  \/ row.status = "pending_payment" /\ row.paid

matchesFilter(row, filter) ==
  CASE filter = "active" -> isPaid(row) /\ row.status # "completed"
    [] filter = "pending_payment" -> row.status = "pending_payment" /\ ~row.paid
    [] OTHER -> row.status = filter

getResDisplay(row) ==
  IF \/ row.status \in {"active", "settling"}
     \/ (row.status = "pending_payment" /\ row.paid)
  THEN "paid" ELSE row.status

iAlreadyMarked(p, row) == row.status = "settling" /\ row.set_by = p

otherAlreadyMarked(p, row) ==
  row.status = "settling" /\ row.set_by # None /\ row.set_by # p

\* The buttons a row has for a party.
Buttons(p, row) ==
  {o \in Ops :
     CASE o = "pay" -> p = "buyer" /\ row.status = "pending_payment" /\ ~row.paid
       [] o = "cancel" -> p = "buyer" /\ row.status \in {"pending_payment", "active"}
       [] o = "decline" -> p = "seller" /\ row.status \in {"pending_payment", "active"}
       [] o = "delete" -> row.status = "cancelled"
       [] OTHER -> row.status \in {"active", "settling"} /\ ~iAlreadyMarked(p, row)}

-----------------------------------------------------------------------------
\* A new reservation: its buyer got the payment link, or reserve failed between
\* its two commits and there is no payment yet.
Init ==
  /\ \E r \in Res, paid \in BOOLEAN :
       /\ db = [x \in Res |-> IF x = r THEN [build_reservation EXCEPT !.paid_by = paid]
                              ELSE NoRow]
       /\ paylink = IF paid THEN {r} ELSE {}
  /\ set_by = [r \in Res |-> None]
  /\ mark = [r \in Res |-> [q \in Parties |-> None]]
  /\ page = [p \in Pages |-> Mounted]
  /\ call = [p \in Pages |-> [c \in Calls |-> Free]]
  /\ \E s \in Loads :
       load = [p \in Pages |-> [x \in Loads |-> IF x = s THEN Requested ELSE Free]]
  /\ faults = 0

-----------------------------------------------------------------------------
(* load(): the list, then the details of the revealed reservations.  The   *)
(* list is shown twice, before and after the details.                      *)

\* setLoading(true) takes the rows, and the state of their outcome buttons, away.
StartLoad(p, pg) ==
  \E s \in Loads :
    /\ load[p][s] = Free
    /\ load' = [load EXCEPT ![p][s] = Requested]
    /\ page' = [page EXCEPT ![p] =
         [pg EXCEPT !.loading = TRUE, !.saving = [r \in Res |-> None],
                    !.overlap = @ \/ \E x \in Loads : load[p][x] # Free]]

Row2Shown(r) ==
  IF Exists(db[r])
  THEN [status |-> db[r].status, paid |-> db[r].paid_by, outcome |-> db[r].outcome,
        set_by |-> set_by[r], contact |-> FALSE]
  ELSE Nothing

my_reservations(p, s) ==
  /\ load[p][s] = Requested
  /\ load' = [load EXCEPT ![p][s] =
                [phase |-> "answered", data |-> [r \in Res |-> Row2Shown(r)]]]
  /\ UNCHANGED <<server, page, call, faults>>

ApplyMy(p, s) ==
  /\ load[p][s].phase = "answered"
  /\ LET data == load[p][s].data
     IN /\ page' = [page EXCEPT ![p].list = data]
        /\ load' = [load EXCEPT ![p][s] =
             [phase |-> "details", data |-> data,
              todo |-> {r \in Res : data[r].status \in Revealed}]]
  /\ UNCHANGED <<server, call, faults>>

\* The server tells a buyer the contacts of a revealed reservation only.
Reveals(p, r) == p = "buyer" /\ db[r].status \in Revealed

get_reservation(p, s, r) ==
  /\ load[p][s].phase = "details"
  /\ r \in load[p][s].todo
  /\ load' = [load EXCEPT ![p][s].todo = @ \ {r},
                          ![p][s].data[r].contact = Reveals(p, r)]
  /\ UNCHANGED <<server, page, call, faults>>

\* A detail request that fails leaves its row without contacts (allSettled).
DetailFails(p, s, r) ==
  /\ faults < MaxFaults
  /\ load[p][s].phase = "details"
  /\ r \in load[p][s].todo
  /\ load' = [load EXCEPT ![p][s].todo = @ \ {r}]
  /\ faults' = faults + 1
  /\ UNCHANGED <<server, page, call>>

ApplyDetails(p, s) ==
  /\ load[p][s].phase = "details"
  /\ load[p][s].todo = {}
  /\ page' = [page EXCEPT ![p].list = load[p][s].data, ![p].loading = FALSE]
  /\ load' = [load EXCEPT ![p][s] = Free]
  /\ UNCHANGED <<server, call, faults>>

LoadFails(p, s) ==
  /\ faults < MaxFaults
  /\ load[p][s].phase \in {"sent", "answered"}
  /\ page' = [page EXCEPT ![p].list = NoList, ![p].loading = FALSE]
  /\ load' = [load EXCEPT ![p][s] = Free]
  /\ faults' = faults + 1
  /\ UNCHANGED <<server, call>>

-----------------------------------------------------------------------------
(* Buttons.                                                                *)

Send(p, c, r, op) ==
  /\ call[p][c] = Free
  /\ call' = [call EXCEPT ![p][c] =
                [phase |-> "sent", op |-> op, r |-> r, heard |-> TRUE]]

Offered(p, r, op) ==
  /\ ~page[p].loading
  /\ op \in Buttons(p, page[p].list[r])

\* handleCancel, handlePayNow: disabled only for the row they last ran for
PressRow(p, c, r, op) ==
  /\ op \in {"cancel", "pay"}
  /\ Offered(p, r, op)
  /\ page[p].busy[op] # r
  /\ Send(p, c, r, op)
  /\ page' = [page EXCEPT ![p].busy[op] = r]
  /\ UNCHANGED <<server, load, faults>>

PressMark(p, c, r, result) ==
  /\ result \in Outcomes
  /\ Offered(p, r, result)
  /\ page[p].saving[r] = None
  /\ Send(p, c, r, result)
  /\ page' = [page EXCEPT ![p].saving[r] = c]
  /\ UNCHANGED <<server, load, faults>>

OpenDialog(p, r, op) ==
  /\ op \in {"decline", "delete"}
  /\ Offered(p, r, op)
  /\ page[p].busy[op] # r
  /\ page[p].dialog[op] # r
  /\ page' = [page EXCEPT ![p].dialog[op] = r]
  /\ UNCHANGED <<server, call, load, faults>>

CloseDialog(p, op) ==
  /\ page[p].dialog[op] # None
  /\ page' = [page EXCEPT ![p].dialog[op] = None]
  /\ UNCHANGED <<server, call, load, faults>>

\* handleDecline, handleDelete: the dialog outlives a reload of the list, and
\* acts on the reservation it was opened for whatever the list says by then.
ConfirmDialog(p, c, op) ==
  LET r == page[p].dialog[op]
  IN /\ r # None
     /\ ~page[p].loading /\ page[p].list # NoList
     /\ page[p].busy[op] = None
     /\ Send(p, c, r, op)
     /\ page' = [page EXCEPT ![p].busy[op] = r, ![p].dialog[op] = None]
     /\ UNCHANGED <<server, load, faults>>

-----------------------------------------------------------------------------
(* The handlers.                                                           *)

Answer(p, c, reply) == call' = [call EXCEPT ![p][c].phase = reply]

Asked(p, c, ops) == call[p][c].phase = "sent" /\ call[p][c].op \in ops

\* cancel_reservation, decline_reservation: any open reservation; a closed one
\* is answered like a cancellation
HandleCancel(p, c) ==
  LET r == call[p][c].r
      reason == IF call[p][c].op = "cancel" THEN "buyer_cancelled" ELSE "seller_declined"
  IN /\ Asked(p, c, {"cancel", "decline"})
     /\ Answer(p, c, IF Exists(db[r]) THEN "ok" ELSE "error")
     /\ db' = IF db[r].status \in OpenStatuses
              THEN [db EXCEPT ![r] = cancel(@, reason)] ELSE db
     /\ UNCHANGED <<set_by, mark, paylink, page, load, faults>>

delete_reservation(p, c) ==
  LET r == call[p][c].r
  IN /\ Asked(p, c, {"delete"})
     /\ IF db[r].status = "cancelled"
        THEN Answer(p, c, "ok") /\ db' = [db EXCEPT ![r] = Deleted(@)]
        ELSE Answer(p, c, "error") /\ UNCHANGED db
     /\ UNCHANGED <<set_by, mark, paylink, page, load, faults>>

mark_outcome(p, c) ==
  LET r == call[p][c].r
      result == call[p][c].op
      Accept(row) == /\ db' = [db EXCEPT ![r] = row]
                     /\ mark' = [mark EXCEPT ![r][p] = result]
                     /\ Answer(p, c, "ok")
  IN /\ Asked(p, c, Outcomes)
     /\ \/ /\ db[r].status = "active"
           /\ Accept(FirstMark(db[r], result))
           /\ set_by' = [set_by EXCEPT ![r] = p]
        \/ \E windowClosed \in BOOLEAN :
             /\ CanCorrect(db[r], p, result, windowClosed)
             /\ Accept(Correct(db[r], p, result))
             /\ UNCHANGED set_by
        \/ \* the result is what the row says already
           /\ db[r].status = "settling"
           /\ result = db[r].outcome
           /\ Accept(db[r])
           /\ UNCHANGED set_by
        \/ \* not open, window closed or budget spent
           /\ db[r].status # "active"
           /\ Answer(p, c, "error")
           /\ UNCHANGED <<db, set_by, mark>>
     /\ UNCHANGED <<paylink, page, load, faults>>

\* reserve, called by "Go to payment" for the car of the row: the car's open
\* reservation is recovered, or asked for its payment page; a car without one is
\* reserved anew.
Pay(p, c) ==
  LET open == {x \in Res : db[x].status \in OpenStatuses}
      Link(x) == call' = [call EXCEPT ![p][c].phase = "url", ![p][c].r = x]
  IN /\ Asked(p, c, {"pay"})
     /\ \/ \E x \in open :
             /\ db[x].status = "pending_payment"
             /\ ~db[x].paid_by
             /\ Link(x)
             /\ db' = [db EXCEPT ![x].paid_by = TRUE]
        \/ \E x \in open :
             /\ db[x].status = "pending_payment"
             /\ db[x].paid_by
             /\ (Link(x) \/ Answer(p, c, "no_url"))
             /\ UNCHANGED db
        \/ \E x \in Res :
             /\ open = {}
             /\ db[x] = NoRow
             /\ Link(x)
             /\ db' = [db EXCEPT ![x] = [build_reservation EXCEPT !.paid_by = TRUE]]
        \/ \* reserved and confirmed, a window is required, or the provider fails
           /\ Answer(p, c, "error")
           /\ UNCHANGED db
     /\ UNCHANGED <<set_by, mark, paylink, page, load, faults>>

\* A request or its reply gets lost: the page cannot tell which.
CallLost(p, c) ==
  /\ faults < MaxFaults
  /\ call[p][c].phase \in {"sent", "ok", "url", "no_url"}
  /\ Answer(p, c, "error")
  /\ faults' = faults + 1
  /\ UNCHANGED <<server, page, load>>

-----------------------------------------------------------------------------
(* The page goes on when a reply arrives.                                  *)

\* The finally blocks: the button that ran comes back.
Released(p, c) ==
  LET k == call[p][c]
  IN [page[p] EXCEPT
        !.busy = IF k.op \in Outcomes THEN @ ELSE [@ EXCEPT ![k.op] = None],
        !.saving = [r \in Res |-> IF @[r] = c THEN None ELSE @[r]]]

Answered(p, c, replies) == call[p][c].phase \in replies /\ call[p][c].heard

FreeCallBug(p, c) == Answer(p, c, "free")
FreeCall(p, c) == call' = [call EXCEPT ![p][c] = Free]

\* What a success tells the page about the reservation.
Told(p, c) ==
  LET k == call[p][c]
  IN [Released(p, c) EXCEPT !.known[k.r] =
        CASE k.op \in {"cancel", "decline"} -> 3
          [] k.op \in Outcomes /\ @ < 2 -> 2
          [] OTHER -> @]

ReplyReloadsBug(p, c) ==
  /\ \/ Answered(p, c, {"ok"}) /\ call[p][c].op # "delete"
     \/ Answered(p, c, {"no_url"})
  /\ FreeCall(p, c)
  /\ page' = [page EXCEPT ![p] = Told(p, c)]
  /\ UNCHANGED <<server, load, faults>>
\* handleCancel, handleDecline, mark and "already paid" load the list again
ReplyReloads(p, c) ==
  /\ \/ Answered(p, c, {"ok"}) /\ call[p][c].op # "delete"
     \/ Answered(p, c, {"no_url"})
  /\ FreeCall(p, c)
  /\ StartLoad(p, Told(p, c))
  /\ UNCHANGED <<server, faults>>

\* handleDelete: window.location.reload() forgets everything, replies included
ReplyDeleted(p, c) ==
  /\ Answered(p, c, {"ok"})
  /\ call[p][c].op = "delete"
  /\ page' = [page EXCEPT ![p] = Mounted]
  /\ call' = [call EXCEPT ![p] =
       [x \in Calls |-> IF x = c \/ @[x] = Free THEN Free
                        ELSE [@[x] EXCEPT !.heard = FALSE]]]
  /\ \E s \in Loads :
       load' = [load EXCEPT ![p] = [x \in Loads |-> IF x = s THEN Requested ELSE Free]]
  /\ UNCHANGED <<server, faults>>

ReplyUrl(p, c) ==
  /\ Answered(p, c, {"url"})
  /\ paylink' = paylink \cup {call[p][c].r}
  /\ FreeCall(p, c)
  /\ page' = [page EXCEPT ![p] = Released(p, c)]
  /\ UNCHANGED <<db, set_by, mark, load, faults>>

ReplyError(p, c) ==
  /\ Answered(p, c, {"error"})
  /\ FreeCall(p, c)
  /\ page' = [page EXCEPT ![p] = Released(p, c)]
  /\ UNCHANGED <<server, load, faults>>

ReplyUnheard(p, c) ==
  /\ call[p][c].phase \notin {"free", "sent"} /\ ~call[p][c].heard
  /\ FreeCall(p, c)
  /\ UNCHANGED <<server, page, load, faults>>

-----------------------------------------------------------------------------
(* What else changes reservations: webhook, jobs, the buyer's payment.     *)

\* The buyer pays on the payment page and the webhook confirms the hold.
Confirm(r) ==
  /\ r \in paylink
  /\ CanConfirm(db[r])
  /\ db' = [db EXCEPT ![r] = confirm_hold(@)]
  /\ UNCHANGED <<set_by, mark, paylink, page, call, load, faults>>

ClosePaymentPage(r) ==
  /\ r \in paylink
  /\ paylink' = paylink \ {r}
  /\ UNCHANGED <<db, set_by, mark, page, call, load, faults>>

\* run_release_expired
Expire(r) ==
  /\ db[r].status \in {"pending_payment", "active"}
  /\ db' = [db EXCEPT ![r] = cancel(@, IF @.status = "active" THEN "hold_expired"
                                       ELSE "payment_abandoned")]
  /\ UNCHANGED <<set_by, mark, paylink, page, call, load, faults>>

\* run_finalize_settling
Finalize(r) ==
  /\ db[r].status = "settling"
  /\ db' = [db EXCEPT ![r] = finalize(@)]
  /\ UNCHANGED <<set_by, mark, paylink, page, call, load, faults>>

-----------------------------------------------------------------------------
Loading(p, s) ==
  \/ my_reservations(p, s)
  \/ ApplyMy(p, s)
  \/ ApplyDetails(p, s)
  \/ LoadFails(p, s)
  \/ \E r \in Res : get_reservation(p, s, r) \/ DetailFails(p, s, r)

Handle(p, c) ==
  \/ HandleCancel(p, c)
  \/ delete_reservation(p, c)
  \/ mark_outcome(p, c)
  \/ Pay(p, c)
  \/ CallLost(p, c)

Reply(p, c) ==
  \/ ReplyReloads(p, c)
  \/ ReplyDeleted(p, c)
  \/ ReplyUrl(p, c)
  \/ ReplyError(p, c)
  \/ ReplyUnheard(p, c)

Press(p) ==
  \/ \E r \in Res, op \in {"decline", "delete"} : OpenDialog(p, r, op)
  \/ \E op \in {"decline", "delete"} : CloseDialog(p, op)
  \/ \E c \in Calls, op \in {"decline", "delete"} : ConfirmDialog(p, c, op)
  \/ \E c \in Calls, r \in Res :
       \/ \E op \in {"cancel", "pay"} : PressRow(p, c, r, op)
       \/ \E result \in Outcomes : PressMark(p, c, r, result)

Elsewhere ==
  \E r \in Res : Confirm(r) \/ ClosePaymentPage(r) \/ Expire(r) \/ Finalize(r)

Next ==
  \/ \E p \in Pages :
       \/ Press(p)
       \/ \E s \in Loads : Loading(p, s)
       \/ \E c \in Calls : Handle(p, c) \/ Reply(p, c)
  \/ Elsewhere

Spec == Init /\ [][Next]_vars

-----------------------------------------------------------------------------
TypeOK ==
  /\ db \in [Res -> Row]
  /\ set_by \in [Res -> Parties \cup {None}]
  /\ mark \in [Res -> [Parties -> Outcomes \cup {None}]]
  /\ paylink \subseteq Res
  /\ page \in [Pages -> Page]
  /\ \A p \in Pages, c \in Calls :
       call[p][c] \in {Free} \cup
         [phase : {"sent", "ok", "url", "no_url", "error"}, op : Ops, r : Res,
          heard : BOOLEAN]
  /\ \A p \in Pages, s \in Loads :
       load[p][s] \in {Free, Requested}
         \cup [phase : {"answered"}, data : Lists]
         \cup [phase : {"details"}, data : Lists, todo : SUBSET Res]
  /\ faults \in 0..MaxFaults

\* Once a page was told that its cancel, decline or mark went through and has
\* loaded the list again, it never shows the reservation as it was before: what
\* it did cannot be pressed a second time.  Two loads running at a time are
\* exempt: load() does not order them and the older list may be applied last.
AcknowledgedIsShown ==
  \A p \in Pages, r \in Res :
    ~page[p].loading /\ ~page[p].overlap =>
      Progress(page[p].list[r].status) >= page[p].known[r]

\* A row is found under the filter that has its label's name ("Paid" is the
\* filter called active) and under no other, whatever status and payment it has.
FilterFindsLabel ==
  \A p \in Pages, r \in Res :
    LET row == page[p].list[r]
        of == IF getResDisplay(row) = "paid" THEN "active" ELSE getResDisplay(row)
    IN row # Nothing =>
         \A f \in {"pending_payment", "active", "completed", "cancelled"} :
           matchesFilter(row, f) <=> f = of

-----------------------------------------------------------------------------
\* What the code, its texts or its tests say and a behaviour refutes: see the README.

\* Statuses of api/reservations.ts: the hold of a pending_payment reservation is
\* not confirmed yet, so no page shows it as paid while the server says so.
PaidIsHeld ==
  \A p \in Pages, r \in Res :
    getResDisplay(page[p].list[r]) = "paid" => db[r].status # "pending_payment"

\* What a page prints as marked by the other party was marked by that party.
OtherPartyMarked ==
  \A p \in Pages, r \in Res :
    LET row == page[p].list[r]
    IN otherAlreadyMarked(p, row) =>
         \E q \in Parties \ {p} : mark[r][q] = row.outcome

\* Statuses of api/reservations.ts: what is cancelled was cancelled before its
\* outcome was marked.
CancelledBeforeOutcome ==
  \A r \in Res : db[r].status = "cancelled" => db[r].outcome = None

\* While a reservation waits for its deposit, its buyer has the payment page open
\* or, once the page has loaded without fault, a button that leads to it.
DepositCanBePaid ==
  \A r \in Res :
    ("buyer" \in Pages /\ faults = 0 /\ ~page["buyer"].loading
       /\ page["buyer"].list[r] = Row2Shown(r) /\ db[r].status = "pending_payment"
       /\ (\A c \in Calls : call["buyer"][c] = Free))
    => r \in paylink \/ "pay" \in Buttons("buyer", page["buyer"].list[r])
=============================================================================
