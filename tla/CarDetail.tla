------------------------------ MODULE CarDetail ------------------------------
(***************************************************************************)
(* The page of one car (pages/CarDetailPage.tsx) in the browsers of some    *)
(* buyers, the handler of reserve behind it with its payment, and the page  *)
(* the provider sends a buyer back to (pages/PaymentReturnPage.tsx,         *)
(* api/routes/payments.py).  A car page is read once, when it is opened; a  *)
(* response that is read early and drawn late shows what an old page shows, *)
(* so reading and drawing are one step.                                     *)
(***************************************************************************)
EXTENDS Naturals, FiniteSets

CONSTANTS
  Buyers,     \* signed-in users, one tab each on the car
  Rids,       \* ids for rows of reservations
  Windows,    \* viewing windows the seller may offer
  Calls,      \* requests POST /reservations in progress
  Returning,  \* the buyers who come back from the provider's page
  Ends        \* what may end the sale: "outcome", "archive"

VARIABLES
  listing,    \* status column of the car's row
  enabled,    \* its viewing_enabled
  offered,    \* the rows of viewing_windows
  resv,       \* resv[r]: the reservation's row
  pay,        \* pay[r]: the payment made with r's idempotence key
  page,       \* page[b]: the state of CarDetailPage
  call,       \* call[c]: a request, until its answer is drawn
  linked,     \* reservations whose payment link a page has shown
  ret         \* ret[b]: the buyer's way back from the provider

server == <<listing, enabled, offered, resv, pay>>
vars == <<server, page, call, linked, ret>>

None == "none"
Open == {"pending_payment", "active", "settling"}
NoRow == [status |-> "absent", b |-> None, w |-> None, yk |-> FALSE]
NoCall == [b |-> None, heard |-> FALSE, w |-> None, r |-> None, step |-> "idle"]
Away == [r |-> None, step |-> "away"]

\* mapStatus of api/cars.ts
mapStatus(s) ==
  CASE s = "active" -> "available" [] s \in {"reserved", "sold"} -> s
    [] OTHER -> "inactive"

\* State of a page just opened.
Mounted == [view |-> "loading", wins |-> {}, winsLoading |-> TRUE, panel |-> FALSE,
            sel |-> None, reserving |-> FALSE, url |-> None, done |-> FALSE]

Init ==
  /\ listing = "active"
  /\ enabled \in BOOLEAN
  /\ offered \in SUBSET Windows
  /\ resv = [r \in Rids |-> NoRow]
  /\ pay = [r \in Rids |-> "none"]
  /\ page = [b \in Buyers |-> Mounted]
  /\ call = [c \in Calls |-> NoCall]
  /\ linked = {}
  /\ ret = [b \in Buyers |-> Away]

-----------------------------------------------------------------------------
(* The page.                                                               *)

\* The tab is reloaded or opened anew: an answer still to come is not heard.
Reload(b) ==
  /\ page' = [page EXCEPT ![b] = Mounted]
  /\ call' = [c \in Calls |-> IF call[c].b = b THEN [call[c] EXCEPT !.heard = FALSE]
                                 ELSE call[c]]
  /\ UNCHANGED <<server, linked, ret>>

\* useCar; a failed load is "not found"
LoadCar(b) ==
  /\ page[b].view = "loading"
  /\ \E v \in {mapStatus(listing), "not found"} : page' = [page EXCEPT ![b].view = v]
  /\ UNCHANGED <<server, call, linked, ret>>

\* getAvailableSlots lists every window of the car; a failure shows none
LoadWindows(b) ==
  /\ page[b].winsLoading
  /\ \E ws \in {offered, {}} :
       page' = [page EXCEPT ![b].wins = ws, ![b].winsLoading = FALSE]
  /\ UNCHANGED <<server, call, linked, ret>>

\* The booking form, drawn for a page with neither a link nor a booking.
FormShown(b) ==
  page[b].panel /\ page[b].url = None /\ ~page[b].done

TogglePanel(b) ==
  /\ page[b].view = "available"
  /\ page[b].url = None /\ ~page[b].done
  /\ page' = [page EXCEPT ![b].panel = ~@]
  /\ UNCHANGED <<server, call, linked, ret>>

SelectWindow(b, w) ==
  /\ FormShown(b) /\ w \in page[b].wins
  /\ page' = [page EXCEPT ![b].sel = IF @ = w THEN None ELSE w]
  /\ UNCHANGED <<server, call, linked, ret>>

\* handleReserve until it waits; no window is asked for while they load
handleReserve(b, c) ==
  /\ FormShown(b) /\ ~page[b].reserving
  /\ ~(enabled /\ page[b].wins # {} /\ page[b].sel = None)
  /\ call[c] = NoCall
  /\ call' = [call EXCEPT ![c] = [b |-> b, heard |-> TRUE, w |-> page[b].sel,
                                  r |-> None, step |-> "sent"]]
  /\ page' = [page EXCEPT ![b].reserving = TRUE]
  /\ UNCHANGED <<server, linked, ret>>

payLater(b) ==
  /\ page[b].url # None /\ ~page[b].done
  /\ page' = [page EXCEPT ![b].url = None, ![b].panel = FALSE]
  /\ UNCHANGED <<server, call, linked, ret>>

Answers == {"url", "null", "refused", "no window", "failed"}

\* What handleReserve does with the answer: a link is offered, an answer without a
\* link is a booking, everything else a toast; the button is enabled again.
AfterReserve(p, k) ==
  CASE k.step = "url"  -> [p EXCEPT !.url = k.r, !.reserving = FALSE]
    [] k.step = "null" -> [p EXCEPT !.done = TRUE, !.reserving = FALSE]
    [] OTHER           -> [p EXCEPT !.reserving = FALSE]

ReserveAnswered(c) ==
  /\ call[c].step \in Answers
  /\ IF ~call[c].heard THEN UNCHANGED <<page, linked>>
     ELSE /\ page' = [page EXCEPT ![call[c].b] = AfterReserve(@, call[c])]
          /\ linked' = linked \cup (IF call[c].step = "url" THEN {call[c].r} ELSE {})
  /\ call' = [call EXCEPT ![c] = NoCall]
  /\ UNCHANGED <<server, ret>>

-----------------------------------------------------------------------------
(* reserve                                                                 *)

Answer(c, r, step) ==
  call' = [call EXCEPT ![c].r = r, ![c].step = step]

OpenRows == {r \in Rids : resv[r].status \in Open}
TakenWindows == {resv[r].w : r \in {x \in Rids : resv[x].status \in Open \cup {"completed"}}}

\* Refusals of a first request: cooldown and limit of the buyer, listing not
\* active, window gone or taken.
MayInsert(w) ==
  /\ listing = "active"
  /\ w # None => w \in offered \ TakenWindows

\* Whose reservation a request may resume.
ResumableBug(r, b) == resv[r].status = "pending_payment"
Resumable(r, b) == resv[r].status = "pending_payment" /\ resv[r].b = b

InsertedBug == {r \in Rids : resv[r] = NoRow}
\* get_active_for_listing under the car's row lock and uniq_active_reservation
Inserted == IF OpenRows = {} THEN {r \in Rids : resv[r] = NoRow} ELSE {}

\* Until the first commit or the first call to the provider.
ReserveInsert(c) ==
  LET k == call[c]
  IN /\ k.step = "sent"
     /\ \/ /\ enabled /\ k.w = None
           /\ Answer(c, None, "no window")
           /\ UNCHANGED <<listing, resv>>
        \/ /\ ~(enabled /\ k.w = None)
           /\ \E r \in OpenRows :
                Answer(c, r, IF ~Resumable(r, k.b) THEN "refused"
                             ELSE IF resv[r].yk THEN "lookup" ELSE "resume")
           /\ UNCHANGED <<listing, resv>>
        \/ /\ ~(enabled /\ k.w = None)
           /\ OpenRows = {}
           /\ Answer(c, None, "refused")
           /\ UNCHANGED <<listing, resv>>
        \/ /\ ~(enabled /\ k.w = None)
           /\ MayInsert(k.w)
           /\ \E r \in Inserted :
                /\ Answer(c, r, "hold")
                /\ resv' = [resv EXCEPT ![r] = [status |-> "pending_payment", b |-> k.b,
                                                w |-> k.w, yk |-> FALSE]]
           /\ listing' = "reserved"
     /\ UNCHANGED <<enabled, offered, pay, page, linked, ret>>

\* create_hold, one payment for a key however often it is called; the payment may
\* be made and the answer lost.
CreateHold(c) ==
  LET k == call[c]
  IN /\ k.step \in {"hold", "resume"}
     /\ pay' \in {pay, [pay EXCEPT ![k.r] = IF @ = "none" THEN "pending" ELSE @]}
     /\ \/ pay'[k.r] # "none" /\ Answer(c, k.r, "created")
        \/ Answer(c, k.r, IF k.step = "hold" THEN "giveup" ELSE "failed")
     /\ UNCHANGED <<listing, enabled, offered, resv, page, linked, ret>>

\* HoldCreationError of a new reservation: cancelled with the objects at hand
GiveUp(c) ==
  /\ call[c].step = "giveup"
  /\ resv' = [resv EXCEPT ![call[c].r].status = "cancelled"]
  /\ listing' = "active"
  /\ Answer(c, call[c].r, "failed")
  /\ UNCHANGED <<enabled, offered, pay, page, linked, ret>>

\* The payment's id is committed; a link comes with a payment not paid yet.
SaveHold(c) ==
  LET r == call[c].r
  IN /\ call[c].step = "created"
     /\ resv' = [resv EXCEPT ![r].yk = TRUE]
     /\ Answer(c, r, IF pay[r] = "pending" THEN "url" ELSE "null")
     /\ UNCHANGED <<listing, enabled, offered, pay, page, linked, ret>>

\* find_payment for a reservation whose payment is known
FindPayment(c) ==
  LET r == call[c].r
  IN /\ call[c].step = "lookup"
     /\ \/ Answer(c, r, IF pay[r] = "pending" THEN "url" ELSE "null")
        \/ Answer(c, r, "failed")
     /\ UNCHANGED <<server, page, linked, ret>>

\* The worker dies or the connection drops.
CallLost(c) ==
  /\ call[c].step \notin Answers \cup {"idle"}
  /\ Answer(c, call[c].r, "failed")
  /\ UNCHANGED <<server, page, linked, ret>>

-----------------------------------------------------------------------------
(* The provider, the webhook, the jobs and the other pages.                *)

\* The buyer pays in the provider's tab, which outlives the page's link.
Pay(r) ==
  /\ r \in linked /\ pay[r] = "pending"
  /\ pay' = [pay EXCEPT ![r] = "held"]
  /\ UNCHANGED <<listing, enabled, offered, resv, page, call, linked, ret>>

\* A payment not made in time is canceled by the provider.
PaymentExpires(r) ==
  /\ pay[r] = "pending"
  /\ pay' = [pay EXCEPT ![r] = "canceled"]
  /\ UNCHANGED <<listing, enabled, offered, resv, page, call, linked, ret>>

on_hold_confirmed(r) ==
  /\ resv[r].yk /\ pay[r] = "held" /\ resv[r].status = "pending_payment"
  /\ resv' = [resv EXCEPT ![r].status = "active"]
  /\ UNCHANGED <<listing, enabled, offered, pay, page, call, linked, ret>>

\* Cancelled by a party, expired, or released by the provider (on_hold_released);
\* a deposit held is released.
Close(r) ==
  /\ resv[r].status \in {"pending_payment", "active"}
  /\ resv' = [resv EXCEPT ![r].status = "cancelled"]
  /\ listing' = "active"
  /\ pay' = [pay EXCEPT ![r] = IF @ = "held" THEN "canceled" ELSE @]
  /\ UNCHANGED <<enabled, offered, page, call, linked, ret>>

\* The outcome is marked, and later final.
Outcome(r) ==
  /\ "outcome" \in Ends
  /\ \/ /\ resv[r].status = "active"
        /\ resv' = [resv EXCEPT ![r].status = "settling"]
        /\ UNCHANGED listing
     \/ /\ resv[r].status = "settling"
        /\ resv' = [resv EXCEPT ![r].status = "completed"]
        /\ listing' \in {"sold", "active"}
  /\ UNCHANGED <<enabled, offered, pay, page, call, linked, ret>>

\* The seller takes the car off sale.
Archive ==
  /\ "archive" \in Ends
  /\ listing = "active"
  /\ listing' = "archived"
  /\ UNCHANGED <<enabled, offered, resv, pay, page, call, linked, ret>>

-----------------------------------------------------------------------------
(* yookassa_return and PaymentReturnPage.                                  *)

Shows == {"ok", "pending", "failed", "cancelled"}

\* _resolve_status before it asks the provider
ReturnRead(b, r) ==
  /\ ret[b].step = "away" /\ r \in linked /\ resv[r].b = b
  /\ ret' = [ret EXCEPT ![b] =
       [r |-> r, step |-> CASE resv[r].status = "active" -> "ok"
                            [] resv[r].status = "cancelled" -> "cancelled"
                            [] resv[r].status # "pending_payment" -> "failed"
                            [] OTHER -> IF resv[r].yk THEN "lookup" ELSE "pending"]]
  /\ UNCHANGED <<server, page, call, linked>>

ReturnLookup(b) ==
  /\ ret[b].step = "lookup"
  /\ \E answer \in {IF pay[ret[b].r] = "held" THEN "confirm" ELSE "pending", "pending"} :
       ret' = [ret EXCEPT ![b].step = answer]
  /\ UNCHANGED <<server, page, call, linked>>

\* on_hold_confirmed confirms what is pending still; the answer is ok either way
ReturnConfirm(b) ==
  /\ ret[b].step = "confirm"
  /\ LET r == ret[b].r
     IN IF resv[r].status = "pending_payment" /\ pay[r] = "held"
        THEN resv' = [resv EXCEPT ![r].status = "active"]
        ELSE UNCHANGED resv
  /\ ret' = [ret EXCEPT ![b].step = "ok"]
  /\ UNCHANGED <<listing, enabled, offered, pay, page, call, linked>>

LeaveReturn(b) ==
  /\ ret[b].step \in Shows
  /\ ret' = [ret EXCEPT ![b] = Away]
  /\ UNCHANGED <<server, page, call, linked>>

-----------------------------------------------------------------------------
Handle(c) ==
  \/ ReserveInsert(c) \/ CreateHold(c) \/ GiveUp(c) \/ SaveHold(c) \/ FindPayment(c)
  \/ ReserveAnswered(c)

Next ==
  \/ \E b \in Buyers :
       \/ Reload(b)
       \/ LoadCar(b)
       \/ LoadWindows(b)
       \/ TogglePanel(b)
       \/ \E w \in Windows : SelectWindow(b, w)
       \/ \E c \in Calls : handleReserve(b, c)
       \/ payLater(b)
       \/ \E r \in Rids : b \in Returning /\ ReturnRead(b, r)
       \/ ReturnLookup(b)
       \/ ReturnConfirm(b)
       \/ LeaveReturn(b)
  \/ \E c \in Calls : Handle(c) \/ CallLost(c)
  \/ \E r \in Rids :
       \/ Pay(r)
       \/ PaymentExpires(r)
       \/ on_hold_confirmed(r)
       \/ Close(r)
       \/ Outcome(r)
  \/ Archive

Spec == Init /\ [][Next]_vars

-----------------------------------------------------------------------------
TypeOK ==
  /\ listing \in {"active", "reserved", "sold", "archived"}
  /\ enabled \in BOOLEAN /\ offered \subseteq Windows
  /\ resv \in [Rids -> [status : Open \cup {"absent", "cancelled", "completed"},
                        b : Buyers \cup {None}, w : Windows \cup {None}, yk : BOOLEAN]]
  /\ pay \in [Rids -> {"none", "pending", "held", "canceled"}]
  /\ page \in [Buyers -> [view : {"loading", "not found", "available", "reserved",
                                  "sold", "inactive"},
                          wins : SUBSET Windows, winsLoading : BOOLEAN, panel : BOOLEAN,
                          sel : Windows \cup {None}, reserving : BOOLEAN,
                          url : Rids \cup {None}, done : BOOLEAN]]
  /\ call \in [Calls -> [b : Buyers \cup {None}, heard : BOOLEAN,
                         w : Windows \cup {None}, r : Rids \cup {None},
                         step : Answers \cup {"idle", "sent", "hold", "resume", "lookup",
                                             "created", "giveup"}]]
  /\ linked \subseteq Rids
  /\ ret \in [Buyers -> [r : Rids \cup {None},
                         step : Shows \cup {"away", "lookup", "confirm"}]]

\* A car has one open reservation, however many pages still show it as available.
OneOpenPerCar == Cardinality(OpenRows) <= 1

\* A page offers a payment link of its own buyer only, although reserve answers a
\* second request with the link of an existing reservation.
LinkIsOwn == \A b \in Buyers : page[b].url # None => resv[page[b].url].b = b

\* A deposit is never held that the reservation does not know of: the id is
\* committed before the only link to the payment leaves the server, also when the
\* first request failed half-way and a second one resumes it.
PaidIsRecorded == \A r \in Rids : pay[r] = "held" => resv[r].yk

-----------------------------------------------------------------------------
\* What the code, its texts or its tests say and a behaviour refutes: see the README.

\* A page without viewing times says "You can still create a booking": a request
\* for a car without windows is not refused for having none.
BookableWithoutTimes ==
  [][\A c \in Calls : offered = {} /\ call[c].step = "sent"
                      => call'[c].step # "no window"]_vars

\* An answer without a link, which the page shows as "Booking confirmed", means that
\* the deposit is held.
NoLinkIsHeld ==
  [][\A c \in Calls : call[c].step = "lookup" /\ call'[c].step = "null"
                      => pay[call[c].r] = "held"]_vars

\* The return page that says "The car is reserved for you" is drawn for a
\* reservation that is confirmed.
OkIsReserved ==
  [][\A b \in Buyers : ret'[b].step = "ok" /\ ret[b].step # "ok"
                       => resv'[ret'[b].r].status = "active"]_vars
=============================================================================
