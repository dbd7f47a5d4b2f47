--------------------------- MODULE ViewingBookings ---------------------------
(***************************************************************************)
(* The viewing windows of one car and the bookings reservations make of    *)
(* them: book_viewing and the other handlers that read a booking, wait and *)
(* commit (api/routes/reservations.py, api/routes/listings.py,             *)
(* services/viewings, crud/viewings.py, services/scheduler.py).            *)
(* A session reads in one step and commits in a later one; nothing is      *)
(* locked in between (READ COMMITTED), the indexes and foreign keys decide.*)
(***************************************************************************)
EXTENDS Naturals, FiniteSets

CONSTANTS
  Res,        \* reservation ids, all of the one car
  Windows,    \* viewing windows the seller offered
  Bookings,   \* ids for rows of viewing_bookings
  Sessions    \* concurrent database sessions

VARIABLES
  resv,       \* resv[r]: status of the reservation
  windows,    \* the rows of viewing_windows
  booking,    \* booking[b]: the row of viewing_bookings
  sess,       \* sess[s]: what a session has read
  met         \* history: reservations two sessions worked on at a time

vars == <<resv, windows, booking, sess, met>>

None == "none"
Statuses == {"absent", "pending_payment", "active", "settling", "completed",
             "cancelled", "deleted"}
Open == {"pending_payment", "active", "settling"}
\* None is not the id of a row
IdsAssumption == None \notin Res \cup Bookings

NoBooking == [status |-> "absent", r |-> None, w |-> None]
Idle == [kind |-> "idle", r |-> None, w |-> None, step |-> "idle", prev |-> None]

\* bookings of a reservation that are not cancelled, of a window likewise
Active(b) == booking[b].status = "scheduled"
OfReservation(r) == {b \in Bookings : Active(b) /\ booking[b].r = r}
OfWindow(w) == {b \in Bookings : Active(b) /\ booking[b].w = w}

Begin(s, kind, r, w, step) ==
  /\ sess[s] = Idle
  /\ sess' = [sess EXCEPT ![s] = [kind |-> kind, r |-> r, w |-> w, step |-> step,
                                  prev |-> None]]
  /\ met' = met \cup {x \in {r} : \E t \in Sessions : sess[t].r = x /\ x # None}

End(s) == sess' = [sess EXCEPT ![s] = Idle]

-----------------------------------------------------------------------------
Init ==
  /\ resv = [r \in Res |-> "absent"]
  /\ windows = Windows
  /\ booking = [b \in Bookings |-> NoBooking]
  /\ sess = [s \in Sessions |-> Idle]
  /\ met = {}

\* uniq_active_booking: one booking of a window that is not cancelled
WindowFreeBug(w, except) == TRUE
WindowFree(w, except) == OfWindow(w) \subseteq except

\* A row for reservation r and window w, the foreign keys satisfied.
Insert(book, b, r, w) ==
  [book EXCEPT ![b] = [status |-> "scheduled", r |-> r, w |-> w]]

-----------------------------------------------------------------------------
(* reserve with a window: the car's row is locked, so this is one step     *)
(* against the other handlers but for the indexes.                         *)

reserve(r, b, w) ==
  /\ resv[r] = "absent"
  /\ \A x \in Res : resv[x] \notin Open
  /\ booking[b] = NoBooking
  /\ w \in windows /\ WindowFree(w, {})
  /\ resv' = [resv EXCEPT ![r] = "pending_payment"]
  /\ booking' = Insert(booking, b, r, w)
  /\ UNCHANGED <<windows, sess, met>>

\* on_hold_confirmed, the first mark_outcome and run_finalize_settling leave the
\* booking alone.
Advance(r) ==
  /\ resv[r] \in Open
  /\ resv' = [resv EXCEPT ![r] =
       CASE @ = "pending_payment" -> "active"
         [] @ = "active" -> "settling"
         [] OTHER -> "completed"]
  /\ UNCHANGED <<windows, booking, sess, met>>

-----------------------------------------------------------------------------
(* book_viewing                                                            *)

BookLoad(s, r, w) ==
  /\ resv[r] = "active"
  /\ w \in windows
  /\ Begin(s, "book", r, w, "loaded")
  /\ UNCHANGED <<resv, windows, booking>>

\* get_active_booking_for_reservation: the first of however many there are
FindBooking(s) ==
  /\ sess[s].step = "loaded"
  /\ sess[s].kind \in {"book", "cancel"}
  /\ LET found == OfReservation(sess[s].r)
     IN \E b \in (IF found = {} THEN {None} ELSE found) :
          sess' = [sess EXCEPT ![s].step = "found", ![s].prev = b]
  /\ UNCHANGED <<resv, windows, booking, met>>

CancelBookingBug(book, prev) ==
  IF prev = None THEN book ELSE [book EXCEPT ![prev].status = "completed"]
CancelBooking(book, prev) ==
  IF prev = None THEN book ELSE [book EXCEPT ![prev].status = "cancelled"]

BookCommitBug(s) ==
  LET k == sess[s]
  IN /\ k.kind = "book" /\ k.step = "found"
     /\ k.w \in windows /\ resv[k.r] # "deleted"
     /\ WindowFree(k.w, {k.prev} \ {None})
     /\ \E b \in Bookings :
          /\ booking[b] = NoBooking
          /\ booking' = Insert(booking, b, k.r, k.w)
     /\ End(s)
     /\ UNCHANGED <<resv, windows, met>>
\* the old booking is cancelled and flushed before the new row is inserted
BookCommit(s) ==
  LET k == sess[s]
  IN /\ k.kind = "book" /\ k.step = "found"
     /\ k.w \in windows /\ resv[k.r] # "deleted"
     /\ WindowFree(k.w, {k.prev} \ {None})
     /\ \E b \in Bookings :
          /\ booking[b] = NoBooking
          /\ booking' = Insert(CancelBooking(booking, k.prev), b, k.r, k.w)
     /\ End(s)
     /\ UNCHANGED <<resv, windows, met>>

\* IntegrityError: rolled back, "Window already booked"
BookRefused(s) ==
  LET k == sess[s]
  IN /\ k.kind = "book" /\ k.step = "found"
     /\ \/ k.w \notin windows
        \/ resv[k.r] = "deleted"
        \/ ~WindowFree(k.w, {k.prev} \ {None})
     /\ End(s)
     /\ UNCHANGED <<resv, windows, booking, met>>

-----------------------------------------------------------------------------
(* cancel, decline, run_release_expired, on_hold_released: the booking     *)
(* found is cancelled with the reservation, after the provider's answer.   *)

CancelLoad(s, r) ==
  /\ resv[r] \notin {"absent", "deleted"}
  /\ Begin(s, "cancel", r, None, "loaded")
  /\ UNCHANGED <<resv, windows, booking>>

\* A row deleted meanwhile fails the commit; a closed reservation stays closed but
\* its booking is cancelled all the same.
CancelCommit(s) ==
  LET k == sess[s]
  IN /\ k.kind = "cancel" /\ k.step = "found"
     /\ IF resv[k.r] = "deleted" THEN UNCHANGED <<resv, booking>>
        ELSE /\ booking' = CancelBooking(booking, k.prev)
             /\ resv' = [resv EXCEPT ![k.r] = IF @ \in Open THEN "cancelled" ELSE @]
     /\ End(s)
     /\ UNCHANGED <<windows, met>>

\* delete_reservation: bookings keep their row without a reservation (SET NULL)
delete_reservation(r) ==
  /\ resv[r] = "cancelled"
  /\ resv' = [resv EXCEPT ![r] = "deleted"]
  /\ booking' = [b \in Bookings |-> IF booking[b].r = r
                                     THEN [booking[b] EXCEPT !.r = None] ELSE booking[b]]
  /\ UNCHANGED <<windows, sess, met>>

-----------------------------------------------------------------------------
(* The seller's windows.                                                   *)

DeleteWindowLoad(s, w) ==
  /\ w \in windows
  /\ OfWindow(w) = {}
  /\ Begin(s, "window", None, w, "found")
  /\ UNCHANGED <<resv, windows, booking>>

\* viewing_bookings.window_id refers to viewing_windows, with no ON DELETE rule: a
\* window that was ever booked cannot be deleted
Deletable(w) == \A b \in Bookings : booking[b].w # w

DeleteWindowCommit(s) ==
  /\ sess[s].kind = "window"
  /\ windows' = IF Deletable(sess[s].w) THEN windows \ {sess[s].w} ELSE windows
  /\ End(s)
  /\ UNCHANGED <<resv, booking, met>>

\* add_viewing_window and set_viewing_schedule offer a slot again that was deleted
upsert_windows(w) ==
  /\ w \notin windows
  /\ windows' = windows \cup {w}
  /\ UNCHANGED <<resv, booking, sess, met>>

\* The worker dies or the connection drops: the transaction is rolled back.
Crash(s) ==
  /\ sess[s] # Idle
  /\ End(s)
  /\ UNCHANGED <<resv, windows, booking, met>>

-----------------------------------------------------------------------------
Next ==
  \/ \E r \in Res : Advance(r) \/ delete_reservation(r)
  \/ \E r \in Res, b \in Bookings, w \in Windows : reserve(r, b, w)
  \/ \E w \in Windows : upsert_windows(w)
  \/ \E s \in Sessions :
       \/ \E r \in Res : CancelLoad(s, r) \/ \E w \in Windows : BookLoad(s, r, w)
       \/ \E w \in Windows : DeleteWindowLoad(s, w)
       \/ FindBooking(s)
       \/ BookCommit(s)
       \/ BookRefused(s)
       \/ CancelCommit(s)
       \/ DeleteWindowCommit(s)
       \/ Crash(s)

Spec == Init /\ [][Next]_vars

-----------------------------------------------------------------------------
TypeOK ==
  /\ resv \in [Res -> Statuses]
  /\ windows \subseteq Windows
  /\ booking \in [Bookings -> [status : {"absent", "scheduled", "cancelled"},
                               r : Res \cup {None}, w : Windows \cup {None}]]
  /\ sess \in [Sessions -> [kind : {"idle", "book", "cancel", "window"},
                            r : Res \cup {None}, w : Windows \cup {None},
                            step : {"idle", "loaded", "found"},
                            prev : Bookings \cup {None}]]
  /\ met \subseteq Res

\* Two people never come to one viewing: a window has one live booking, although
\* bookings are moved by cancelling and inserting in sessions that do not lock.
OneBookingPerWindow ==
  \A w \in Windows : Cardinality(OfWindow(w)) <= 1

\* A window somebody is coming to is not deleted, although the seller's delete
\* checks for bookings in one statement and deletes in a later one.
BookedWindowIsKept ==
  \A w \in Windows : OfWindow(w) # {} => w \in windows

\* A cancelled reservation gives its window back, whatever rebooking it did
\* before.  Reservations on which two sessions overlapped are exempt: a booking
\* made while the cancellation waits for the provider is not seen by it.
CancelledFreesWindow ==
  \A r \in Res \ met :
    resv[r] = "cancelled" /\ (\A s \in Sessions : sess[s].r # r) => OfReservation(r) = {}

-----------------------------------------------------------------------------
\* What the code, its texts or its tests say and a behaviour refutes: see the README.

\* assert_can_book: a viewing is booked while the reservation is active.
BookedWhileActive ==
  [][\A s \in Sessions : BookCommit(s) => resv[sess[s].r] = "active"]_vars

\* delete_viewing_window: only a window with an active booking is not deleted.
UnbookedIsDeleted ==
  [][\A s \in Sessions :
       DeleteWindowCommit(s) /\ OfWindow(sess[s].w) = {} => sess[s].w \notin windows']_vars
=============================================================================
