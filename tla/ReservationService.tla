------------------------- MODULE ReservationService -------------------------
(***************************************************************************)
(* The reservation row and the transitions of                              *)
(* services/reservations/reservation_service.py, as operators on one row.  *)
(* A row here is the Reservation object of a session or the record the     *)
(* table stores: the same columns either way.  Timestamps are kept as      *)
(* "set or not"; whether a deadline has passed is the clock of module      *)
(* Reservations.  An operator XxxBug is a mutated form of the one after it.*)
(***************************************************************************)
CONSTANTS
  Parties,    \* OutcomeParty: who may mark an outcome
  Outcomes    \* ReservationOutcome: the results that may be marked

ASSUME PartiesAssumption == Parties \subseteq {"buyer", "seller"}
ASSUME OutcomesAssumption == Outcomes \subseteq {"sold", "not_sold"}

None == "none"    \* a column that is NULL

OpenStatuses == {"pending_payment", "active", "settling"}
Confirmed == {"active", "settling", "completed"}
Settled == {"settling", "completed"}
_TERMINAL == {"completed", "cancelled"}

CancelReasons ==
  {None, "buyer_cancelled", "seller_declined", "payment_abandoned",
   "hold_expired", "hold_released_externally"}

\* "absent" and "deleted": no row yet, no row any more
Row == [status   : OpenStatuses \cup _TERMINAL \cup {"absent", "deleted"},
        paid_by  : BOOLEAN,                    \* yk_payment_id is set
        outcome  : Outcomes \cup {None},
        used     : [Parties -> BOOLEAN],       \* buyer/seller_change_used
        released : BOOLEAN,                    \* deposit_released_at is set
        due      : BOOLEAN,                    \* deposit_release_due_at is set
        reason   : CancelReasons]

NoRow == [status |-> "absent", paid_by |-> FALSE, outcome |-> None,
          used |-> [q \in Parties |-> FALSE], released |-> FALSE,
          due |-> FALSE, reason |-> None]

Exists(row) == row.status \notin {"absent", "deleted"}

\* The deleted row keeps, for the model only, whether a payment was attached:
\* its buyer still has the payment link.
Deleted(row) == [NoRow EXCEPT !.status = "deleted", !.paid_by = row.paid_by]

build_reservation == [NoRow EXCEPT !.status = "pending_payment"]

CanConfirm(row) == row.status = "pending_payment"

confirm_hold(row) == [row EXCEPT !.status = "active"]

\* _release_deposit's two early returns, and a due date still to come
NeedsRelease(row, dueOver) ==
  /\ row.paid_by
  /\ ~row.released
  /\ row.due => dueOver

\* What _release_deposit leaves in the row after the provider's reply: a
\* terminal error is taken for "nothing to release" before the hold is confirmed
\* and leaves the release pending after it.
AfterRelease(row, reply) ==
  [row EXCEPT !.released = \/ @
                           \/ reply = "ok"
                           \/ reply = "terminal" /\ row.status = "pending_payment"]

FirstMarkBug(row, result) == [row EXCEPT !.status = "settling"]
FirstMark(row, result) == [row EXCEPT !.outcome = result, !.status = "settling"]

CanCorrect(row, party, result, windowClosed) ==
  /\ row.status = "settling"
  /\ ~windowClosed
  /\ result # row.outcome
  /\ ~row.used[party]

Correct(row, party, result) ==
  [row EXCEPT !.outcome = result, !.used[party] = TRUE]

finalize(row) == [row EXCEPT !.status = "completed"]

ListingAfterFinalizeBug(row) == row.outcome
ListingAfterFinalize(row) == IF row.outcome = "sold" THEN "sold" ELSE "active"

cancel(row, reason) == [row EXCEPT !.status = "cancelled", !.reason = reason]

-----------------------------------------------------------------------------
(* The unit of work: a session updates, by primary key, only the columns   *)
(* its object changed since it was loaded; the other columns keep what the *)
(* table holds by then.                                                    *)

ColumnBug(stored, loaded, object) == object
Column(stored, loaded, object) == IF object = loaded THEN stored ELSE object

Flush(stored, loaded, object) ==
  [status   |-> Column(stored.status, loaded.status, object.status),
   paid_by  |-> Column(stored.paid_by, loaded.paid_by, object.paid_by),
   outcome  |-> Column(stored.outcome, loaded.outcome, object.outcome),
   used     |-> [q \in Parties |->
                   Column(stored.used[q], loaded.used[q], object.used[q])],
   released |-> Column(stored.released, loaded.released, object.released),
   due      |-> Column(stored.due, loaded.due, object.due),
   reason   |-> Column(stored.reason, loaded.reason, object.reason)]
=============================================================================
