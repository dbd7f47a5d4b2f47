----------------------------- MODULE Reservations -----------------------------
(***************************************************************************)
(* The reservation subsystem: the HTTP handlers, the payment webhook and   *)
(* the scheduled jobs that drive a reservation and its deposit hold, each  *)
(* as a database session that loads rows, calls the payment provider and   *)
(* commits later.  Sessions hold no lock on reservation rows, so they      *)
(* interleave freely; only `reserve` locks its listing row.                *)
(* Modelled from api/routes/reservations.py, api/routes/payments.py,       *)
(* services/reservations, services/payments and services/scheduler.py.     *)
(***************************************************************************)
EXTENDS ReservationService, FiniteSets, Naturals

CONSTANTS
  Listings,    \* cars on sale
  Res,         \* reservation ids; each is used for one row
  ListingOf,   \* the listing a reservation id is for
  Requests,    \* concurrent HTTP requests (handlers, webhooks)
  Workers,     \* concurrent runs of scheduled jobs
  NoProc,      \* no process
  Handlers,    \* BOUND: the request handlers called in an instance
  MaxFaults    \* BOUND: crashes, provider errors and denials in a behaviour

ASSUME ListingOfAssumption == ListingOf \in [Res -> Listings]
ASSUME ProcAssumption == NoProc \notin Requests \cup Workers
ASSUME HandlerAssumption ==
  Handlers \subseteq {"reserve", "recover", "confirm", "return", "released",
                     "cancel", "delayed_cancel", "decline", "outcome", "delete"}
ASSUME FaultAssumption == MaxFaults \in Nat

Procs == Requests \cup Workers

VARIABLES
  db,        \* table reservations: the committed rows
  listing,   \* table listings: the committed status column
  lock,      \* who holds SELECT ... FOR UPDATE on the listing row
  pay,       \* the provider's payment made for each reservation
  clock,     \* which deadlines of a reservation have passed
  seen,      \* Redis dedup keys of webhook events already accepted
  sess,      \* the session of each process
  faults     \* how many faults have happened

vars == <<db, listing, lock, pay, clock, seen, sess, faults>>

ListingStatus == {"active", "reserved", "sold"}
\* "released": cancelled on our request; "lapsed": the provider ended the
\* hold; "void": the buyer never paid
Payments == {"none", "pending", "held", "released", "lapsed", "void"}
\* The last of payment_deadline < hold_deadline < hold_deadline + grace passed
Ages == {"fresh", "payment", "hold", "grace"}
Clock == [age : Ages, correction : BOOLEAN, due : BOOLEAN]
Events == {"waiting_for_capture", "canceled"}
Kinds == {"idle", "reserve", "recover", "confirm", "webhook_released", "cancel",
          "decline", "outcome", "delete", "expire", "finalize", "reconcile"}
Steps == {"idle", "insert", "refresh", "hold", "load", "visit", "release",
          "commit", "delete"}

\* loaded/object: the rows as read and as the handler left them (and the same
\* for listings); todo: rows the handler has yet to go through
Session ==
  [kind : Kinds, step : Steps, at : Res \cup {None}, todo : SUBSET Res,
   delay : BOOLEAN, loaded : [Res -> Row], object : [Res -> Row],
   lloaded : [Listings -> ListingStatus], lobject : [Listings -> ListingStatus]]

NoListings == [l \in Listings |-> "active"]
NoRows == [r \in Res |-> NoRow]
Idle == [kind |-> "idle", step |-> "idle", at |-> None, todo |-> {},
         delay |-> FALSE, loaded |-> NoRows, object |-> NoRows,
         lloaded |-> NoListings, lobject |-> NoListings]

TypeOK ==
  /\ db \in [Res -> Row]
  /\ listing \in [Listings -> ListingStatus]
  /\ lock \in [Listings -> Procs \cup {NoProc}]
  /\ pay \in [Res -> Payments]
  /\ clock \in [Res -> Clock]
  /\ seen \subseteq Res \X Events
  /\ sess \in [Procs -> Session]
  /\ faults \in 0..MaxFaults

Init ==
  /\ db = NoRows
  /\ listing = NoListings
  /\ lock = [l \in Listings |-> NoProc]
  /\ pay = [r \in Res |-> "none"]
  /\ clock = [r \in Res |-> [age |-> "fresh", correction |-> FALSE, due |-> FALSE]]
  /\ seen = {}
  /\ sess = [p \in Procs |-> Idle]
  /\ faults = 0

-----------------------------------------------------------------------------
(* Helpers *)

Fault == faults < MaxFaults /\ faults' = faults + 1

OnListing(l) == {r \in Res : ListingOf[r] = l}
OpenOn(l) == {r \in OnListing(l) : db[r].status \in OpenStatuses}

\* uniq_active_reservation_per_listing
UniqueOpen(rows) ==
  \A r, s \in Res :
    /\ rows[r].status \in OpenStatuses
    /\ rows[s].status \in OpenStatuses
    /\ ListingOf[r] = ListingOf[s]
    => r = s

PaymentOver(r) == clock[r].age # "fresh"
HoldOver(r) == clock[r].age \in {"hold", "grace"}
\* correction_deadline = min(first mark + 24 h, hold_deadline)
CorrectionOverBug(r) == FALSE
CorrectionOver(r) == clock[r].correction \/ HoldOver(r)
DueOver(r) == clock[r].due

\* The session's object r after an assignment to it
Set(s, r, row) == [s EXCEPT !.object[r] = row]

\* The sequel of a session once r is dealt with: the next row, or the commit
Proceed(s, r) ==
  [s EXCEPT !.todo = @ \ {r}, !.at = None,
            !.step = IF s.todo \subseteq {r} THEN "commit" ELSE "visit"]

\* A session that has read the rows of R and goes on at `step`
Loaded(kind, step, R) ==
  [Idle EXCEPT !.kind = kind, !.step = step, !.todo = R,
               !.loaded = [r \in Res |-> IF r \in R THEN db[r] ELSE NoRow],
               !.object = [r \in Res |-> IF r \in R THEN db[r] ELSE NoRow]]

\* The reason svc.cancel is given
ReasonFor(s, r) ==
  CASE s.kind = "reserve" -> "payment_abandoned"
    [] s.kind = "cancel" -> "buyer_cancelled"
    [] s.kind = "decline" -> "seller_declined"
    [] s.kind = "webhook_released" -> "hold_released_externally"
    [] OTHER -> IF s.loaded[r].status = "pending_payment"
                THEN "payment_abandoned" ELSE "hold_expired"

CancelledBug(s, r) == Set(Proceed(s, r), r, cancel(s.object[r], ReasonFor(s, r)))
\* The end of svc.cancel: the row is cancelled, the listing object back on sale
Cancelled(s, r) ==
  [Set(Proceed(s, r), r, cancel(s.object[r], ReasonFor(s, r))) EXCEPT
     !.lobject[ListingOf[r]] = "active"]

\* svc.cancel up to its provider call: _release_deposit may return early
CancelOrRelease(s, r) ==
  IF NeedsRelease(s.object[r], DueOver(r)) /\ ~s.delay
  THEN [s EXCEPT !.step = "release", !.at = r]
  ELSE Cancelled(s, r)

Become(p, s) == sess' = [sess EXCEPT ![p] = s]
Finish(p) == Become(p, Idle)
Unlocked(p) == [l \in Listings |-> IF lock[l] = p THEN NoProc ELSE lock[l]]

-----------------------------------------------------------------------------
(* POST /reservations *)

\* From SELECT ... FOR UPDATE to session.add: the listing is locked, nothing
\* open is found on it and build_reservation accepts it.
ReserveLock(p, r) ==
  LET l == ListingOf[r] IN
  /\ sess[p] = Idle
  /\ lock[l] = NoProc
  /\ db[r] = NoRow
  /\ OpenOn(l) = {}
  /\ listing[l] = "active"
  /\ lock' = [lock EXCEPT ![l] = p]
  /\ Become(p, [Idle EXCEPT !.kind = "reserve", !.step = "insert", !.at = r,
                            !.todo = {r}, !.object[r] = build_reservation,
                            !.lobject[l] = "reserved"])
  /\ UNCHANGED <<db, listing, pay, clock, seen, faults>>

\* The commit that inserts the row and reserves the listing, and its
\* IntegrityError: a stale commit may have reopened another row meanwhile.
ReserveInsert(p) ==
  LET s == sess[p]
      r == s.at
      l == ListingOf[r]
      rows == [db EXCEPT ![r] = s.object[r]] IN
  /\ s.step = "insert"
  /\ lock' = Unlocked(p)
  /\ \/ /\ UniqueOpen(rows)
        /\ db' = rows
        /\ listing' = [listing EXCEPT ![l] = s.lobject[l]]
        /\ Become(p, [s EXCEPT !.step = "refresh", !.lloaded = s.lobject])
     \/ /\ ~UniqueOpen(rows)
        /\ Finish(p)
        /\ UNCHANGED <<db, listing>>
  /\ UNCHANGED <<pay, clock, seen, faults>>

\* session.refresh(reservation), which fails on a row deleted meanwhile
ReserveRefresh(p) ==
  LET s == sess[p]
      r == s.at IN
  /\ s.step = "refresh"
  /\ IF Exists(db[r])
     THEN Become(p, [s EXCEPT !.step = "hold", !.loaded[r] = db[r], !.object[r] = db[r]])
     ELSE Finish(p)
  /\ UNCHANGED <<db, listing, lock, pay, clock, seen, faults>>

\* The buyer asks again while no payment is attached: create_hold is repeated
\* under the listing lock.
RecoverLock(p, r) ==
  LET l == ListingOf[r] IN
  /\ sess[p] = Idle
  /\ lock[l] = NoProc
  /\ db[r].status = "pending_payment"
  /\ ~db[r].paid_by
  /\ lock' = [lock EXCEPT ![l] = p]
  /\ Become(p, [Loaded("recover", "hold", {r}) EXCEPT !.at = r])
  /\ UNCHANGED <<db, listing, pay, clock, seen, faults>>

\* The provider makes one payment per idempotence key "{id}:hold".
PaymentMade(r) == [pay EXCEPT ![r] = IF @ = "none" THEN "pending" ELSE @]

CreateHold(p) ==
  LET s == sess[p]
      r == s.at IN
  /\ s.step = "hold"
  /\ pay' = PaymentMade(r)
  /\ Become(p, [Set(s, r, [s.object[r] EXCEPT !.paid_by = TRUE]) EXCEPT !.step = "commit"])
  /\ UNCHANGED <<db, listing, lock, clock, seen, faults>>

\* HoldCreationError, whether or not the provider made the payment: a recovery
\* rolls back; a reservation is cancelled and its listing put back on sale.
CreateHoldFails(p) ==
  LET s == sess[p]
      r == s.at IN
  /\ s.step = "hold"
  /\ Fault
  /\ pay' \in {pay, PaymentMade(r)}
  /\ IF s.kind = "recover" \/ s.object[r].status \in _TERMINAL
     THEN Finish(p)
     ELSE Become(p, CancelOrRelease(s, r))
  /\ lock' = Unlocked(p)
  /\ UNCHANGED <<db, listing, clock, seen>>

-----------------------------------------------------------------------------
(* on_hold_confirmed, from the webhook or from the payment return page *)

\* The event is taken off the wire once (Redis SET NX) and the payment fetched
\* again: a hold that is gone by then is skipped, the event being used up.
ConfirmEvent(p, r) ==
  LET e == <<r, "waiting_for_capture">> IN
  /\ sess[p] = Idle
  /\ e \notin seen
  /\ pay[r] \in {"held", "released", "lapsed"}
  /\ seen' = seen \cup {e}
  /\ Become(p, IF pay[r] = "held"
               THEN [Idle EXCEPT !.kind = "confirm", !.step = "load", !.at = r]
               ELSE Idle)
  /\ UNCHANGED <<db, listing, lock, pay, clock, faults>>

ReturnPageBug(p, r) ==
  /\ sess[p] = Idle
  /\ db[r].status = "pending_payment"
  /\ db[r].paid_by
  /\ Become(p, [Idle EXCEPT !.kind = "confirm", !.step = "load", !.at = r])
  /\ UNCHANGED <<db, listing, lock, pay, clock, seen, faults>>
\* GET /payments/return of a reservation still pending, no dedup key involved
ReturnPage(p, r) ==
  /\ sess[p] = Idle
  /\ db[r].status = "pending_payment"
  /\ db[r].paid_by
  /\ pay[r] = "held"
  /\ Become(p, [Idle EXCEPT !.kind = "confirm", !.step = "load", !.at = r])
  /\ UNCHANGED <<db, listing, lock, pay, clock, seen, faults>>

\* get_by_payment, without a row lock, then confirm_hold on the object
ConfirmLoad(p) ==
  LET r == sess[p].at IN
  /\ sess[p].step = "load"
  /\ IF db[r].paid_by /\ CanConfirm(db[r])
     THEN Become(p, Set(Loaded("confirm", "commit", {r}), r, confirm_hold(db[r])))
     ELSE Finish(p)
  /\ UNCHANGED <<db, listing, lock, pay, clock, seen, faults>>

-----------------------------------------------------------------------------
(* Handlers that end in svc.cancel *)

\* on_hold_released: the provider says the payment is canceled, whoever did it
ReleasedEvent(p, r) ==
  LET e == <<r, "canceled">> IN
  /\ sess[p] = Idle
  /\ e \notin seen
  /\ pay[r] \in {"released", "lapsed", "void"}
  /\ seen' = seen \cup {e}
  /\ Become(p, IF db[r].paid_by /\ db[r].status \in OpenStatuses
               THEN Set(Loaded("webhook_released", "visit", {r}), r,
                        [db[r] EXCEPT !.released = TRUE])
               ELSE Idle)
  /\ UNCHANGED <<db, listing, lock, pay, clock, faults>>

\* POST /{id}/cancel: a buyer with earlier cancellations gets the deposit of a
\* confirmed reservation back after a delay.
CancelLoad(p, r, delay) ==
  /\ sess[p] = Idle
  /\ db[r].status \in OpenStatuses
  /\ delay => db[r].status \in {"active", "settling"}
  /\ Become(p, [Set(Loaded("cancel", "visit", {r}), r, [db[r] EXCEPT !.due = @ \/ delay])
                  EXCEPT !.delay = delay])
  /\ UNCHANGED <<db, listing, lock, pay, clock, seen, faults>>

\* POST /{id}/decline
DeclineLoad(p, r) ==
  /\ sess[p] = Idle
  /\ db[r].status \in OpenStatuses
  /\ Become(p, Loaded("decline", "visit", {r}))
  /\ UNCHANGED <<db, listing, lock, pay, clock, seen, faults>>

\* run_release_expired: every overdue row is read at once and committed at the end
Expired(r) ==
  \/ db[r].status = "pending_payment" /\ PaymentOver(r)
  \/ db[r].status = "active" /\ HoldOver(r)

ExpireLoad(p) ==
  LET R == {r \in Res : Expired(r)} IN
  /\ sess[p] = Idle
  /\ R # {}
  /\ Become(p, Loaded("expire", "visit", R))
  /\ UNCHANGED <<db, listing, lock, pay, clock, seen, faults>>

\* The listing is read after the reservation; then svc.cancel up to its call.
VisitListing(p, r) ==
  LET s == sess[p]
      l == ListingOf[r] IN
  /\ s.kind \in {"cancel", "decline", "webhook_released", "expire"}
  /\ s.step = "visit"
  /\ r \in s.todo
  /\ Become(p, CancelOrRelease([s EXCEPT !.lloaded[l] = listing[l],
                                         !.lobject[l] = listing[l]], r))
  /\ UNCHANGED <<db, listing, lock, pay, clock, seen, faults>>

-----------------------------------------------------------------------------
(* POST /{id}/outcome and run_finalize_settling *)

OutcomeLoad(p, r, party, result) ==
  LET s == Loaded("outcome", "commit", {r})
      marked == FirstMark(db[r], result) IN
  /\ sess[p] = Idle
  /\ \/ /\ db[r].status = "active"
        /\ Become(p, IF NeedsRelease(marked, DueOver(r))
                     THEN [Set(s, r, marked) EXCEPT !.step = "release", !.at = r]
                     ELSE Set(s, r, marked))
     \/ /\ CanCorrect(db[r], party, result, CorrectionOver(r))
        /\ Become(p, Set(s, r, Correct(db[r], party, result)))
  /\ UNCHANGED <<db, listing, lock, pay, clock, seen, faults>>

FinalizeLoad(p) ==
  LET R == {r \in Res : db[r].status = "settling" /\ CorrectionOver(r)} IN
  /\ sess[p] = Idle
  /\ R # {}
  /\ Become(p, Loaded("finalize", "visit", R))
  /\ UNCHANGED <<db, listing, lock, pay, clock, seen, faults>>

FinalizeVisit(p, r) ==
  LET s == sess[p]
      l == ListingOf[r] IN
  /\ s.kind = "finalize"
  /\ s.step = "visit"
  /\ r \in s.todo
  /\ Become(p, [Set(Proceed(s, r), r, finalize(s.object[r])) EXCEPT
                  !.lloaded[l] = listing[l],
                  !.lobject[l] = ListingAfterFinalize(s.object[r])])
  /\ UNCHANGED <<db, listing, lock, pay, clock, seen, faults>>

-----------------------------------------------------------------------------
(* The provider's cancel_hold, and the handlers that call it *)

\* Only a held payment can be canceled; a repeated call may get the first
\* answer again or, later, an error.  A fault is a lost or refused call: refused
\* credentials are a terminal error too.
CancelHold(r, reply) ==
  \/ /\ reply = "ok"
     /\ pay[r] \in {"held", "released"}
     /\ pay' = [pay EXCEPT ![r] = "released"]
     /\ UNCHANGED faults
  \/ /\ reply = "terminal"
     /\ pay[r] \in {"pending", "void", "lapsed", "released"}
     /\ UNCHANGED <<pay, faults>>
  \/ /\ reply = "terminal"
     /\ pay[r] = "held"
     /\ Fault
     /\ UNCHANGED pay
  \/ /\ reply = "transient"
     /\ Fault
     /\ pay' \in {pay, [pay EXCEPT ![r] = IF @ = "held" THEN "released" ELSE @]}

Release(p, reply) ==
  LET s == sess[p]
      r == s.at
      t == Set(s, r, AfterRelease(s.object[r], reply)) IN
  /\ s.step = "release"
  /\ CancelHold(r, reply)
  /\ Become(p, IF s.kind = "outcome" THEN Proceed(t, r) ELSE Cancelled(t, r))
  /\ UNCHANGED <<db, listing, lock, clock, seen>>

\* run_reconcile_deposits: cancelled rows whose release is still pending; past
\* the grace period they are written off without a call.
UnreleasedBug(r) == db[r].status = "cancelled" /\ NeedsRelease(db[r], FALSE)
Unreleased(r) ==
  /\ db[r].status = "cancelled"
  /\ NeedsRelease(db[r], DueOver(r))

ReconcileLoad(p) ==
  LET R == {r \in Res : Unreleased(r)}
      written == {r \in R : clock[r].age = "grace"}
      s == Loaded("reconcile", "visit", R) IN
  /\ sess[p] = Idle
  /\ R # {}
  /\ Become(p, [s EXCEPT
       !.todo = R \ written,
       !.step = IF R = written THEN "commit" ELSE "visit",
       !.object = [r \in Res |-> IF r \in written
                                 THEN [@[r] EXCEPT !.released = TRUE] ELSE @[r]]])
  /\ UNCHANGED <<db, listing, lock, pay, clock, seen, faults>>

\* Here every answer but a transient error counts as released.
ReconcileRelease(p, r, reply) ==
  LET s == sess[p] IN
  /\ s.kind = "reconcile"
  /\ s.step = "visit"
  /\ r \in s.todo
  /\ CancelHold(r, reply)
  /\ Become(p, Set(Proceed(s, r), r,
                   [s.object[r] EXCEPT !.released = @ \/ reply # "transient"]))
  /\ UNCHANGED <<db, listing, lock, clock, seen>>

-----------------------------------------------------------------------------
(* session.commit, and a session that ends without it *)

Dirty(s) == {r \in Res : s.object[r] # s.loaded[r]}
DirtyListings(s) == {l \in Listings : s.lobject[l] # s.lloaded[l]}

RowsAfter(s) == [r \in Res |-> IF r \in Dirty(s)
                               THEN Flush(db[r], s.loaded[r], s.object[r])
                               ELSE db[r]]

\* An UPDATE that matches no row, or that the unique index refuses, fails.
CommitAllowed(s) ==
  /\ \A r \in Dirty(s) : Exists(db[r])
  /\ UniqueOpen(RowsAfter(s))

\* Deadlines the commit sets anew
Rewound(s, r) ==
  [clock[r] EXCEPT
     !.correction = @ /\ ~(/\ s.object[r].status = "settling"
                           /\ s.loaded[r].status = "active"),
     !.due = @ /\ ~(s.delay /\ r \in Dirty(s))]

Commit(p) ==
  LET s == sess[p] IN
  /\ s.step = "commit"
  /\ \A l \in DirtyListings(s) : lock[l] \in {NoProc, p}
  /\ CommitAllowed(s)
  /\ db' = RowsAfter(s)
  /\ listing' = [l \in Listings |-> IF l \in DirtyListings(s)
                                    THEN s.lobject[l] ELSE listing[l]]
  /\ clock' = [r \in Res |-> Rewound(s, r)]
  /\ lock' = Unlocked(p)
  /\ Finish(p)
  /\ UNCHANGED <<pay, seen, faults>>

CommitFails(p) ==
  LET s == sess[p] IN
  /\ s.step = "commit"
  /\ \A l \in DirtyListings(s) : lock[l] \in {NoProc, p}
  /\ ~CommitAllowed(s)
  /\ lock' = Unlocked(p)
  /\ Finish(p)
  /\ UNCHANGED <<db, listing, pay, clock, seen, faults>>

\* DELETE /{id}: the status is checked on the row read, the row deleted by key
DeleteLoad(p, r) ==
  /\ sess[p] = Idle
  /\ db[r].status = "cancelled"
  /\ Become(p, [Idle EXCEPT !.kind = "delete", !.step = "delete", !.at = r])
  /\ UNCHANGED <<db, listing, lock, pay, clock, seen, faults>>

DeleteCommit(p) ==
  LET r == sess[p].at IN
  /\ sess[p].step = "delete"
  /\ db' = [db EXCEPT ![r] = IF Exists(@) THEN Deleted(@) ELSE @]
  /\ Finish(p)
  /\ UNCHANGED <<listing, lock, pay, clock, seen, faults>>

\* The worker process dies (lifetime, memory limit or kill timeout of the
\* server): the transaction is rolled back.
Crash(p) ==
  /\ sess[p] # Idle
  /\ Fault
  /\ lock' = Unlocked(p)
  /\ Finish(p)
  /\ UNCHANGED <<db, listing, pay, clock, seen>>

-----------------------------------------------------------------------------
(* The buyer, the provider and time *)

\* The payment link reaches the buyer once its payment id is saved.
Pay(r) ==
  /\ pay[r] = "pending"
  /\ db[r].paid_by
  /\ pay' = [pay EXCEPT ![r] = "held"]
  /\ UNCHANGED <<db, listing, lock, clock, seen, sess, faults>>

\* The provider cancels a payment nobody made, or a hold not captured in time
ProviderCancels(r) ==
  /\ pay[r] \in {"pending", "held"}
  /\ pay' = [pay EXCEPT ![r] = IF @ = "pending" THEN "void" ELSE "lapsed"]
  /\ UNCHANGED <<db, listing, lock, clock, seen, sess, faults>>

\* A deadline passes when a handler could notice it; one that passed earlier
\* unnoticed is a deadline passing now.
AgeElapses(r) ==
  /\ clock' = [clock EXCEPT ![r].age =
                  CASE db[r].status = "pending_payment" -> "payment"
                    [] db[r].status \in {"active", "settling"} -> "hold"
                    [] db[r].status = "cancelled" -> "grace"
                    [] OTHER -> @]
  /\ clock' # clock
  /\ ~(HoldOver(r) /\ db[r].status # "cancelled")
  /\ UNCHANGED <<db, listing, lock, pay, seen, sess, faults>>

CorrectionElapses(r) ==
  /\ db[r].status = "settling"
  /\ ~CorrectionOver(r)
  /\ clock' = [clock EXCEPT ![r].correction = TRUE]
  /\ UNCHANGED <<db, listing, lock, pay, seen, sess, faults>>

DueElapses(r) ==
  /\ db[r].due
  /\ ~DueOver(r)
  /\ clock' = [clock EXCEPT ![r].due = TRUE]
  /\ UNCHANGED <<db, listing, lock, pay, seen, sess, faults>>

-----------------------------------------------------------------------------
Replies == {"ok", "terminal", "transient"}

Request(p) ==
  \E r \in Res :
    \/ "reserve" \in Handlers /\ ReserveLock(p, r)
    \/ "recover" \in Handlers /\ RecoverLock(p, r)
    \/ "confirm" \in Handlers /\ ConfirmEvent(p, r)
    \/ "return" \in Handlers /\ ReturnPage(p, r)
    \/ "released" \in Handlers /\ ReleasedEvent(p, r)
    \/ "cancel" \in Handlers /\ CancelLoad(p, r, FALSE)
    \/ "delayed_cancel" \in Handlers /\ CancelLoad(p, r, TRUE)
    \/ "decline" \in Handlers /\ DeclineLoad(p, r)
    \/ /\ "outcome" \in Handlers
       /\ \E party \in Parties, result \in Outcomes : OutcomeLoad(p, r, party, result)
    \/ "delete" \in Handlers /\ DeleteLoad(p, r)

Job(p) == ExpireLoad(p) \/ FinalizeLoad(p) \/ ReconcileLoad(p)

\* A step of a session under way
Continue(p) ==
  \/ ReserveInsert(p)
  \/ ReserveRefresh(p)
  \/ CreateHold(p)
  \/ CreateHoldFails(p)
  \/ ConfirmLoad(p)
  \/ \E r \in Res : VisitListing(p, r)
  \/ \E r \in Res : FinalizeVisit(p, r)
  \/ \E reply \in Replies : Release(p, reply)
  \/ \E r \in Res, reply \in Replies : ReconcileRelease(p, r, reply)
  \/ Commit(p)
  \/ CommitFails(p)
  \/ DeleteCommit(p)

Environment ==
  \E r \in Res :
    \/ Pay(r)
    \/ ProviderCancels(r)
    \/ AgeElapses(r)
    \/ CorrectionElapses(r)
    \/ DueElapses(r)

Next ==
  \/ \E p \in Requests : Request(p)
  \/ \E p \in Workers : Job(p)
  \/ \E p \in Procs : Continue(p) \/ Crash(p)
  \/ Environment

Spec == Init /\ [][Next]_vars

\* The scheduling the code relies on.  A live process takes its next step and
\* its provider calls return; a commit that waits for a listing lock gets its
\* turn; each job fires at its own interval, so a worker takes each kind of job
\* again and again; deadlines pass.  Nothing is assumed of buyers, sellers, the
\* webhook or the return page.
Fairness ==
  /\ \A p \in Procs : WF_vars(Continue(p)) /\ SF_vars(Commit(p))
  /\ \E p \in Workers :
       SF_vars(ExpireLoad(p)) /\ SF_vars(FinalizeLoad(p)) /\ SF_vars(ReconcileLoad(p))
  /\ \A r \in Res : /\ WF_vars(AgeElapses(r))
                    /\ WF_vars(CorrectionElapses(r))
                    /\ WF_vars(DueElapses(r))

FairSpec == Spec /\ Fairness

-----------------------------------------------------------------------------
(* Properties that hold *)

\* A reservation past pending_payment (on_hold_confirmed, mark_outcome,
\* finalize) has a payment attached whose money was really held at some point:
\* no interleaving of a failed or repeated create_hold, the webhook and the
\* return page confirms a reservation nobody paid for.
ConfirmedWasHeld ==
  \A r \in Res :
    db[r].status \in Confirmed =>
      db[r].paid_by /\ pay[r] \in {"held", "released", "lapsed"}

\* A settling or completed reservation has an outcome, even one a stale
\* confirmation sent back to active and that was then marked or finalized again.
SettledHasOutcome ==
  \A r \in Res : db[r].status \in Settled => db[r].outcome # None

\* A car shown as reserved has an open reservation: no race of cancel, finalize,
\* reserve and webhook takes a car off sale with nothing left to release it.
ReservedHasOwner ==
  \A l \in Listings : listing[l] = "reserved" => OpenOn(l) # {}

\* A commit never loses what another session recorded in the meantime: the
\* payment id, the release of the deposit and a spent correction stay recorded
\* for as long as the row exists.
RecordsAreKept ==
  [][\A r \in Res :
       Exists(db[r]) /\ Exists(db'[r]) =>
         /\ db[r].paid_by => db'[r].paid_by
         /\ db[r].released => db'[r].released
         /\ \A q \in Parties : db[r].used[q] => db'[r].used[q]]_vars

\* Every open reservation is closed in the end by the scheduled jobs alone,
\* through crashes, provider errors and refused commits.
OpenIsClosed ==
  \A r \in Res :
    db[r].status \in OpenStatuses ~> db[r].status \notin OpenStatuses

\* A reserved car goes back on sale, or is sold, in the end with nobody but the
\* jobs acting: a handler that dies half-way does not take a car off sale for good.
BackOnSale ==
  \A l \in Listings : listing[l] = "reserved" ~> listing[l] # "reserved"

\* The release of a cancelled reservation's deposit does not stay pending:
\* run_reconcile_deposits records it or the row goes.
ReleaseIsReconciled ==
  \A r \in Res :
    (db[r].status = "cancelled" /\ db[r].paid_by /\ ~db[r].released)
      ~> (db[r].status # "cancelled" \/ db[r].released)

-----------------------------------------------------------------------------
(* The inductive invariant of the theorems in ReservationsProofs: what a    *)
(* session may hold on to while others commit.                              *)

Placed == {"held", "released", "lapsed"}

\* What a confirmed, and a settled, row needs of itself and of the provider
RowSound(row, payment) ==
  /\ row.status \in Confirmed => row.paid_by /\ payment \in Placed
  /\ row.status \in Settled => row.outcome # None

\* Columns once set stay set from the older to the newer version of a row
Grown(older, newer) ==
  /\ older.paid_by => newer.paid_by
  /\ older.outcome # None => newer.outcome # None
  /\ older.released => newer.released
  /\ \A q \in Parties : older.used[q] => newer.used[q]

\* A session's objects have only gained on what it loaded, would be sound rows
\* themselves, and the table has lost nothing of what it loaded.
ObjectsSound(s, rows, payments) ==
  \A r \in Res :
    /\ RowSound(s.object[r], payments[r])
    /\ Grown(s.loaded[r], s.object[r])
    /\ rows[r].status = "deleted" \/ Grown(s.loaded[r], rows[r])

\* A session at these steps works on one reservation; it confirms a hold that
\* was placed, inserts a row under the lock of its listing, and finalizes rows it
\* read as settling.
StepSound(p, s, rows, payments) ==
  /\ s.step \in {"insert", "refresh", "hold", "load", "release", "delete"} => s.at \in Res
  /\ s.step = "load" => payments[s.at] \in Placed
  /\ s.step = "insert" => /\ rows[s.at] = NoRow
                          /\ s.object[s.at] = build_reservation
                          /\ lock[ListingOf[s.at]] = p
  /\ s.kind = "finalize" => /\ s.step \in {"visit", "commit"}
                            /\ \A r \in s.todo : s.object[r].status = "settling"

RowsSound == \A r \in Res : RowSound(db[r], pay[r])

SessionsSound ==
  \A p \in Procs : /\ ObjectsSound(sess[p], db, pay)
                   /\ StepSound(p, sess[p], db, pay)

IInv == TypeOK /\ RowsSound /\ SessionsSound

-----------------------------------------------------------------------------
(* The inductive invariant behind ReservedHasOwner: whoever is about to     *)
(* close the reservation that locked a car takes the lock off in the same   *)
(* commit.                                                                  *)

\* A session that will close or delete row r and leave the listing's column alone:
\* it read the listing before the car was reserved.
Blind(s, r) ==
  \/ s.step = "delete" /\ s.at = r
  \/ /\ s.lloaded[ListingOf[r]] # "reserved"
     /\ \/ s.object[r].status \in _TERMINAL /\ s.object[r].status # s.loaded[r].status
        \/ s.step = "release" /\ s.at = r /\ s.kind # "outcome"

\* A reserved car has an open reservation that no session closes blindly.
LockOwned ==
  \A l \in Listings :
    listing[l] = "reserved" =>
      \E r \in OnListing(l) : /\ db[r].status \in OpenStatuses
                              /\ \A p \in Procs : ~Blind(sess[p], r)

\* Rows a session works on exist, but for the one it inserts.
WorksOnRows(s, rows) ==
  \A r \in Res :
    rows[r].status = "absent" =>
      /\ s.object[r].status \notin _TERMINAL
      /\ s.step \in {"refresh", "hold", "release", "delete"} => s.at # r
      /\ s.step \in {"refresh", "hold", "visit", "release"} => r \notin s.todo

\* A session that closes a row has put its car back on sale, or is about to.
ClosesWithCar(s) ==
  \A r \in Res :
    s.object[r].status # s.loaded[r].status =>
      \/ s.object[r].status \in OpenStatuses
      \/ /\ s.object[r].status \in _TERMINAL
         /\ \/ s.lobject[ListingOf[r]] # "reserved"
            \/ s.step = "release" /\ s.kind # "outcome" /\ ListingOf[s.at] = ListingOf[r]

\* Only the session that inserts a row makes a car reserved.
LocksOnInsert(s) ==
  /\ s.step = "insert" => /\ s.kind = "reserve" /\ s.todo = {s.at}
                          /\ s.lobject[ListingOf[s.at]] = "reserved"
                          /\ \A r \in Res : s.object[r].status \notin _TERMINAL
  /\ s.step # "insert" =>
       \A l \in Listings : s.lobject[l] = "reserved" => s.lloaded[l] = "reserved"
  /\ s.step \in {"refresh", "hold"} /\ s.kind # "recover" =>
       s.kind = "reserve" /\ s.lloaded[ListingOf[s.at]] = "reserved"

SessionsClose ==
  \A p \in Procs : /\ WorksOnRows(sess[p], db)
                   /\ ClosesWithCar(sess[p])
                   /\ LocksOnInsert(sess[p])

LockInv == LockOwned /\ SessionsClose

-----------------------------------------------------------------------------
(* What the code's comments and messages say, and the code does not do *)

-----------------------------------------------------------------------------
\* What the code, its texts or its tests say and a behaviour refutes: see the README.

\* models/reservations.py: "pending_payment: listing locked, hold not yet
\* confirmed".
PendingLocksListing ==
  \A r \in Res :
    db[r].status = "pending_payment" => listing[ListingOf[r]] = "reserved"

\* models/reservations.py: "settling: first outcome mark; deposit released;
\* correction open".
SettlingDepositReleased ==
  \A r \in Res : db[r].status = "settling" => pay[r] # "held"

\* confirm_hold: "Hold can be confirmed only from pending_payment".
ConfirmedFromPending ==
  [][\A r \in Res :
       db[r].status # "active" /\ db'[r].status = "active"
         => db[r].status = "pending_payment"]_vars

\* mark_outcome: "Outcome can be marked only on an active or settling
\* reservation".
OutcomeMarkedOpen ==
  [][\A r \in Res :
       Exists(db'[r]) /\ db'[r].outcome # db[r].outcome
         => db[r].status \in {"active", "settling"}]_vars

\* CancelReason.hold_released_externally: the hold was ended by the provider,
\* not by this system's own release.
ReleasedExternally ==
  \A r \in Res :
    db[r].reason = "hold_released_externally" => pay[r] # "released"

\* _release_deposit logs "deposit.nothing_to_release" and records the release:
\* nothing of a reservation recorded as released is held.
NothingLeftToRelease ==
  \A r \in Res : db[r].released => pay[r] # "held"
=============================================================================
