-------------------------- MODULE ReservationsProofs --------------------------
(***************************************************************************)
(* Theorems about Reservations for any number of listings, reservations,   *)
(* requests and job runs, any set of handlers and any number of faults.    *)
(* First the rows, then the objects of a session, then one lemma per       *)
(* action for each of the two inductive invariants, IInv and LockInv, each *)
(* followed by its theorems.                                               *)
(***************************************************************************)
EXTENDS Reservations, TLAPS

-----------------------------------------------------------------------------
(* Rows *)

LEMMA NoRowType == NoRow \in Row
BY DEF NoRow, Row, OpenStatuses, _TERMINAL, CancelReasons, None

\* Every transition of reservation_service.py gives a row
LEMMA TransitionType ==
  ASSUME NEW row \in Row, NEW party \in Parties, NEW result \in Outcomes,
         NEW reason \in CancelReasons, NEW reply
  PROVE  /\ build_reservation \in Row
         /\ Deleted(row) \in Row
         /\ confirm_hold(row) \in Row
         /\ FirstMark(row, result) \in Row
         /\ Correct(row, party, result) \in Row
         /\ finalize(row) \in Row
         /\ cancel(row, reason) \in Row
         /\ AfterRelease(row, reply) \in Row
<1>1. build_reservation \in Row
  BY NoRowType DEF build_reservation, Row, OpenStatuses
<1>2. Deleted(row) \in Row
  BY NoRowType DEF Deleted, Row
<1>3. confirm_hold(row) \in Row
  BY DEF confirm_hold, Row, OpenStatuses
<1>4. FirstMark(row, result) \in Row
  BY DEF FirstMark, Row, OpenStatuses
<1>5. Correct(row, party, result) \in Row
  BY DEF Correct, Row
<1>6. finalize(row) \in Row
  BY DEF finalize, Row, _TERMINAL
<1>7. cancel(row, reason) \in Row
  BY DEF cancel, Row, _TERMINAL
<1>8. AfterRelease(row, reply) \in Row
  BY DEF AfterRelease, Row
<1> QED BY <1>1, <1>2, <1>3, <1>4, <1>5, <1>6, <1>7, <1>8

\* The unit of work writes a row
LEMMA FlushType ==
  ASSUME NEW stored \in Row, NEW loaded \in Row, NEW object \in Row
  PROVE  Flush(stored, loaded, object) \in Row
BY DEF Flush, Column, Row

\* Writing the changed columns of a sound object over a sound row the table has
\* not lost columns of gives a sound row that has lost nothing either.
LEMMA FlushSound ==
  ASSUME NEW stored \in Row, NEW loaded \in Row, NEW object \in Row, NEW payment,
         Grown(loaded, object), Grown(loaded, stored),
         RowSound(stored, payment), RowSound(object, payment)
  PROVE  /\ RowSound(Flush(stored, loaded, object), payment)
         /\ Grown(stored, Flush(stored, loaded, object))
<1> DEFINE new == Flush(stored, loaded, object)
<1>1. Grown(object, new)
  BY DEF Grown, Flush, Column, Row
<1>2. Grown(stored, new)
  BY DEF Grown, Flush, Column, Row
<1>3. new.status \in {stored.status, object.status}
  BY DEF Flush, Column
<1>4. RowSound(new, payment)
  BY <1>1, <1>2, <1>3 DEF RowSound, Grown
<1> QED BY <1>2, <1>4

LEMMA GrownReflexive == ASSUME NEW row PROVE Grown(row, row)
BY DEF Grown

LEMMA GrownTransitive ==
  ASSUME NEW x, NEW y, NEW z, Grown(x, y), Grown(y, z)
  PROVE  Grown(x, z)
BY DEF Grown

\* Transitions that keep a row sound whatever the provider's state
LEMMA TransitionSound ==
  ASSUME NEW row \in Row, NEW payment, RowSound(row, payment),
         NEW reason, NEW reply, NEW party \in Parties, NEW result \in Outcomes
  PROVE  /\ RowSound(cancel(row, reason), payment) /\ Grown(row, cancel(row, reason))
         /\ RowSound(AfterRelease(row, reply), payment) /\ Grown(row, AfterRelease(row, reply))
         /\ RowSound(Correct(row, party, result), payment)
         /\ Grown(row, Correct(row, party, result))
         /\ row.status \in Settled =>
              RowSound(finalize(row), payment) /\ Grown(row, finalize(row))
         /\ row.status \in Confirmed =>
              RowSound(FirstMark(row, result), payment) /\ Grown(row, FirstMark(row, result))
         /\ row.paid_by /\ payment \in Placed =>
              RowSound(confirm_hold(row), payment) /\ Grown(row, confirm_hold(row))
<1>0. result # None
  BY OutcomesAssumption DEF None
<1>1. RowSound(cancel(row, reason), payment) /\ Grown(row, cancel(row, reason))
  BY DEF RowSound, Grown, cancel, Row, Confirmed, Settled
<1>2. RowSound(AfterRelease(row, reply), payment) /\ Grown(row, AfterRelease(row, reply))
  BY DEF RowSound, Grown, AfterRelease, Row
<1>3. RowSound(Correct(row, party, result), payment) /\ Grown(row, Correct(row, party, result))
  BY <1>0 DEF RowSound, Grown, Correct, Row
<1>4. row.status \in Settled =>
        RowSound(finalize(row), payment) /\ Grown(row, finalize(row))
  BY DEF RowSound, Grown, finalize, Row, Settled, Confirmed
<1>5. row.status \in Confirmed =>
        RowSound(FirstMark(row, result), payment) /\ Grown(row, FirstMark(row, result))
  BY <1>0 DEF RowSound, Grown, FirstMark, Row, Settled, Confirmed
<1>6. row.paid_by /\ payment \in Placed =>
        RowSound(confirm_hold(row), payment) /\ Grown(row, confirm_hold(row))
  BY DEF RowSound, Grown, confirm_hold, Row, Settled
<1> QED BY <1>1, <1>2, <1>3, <1>4, <1>5, <1>6

-----------------------------------------------------------------------------
(* The objects of a session *)

LEMMA IdleType == Idle \in Session /\ NoRows \in [Res -> Row]
BY NoRowType DEF Idle, Session, NoRows, NoListings, ListingStatus, Kinds, Steps, None

\* A session whose object r alone went on is as sound as before.
LEMMA SetSound ==
  ASSUME NEW s \in Session, NEW rows, NEW payments, ObjectsSound(s, rows, payments),
         NEW r \in Res, NEW row \in Row,
         RowSound(row, payments[r]), Grown(s.object[r], row)
  PROVE  /\ Set(s, r, row) \in Session
         /\ ObjectsSound(Set(s, r, row), rows, payments)
         /\ Set(s, r, row).kind = s.kind
         /\ Set(s, r, row).step = s.step
         /\ Set(s, r, row).at = s.at
         /\ Set(s, r, row).todo = s.todo
         /\ \A x \in Res \ {r} : Set(s, r, row).object[x] = s.object[x]
<1> DEFINE t == Set(s, r, row)
<1>1. [s.object EXCEPT ![r] = row] \in [Res -> Row] /\ s.object \in [Res -> Row]
  BY DEF Session
<1>2. /\ t \in Session /\ t.object = [s.object EXCEPT ![r] = row] /\ t.loaded = s.loaded
      /\ t.kind = s.kind /\ t.step = s.step /\ t.at = s.at /\ t.todo = s.todo
  BY <1>1 DEF Set, Session
<1> HIDE DEF t
<1>3. ASSUME NEW x \in Res
      PROVE  /\ RowSound(t.object[x], payments[x])
             /\ Grown(t.loaded[x], t.object[x])
             /\ rows[x].status = "deleted" \/ Grown(t.loaded[x], rows[x])
  <2>1. /\ RowSound(s.object[x], payments[x])
        /\ Grown(s.loaded[x], s.object[x])
        /\ rows[x].status = "deleted" \/ Grown(s.loaded[x], rows[x])
    BY DEF ObjectsSound
  <2>2. CASE x = r
    <3>1. t.object[x] = row
      BY <1>1, <1>2, <2>2
    <3> QED BY <1>2, <2>1, <2>2, <3>1, GrownTransitive
  <2>3. CASE x # r
    <3>1. t.object[x] = s.object[x]
      BY <1>1, <1>2, <2>3
    <3> QED BY <1>2, <2>1, <3>1
  <2> QED BY <2>2, <2>3
<1>4. ObjectsSound(t, rows, payments)
  BY <1>3 DEF ObjectsSound
<1>5. \A x \in Res \ {r} : t.object[x] = s.object[x]
  BY <1>1, <1>2
<1> QED BY <1>2, <1>4, <1>5 DEF t

\* What others commit, and what the provider does, leaves a session sound.
LEMMA ObjectsStable ==
  ASSUME NEW s, NEW rows, NEW payments, NEW rows2, NEW payments2,
         ObjectsSound(s, rows, payments),
         \A r \in Res : /\ Grown(rows[r], rows2[r]) \/ rows2[r].status = "deleted"
                        /\ rows[r].status = "deleted" => rows2[r].status = "deleted"
                        /\ payments[r] \in Placed => payments2[r] \in Placed
  PROVE  ObjectsSound(s, rows2, payments2)
<1> SUFFICES ASSUME NEW x \in Res
             PROVE  /\ RowSound(s.object[x], payments2[x])
                    /\ Grown(s.loaded[x], s.object[x])
                    /\ rows2[x].status = "deleted" \/ Grown(s.loaded[x], rows2[x])
  BY DEF ObjectsSound
<1>1. /\ RowSound(s.object[x], payments[x])
      /\ Grown(s.loaded[x], s.object[x])
      /\ rows[x].status = "deleted" \/ Grown(s.loaded[x], rows[x])
  BY DEF ObjectsSound
<1>2. RowSound(s.object[x], payments2[x])
  BY <1>1 DEF RowSound
<1>3. rows2[x].status = "deleted" \/ Grown(s.loaded[x], rows2[x])
  BY <1>1, GrownTransitive
<1> QED BY <1>1, <1>2, <1>3

\* Freshly read rows are sound.
LEMMA LoadedSound ==
  ASSUME IInv, NEW kind \in Kinds, NEW step \in Steps, NEW R \in SUBSET Res
  PROVE  /\ Loaded(kind, step, R) \in Session
         /\ ObjectsSound(Loaded(kind, step, R), db, pay)
         /\ Loaded(kind, step, R).kind = kind
         /\ Loaded(kind, step, R).step = step
         /\ Loaded(kind, step, R).todo = R
         /\ \A r \in R : Loaded(kind, step, R).object[r] = db[r]
<1> DEFINE s == Loaded(kind, step, R)
<1>1. s.loaded = [r \in Res |-> IF r \in R THEN db[r] ELSE NoRow] /\ s.object = s.loaded
  BY DEF Loaded, Idle
<1>2. s \in Session
  BY IdleType, NoRowType DEF IInv, TypeOK, Loaded, Session, Idle
<1>3. ASSUME NEW r \in Res
      PROVE  /\ RowSound(s.object[r], pay[r])
             /\ Grown(s.loaded[r], s.object[r])
             /\ db[r].status = "deleted" \/ Grown(s.loaded[r], db[r])
  <2>1. RowSound(NoRow, pay[r]) /\ Grown(NoRow, db[r])
    BY DEF RowSound, Grown, NoRow, Confirmed, Settled
  <2>2. RowSound(db[r], pay[r])
    BY DEF IInv, RowsSound
  <2> HIDE DEF s
  <2> QED BY <1>1, <2>1, <2>2, GrownReflexive
<1>4. s.kind = kind /\ s.step = step /\ s.todo = R
  BY DEF Loaded, Idle
<1>5. \A r \in R : s.object[r] = db[r]
  BY <1>1
<1> QED BY <1>2, <1>3, <1>4, <1>5 DEF ObjectsSound

\* An idle session is sound.
LEMMA IdleSound ==
  ASSUME NEW rows, NEW payments
  PROVE  ObjectsSound(Idle, rows, payments)
BY DEF ObjectsSound, Idle, NoRows, NoRow, RowSound, Grown, Confirmed, Settled

LEMMA ProceedSound ==
  ASSUME NEW s \in Session, NEW r \in Res
  PROVE  /\ Proceed(s, r) \in Session
         /\ Proceed(s, r).loaded = s.loaded
         /\ Proceed(s, r).object = s.object
         /\ Proceed(s, r).kind = s.kind
         /\ Proceed(s, r).todo = s.todo \ {r}
         /\ Proceed(s, r).step \in {"commit", "visit"}
BY DEF Proceed, Session, Steps

LEMMA ReasonType ==
  ASSUME NEW s, NEW r PROVE ReasonFor(s, r) \in CancelReasons
BY DEF ReasonFor, CancelReasons

\* svc.cancel alone, whatever the parties and outcomes of the instance
LEMMA CancelType ==
  ASSUME NEW row \in Row, NEW reason \in CancelReasons PROVE cancel(row, reason) \in Row
BY DEF cancel, Row, _TERMINAL

LEMMA CancelKeepsSound ==
  ASSUME NEW row \in Row, NEW payment, RowSound(row, payment), NEW reason
  PROVE  RowSound(cancel(row, reason), payment) /\ Grown(row, cancel(row, reason))
BY DEF RowSound, Grown, cancel, Row, Confirmed, Settled

LEMMA CancelledSound ==
  ASSUME NEW s \in Session, NEW r \in Res, NEW p, NEW rows, NEW payments,
         ObjectsSound(s, rows, payments), s.kind # "finalize"
  PROVE  /\ Cancelled(s, r) \in Session
         /\ ObjectsSound(Cancelled(s, r), rows, payments)
         /\ StepSound(p, Cancelled(s, r), rows, payments)
         /\ Cancelled(s, r).step \in {"commit", "visit"}
<1>1. s.object[r] \in Row /\ ListingOf[r] \in Listings
  BY ListingOfAssumption DEF Session
<1>2. PICK row : row = cancel(s.object[r], ReasonFor(s, r))
  OBVIOUS
<1>3. row \in Row /\ RowSound(row, payments[r]) /\ Grown(s.object[r], row)
  BY <1>1, <1>2, ReasonType, CancelType, CancelKeepsSound DEF ObjectsSound
<1>4. PICK u : u = Proceed(s, r)
  OBVIOUS
<1>5. /\ u \in Session /\ u.loaded = s.loaded /\ u.object = s.object
      /\ u.step \in {"commit", "visit"} /\ u.kind = s.kind
  BY <1>4, ProceedSound
<1>6. ObjectsSound(u, rows, payments)
  BY <1>5 DEF ObjectsSound
<1>7. PICK v : v = Set(u, r, row)
  OBVIOUS
<1>8. /\ v \in Session /\ ObjectsSound(v, rows, payments)
      /\ v.step \in {"commit", "visit"} /\ v.kind = s.kind
  BY <1>3, <1>5, <1>6, <1>7, SetSound
<1>9. PICK t : t = [v EXCEPT !.lobject[ListingOf[r]] = "active"]
  OBVIOUS
<1>10. /\ t \in Session /\ t.loaded = v.loaded /\ t.object = v.object
       /\ t.step = v.step /\ t.kind = v.kind
  BY <1>1, <1>8, <1>9 DEF Session, ListingStatus
<1>11. t = Cancelled(s, r)
  BY <1>2, <1>4, <1>7, <1>9 DEF Cancelled
<1>12. ObjectsSound(t, rows, payments) /\ StepSound(p, t, rows, payments)
  BY <1>8, <1>10 DEF ObjectsSound, StepSound
<1> QED BY <1>8, <1>10, <1>11, <1>12

LEMMA CancelOrReleaseSound ==
  ASSUME NEW s \in Session, NEW r \in Res, NEW p, NEW rows, NEW payments,
         ObjectsSound(s, rows, payments), s.kind # "finalize"
  PROVE  /\ CancelOrRelease(s, r) \in Session
         /\ ObjectsSound(CancelOrRelease(s, r), rows, payments)
         /\ StepSound(p, CancelOrRelease(s, r), rows, payments)
         /\ CancelOrRelease(s, r).step \in {"release", "commit", "visit"}
<1> DEFINE t == [s EXCEPT !.step = "release", !.at = r]
<1>1. t \in Session /\ t.loaded = s.loaded /\ t.object = s.object
      /\ t.step = "release" /\ t.at = r /\ t.kind = s.kind
  BY DEF Session, Steps
<1>2. ObjectsSound(t, rows, payments)
  BY <1>1 DEF ObjectsSound
<1>3. StepSound(p, t, rows, payments)
  BY <1>1 DEF StepSound
<1> QED BY <1>1, <1>2, <1>3, CancelledSound DEF CancelOrRelease

-----------------------------------------------------------------------------
(* One process moves on: what is left to show of IInv' *)

\* The process moves its own session and nothing it shares with the others
LEMMA SessionStep ==
  ASSUME IInv, NEW p \in Procs, NEW t \in Session,
         ObjectsSound(t, db, pay), StepSound(p, t, db, pay), Become(p, t),
         UNCHANGED <<db, listing, lock, pay, clock, faults>>,
         seen' \subseteq Res \X Events
  PROVE  IInv'
<1>1. TypeOK'
  BY DEF IInv, TypeOK, Become
<1>2. RowsSound'
  BY DEF IInv, RowsSound
<1>3. ASSUME NEW q \in Procs
      PROVE  ObjectsSound(sess[q], db, pay)' /\ StepSound(q, sess[q], db, pay)'
  <2>1. CASE q = p
    <3>1. sess'[q] = t
      BY <2>1 DEF Become, IInv, TypeOK
    <3> QED BY <2>1, <3>1 DEF ObjectsSound, StepSound
  <2>2. CASE q # p
    <3>1. sess'[q] = sess[q]
      BY <2>2 DEF Become, IInv, TypeOK
    <3>2. ObjectsSound(sess[q], db, pay) /\ StepSound(q, sess[q], db, pay)
      BY DEF IInv, SessionsSound
    <3> QED BY <3>1, <3>2 DEF ObjectsSound, StepSound
  <2> QED BY <2>1, <2>2
<1> QED BY <1>1, <1>2, <1>3 DEF IInv, SessionsSound

\* The process also changes rows, payments or locks, and harms no other session
LEMMA SharedStep ==
  ASSUME IInv, TypeOK', NEW p \in Procs, NEW t, Become(p, t),
         ObjectsSound(t, db', pay'), StepSound(p, t, db, pay)',
         \A r \in Res : /\ RowSound(db'[r], pay'[r])
                        /\ Grown(db[r], db'[r]) \/ db'[r].status = "deleted"
                        /\ db[r].status = "deleted" => db'[r].status = "deleted"
                        /\ pay[r] \in Placed => pay'[r] \in Placed,
         \A q \in Procs \ {p} :
           sess[q].step = "insert" =>
             /\ db'[sess[q].at] = db[sess[q].at]
             /\ lock'[ListingOf[sess[q].at]] = lock[ListingOf[sess[q].at]]
  PROVE  IInv'
<1>1. RowsSound'
  BY DEF RowsSound
<1>2. ASSUME NEW q \in Procs
      PROVE  ObjectsSound(sess[q], db, pay)' /\ StepSound(q, sess[q], db, pay)'
  <2>1. CASE q = p
    <3>1. sess'[q] = t
      BY <2>1 DEF Become, IInv, TypeOK
    <3> QED BY <2>1, <3>1 DEF ObjectsSound, StepSound
  <2>2. CASE q # p
    <3>1. sess'[q] = sess[q]
      BY <2>2 DEF Become, IInv, TypeOK
    <3>2. ObjectsSound(sess[q], db, pay) /\ StepSound(q, sess[q], db, pay)
      BY DEF IInv, SessionsSound
    <3>3. ObjectsSound(sess[q], db', pay')
      BY <3>2, ObjectsStable
    <3>4. StepSound(q, sess[q], db, pay)'
      BY <2>2, <3>1, <3>2 DEF StepSound
    <3> QED BY <3>1, <3>3, <3>4 DEF ObjectsSound
  <2> QED BY <2>1, <2>2
<1> QED BY <1>1, <1>2 DEF IInv, SessionsSound

\* What IInv says of one process and of one row
LEMMA FromIInv ==
  ASSUME IInv, NEW p \in Procs
  PROVE  /\ sess[p] \in Session
         /\ ObjectsSound(sess[p], db, pay)
         /\ StepSound(p, sess[p], db, pay)
         /\ \A r \in Res : db[r] \in Row /\ RowSound(db[r], pay[r])
BY DEF IInv, TypeOK, RowsSound, SessionsSound

-----------------------------------------------------------------------------
(* POST /reservations *)

LEMMA ReserveLockSound ==
  ASSUME IInv, NEW p \in Procs, NEW r \in Res, ReserveLock(p, r)
  PROVE  IInv'
<1>1. PICK u : u = Set(Idle, r, build_reservation)
  OBVIOUS
<1>2. build_reservation \in Row
  BY NoRowType DEF build_reservation, Row, OpenStatuses
<1>3. ListingOf[r] \in Listings
  BY ListingOfAssumption
<1>4. RowSound(build_reservation, pay[r]) /\ Grown(NoRow, build_reservation)
  BY DEF RowSound, Grown, build_reservation, NoRow, Confirmed, Settled
<1>5. u \in Session /\ ObjectsSound(u, db, pay) /\ u.object[r] = build_reservation
  <2>1. Idle.object[r] = NoRow
    BY DEF Idle, NoRows
  <2>2. u \in Session /\ ObjectsSound(u, db, pay)
    BY <1>1, <1>2, <1>4, <2>1, IdleSound, IdleType, SetSound
  <2>3. u.object = [NoRows EXCEPT ![r] = build_reservation]
    BY <1>1 DEF Set, Idle
  <2> QED BY <2>2, <2>3, IdleType
<1>6. PICK t : t = [u EXCEPT !.kind = "reserve", !.step = "insert", !.at = r,
                             !.todo = {r}, !.lobject[ListingOf[r]] = "reserved"]
  OBVIOUS
<1>7. /\ t \in Session /\ t.loaded = u.loaded /\ t.object = u.object
      /\ t.step = "insert" /\ t.at = r /\ t.kind = "reserve"
      /\ ObjectsSound(t, db, pay) /\ t.object[r] = build_reservation
  <2>1. /\ t \in Session /\ t.loaded = u.loaded /\ t.object = u.object
        /\ t.step = "insert" /\ t.at = r /\ t.kind = "reserve"
    BY <1>3, <1>5, <1>6 DEF Session, Kinds, Steps, ListingStatus
  <2> QED BY <1>5, <2>1 DEF ObjectsSound
<1>8. /\ Become(p, t) /\ db[r] = NoRow /\ lock[ListingOf[r]] = NoProc
      /\ lock' = [lock EXCEPT ![ListingOf[r]] = p]
      /\ UNCHANGED <<db, listing, pay, clock, seen, faults>>
  <2>1. t = [Idle EXCEPT !.kind = "reserve", !.step = "insert", !.at = r, !.todo = {r},
                         !.object[r] = build_reservation,
                         !.lobject[ListingOf[r]] = "reserved"]
    BY <1>1, <1>6 DEF Set, Idle
  <2> QED BY <2>1 DEF ReserveLock
<1>9. lock \in [Listings -> Procs \cup {NoProc}]
  BY DEF IInv, TypeOK
<1>10. TypeOK'
  BY <1>7, <1>8, <1>9, <1>3 DEF IInv, TypeOK, Become
<1>11. StepSound(p, t, db, pay)'
  BY <1>3, <1>7, <1>8, <1>9 DEF StepSound
<1>12. \A q \in Procs \ {p} : sess[q].step = "insert" =>
          lock'[ListingOf[sess[q].at]] = lock[ListingOf[sess[q].at]]
  <2> SUFFICES ASSUME NEW q \in Procs, sess[q].step = "insert"
               PROVE  lock'[ListingOf[sess[q].at]] = lock[ListingOf[sess[q].at]]
    OBVIOUS
  <2>1. sess[q].at \in Res /\ lock[ListingOf[sess[q].at]] = q
    BY FromIInv DEF StepSound
  <2>2. ListingOf[sess[q].at] # ListingOf[r]
    BY <1>8, <2>1, ProcAssumption DEF Procs
  <2> QED BY <1>8, <1>9, <2>2
<1>13. \A x \in Res : RowSound(db[x], pay[x])
  BY FromIInv
<1> QED BY <1>7, <1>8, <1>10, <1>11, <1>12, <1>13, GrownReflexive, SharedStep

LEMMA ReserveInsertSound ==
  ASSUME IInv, NEW p \in Procs, ReserveInsert(p)
  PROVE  IInv'
<1> DEFINE s == sess[p]
           r == s.at
           l == ListingOf[r]
<1>1. /\ s \in Session /\ ObjectsSound(s, db, pay) /\ r \in Res
      /\ db[r] = NoRow /\ s.object[r] = build_reservation /\ lock[l] = p
      /\ s.kind # "finalize"
  BY FromIInv DEF ReserveInsert, StepSound
<1>2. l \in Listings
  BY <1>1, ListingOfAssumption
<1>3. lock' = Unlocked(p) /\ lock \in [Listings -> Procs \cup {NoProc}]
  BY DEF ReserveInsert, IInv, TypeOK
<1>4. \A q \in Procs \ {p} : sess[q].step = "insert" =>
          /\ lock'[ListingOf[sess[q].at]] = lock[ListingOf[sess[q].at]]
          /\ sess[q].at # r
  <2> SUFFICES ASSUME NEW q \in Procs, q # p, sess[q].step = "insert"
               PROVE  /\ lock'[ListingOf[sess[q].at]] = lock[ListingOf[sess[q].at]]
                      /\ sess[q].at # r
    OBVIOUS
  <2>1. sess[q].at \in Res /\ lock[ListingOf[sess[q].at]] = q
    BY FromIInv DEF StepSound
  <2>2. ListingOf[sess[q].at] \in Listings
    BY <2>1, ListingOfAssumption
  <2> QED BY <1>1, <1>3, <2>1, <2>2 DEF Unlocked
<1>5. lock' \in [Listings -> Procs \cup {NoProc}]
  BY <1>3 DEF Unlocked
<1>6. \A x \in Res : db[x] \in Row /\ RowSound(db[x], pay[x])
  BY FromIInv
<1>7. CASE UniqueOpen([db EXCEPT ![r] = s.object[r]])
  <2>1. PICK t : t = [s EXCEPT !.step = "refresh", !.lloaded = s.lobject]
    OBVIOUS
  <2>2. /\ t \in Session /\ t.loaded = s.loaded /\ t.object = s.object
        /\ t.step = "refresh" /\ t.at = r /\ t.kind = s.kind
    BY <1>1, <2>1 DEF Session, Steps
  <2>3. /\ db' = [db EXCEPT ![r] = build_reservation]
        /\ listing' = [listing EXCEPT ![l] = s.lobject[l]]
        /\ Become(p, t) /\ UNCHANGED <<pay, clock, seen, faults>>
    BY <1>1, <1>7, <2>1 DEF ReserveInsert
  <2>4. build_reservation \in Row
    BY <1>1 DEF Session
  <2>5. TypeOK'
    <3>1. s.lobject[l] \in ListingStatus
      BY <1>1, <1>2 DEF Session
    <3> HIDE DEF s, r, l
    <3> QED BY <1>1, <1>2, <1>5, <2>2, <2>3, <2>4, <3>1 DEF IInv, TypeOK, Become
  <2>6. /\ RowSound(build_reservation, pay[r]) /\ Grown(NoRow, build_reservation)
        /\ NoRow.status # "deleted"
    BY DEF RowSound, Grown, build_reservation, NoRow, Confirmed, Settled
  <2>7. db \in [Res -> Row]
    BY DEF IInv, TypeOK
  <2>8. ASSUME NEW x \in Res
        PROVE  /\ RowSound(db'[x], pay'[x]) /\ Grown(db[x], db'[x])
               /\ db[x].status = "deleted" => db'[x].status = "deleted"
    <3>1. CASE x = r
      BY <1>1, <2>3, <2>6, <2>7, <3>1
    <3>2. CASE x # r
      BY <1>6, <2>3, <2>7, <3>2, GrownReflexive
    <3> QED BY <3>1, <3>2
  <2>9. ObjectsSound(t, db, pay)
    BY <1>1, <2>2 DEF ObjectsSound
  <2>10. ObjectsSound(t, db', pay')
    BY <2>3, <2>8, <2>9, ObjectsStable
  <2>11. StepSound(p, t, db, pay)'
    BY <1>1, <2>2 DEF StepSound
  <2>12. \A q \in Procs \ {p} : sess[q].step = "insert" =>
           /\ db'[sess[q].at] = db[sess[q].at]
           /\ lock'[ListingOf[sess[q].at]] = lock[ListingOf[sess[q].at]]
    BY <1>4, <2>3, <2>7
  <2> QED BY <2>3, <2>5, <2>8, <2>10, <2>11, <2>12, SharedStep
<1>8. CASE ~UniqueOpen([db EXCEPT ![r] = s.object[r]])
  <2>1. Become(p, Idle) /\ UNCHANGED <<db, listing, pay, clock, seen, faults>>
    BY <1>8 DEF ReserveInsert, Finish
  <2>2. TypeOK'
    BY <1>5, <2>1, IdleType DEF IInv, TypeOK, Become
  <2>3. StepSound(p, Idle, db, pay)'
    BY DEF StepSound, Idle
  <2> QED BY <1>4, <1>6, <2>1, <2>2, <2>3, IdleSound, GrownReflexive, SharedStep
<1> QED BY <1>7, <1>8

\* A freshly read row with one transition applied to it
LEMMA LoadedUpdate ==
  ASSUME IInv, NEW kind \in Kinds, NEW step \in Steps, NEW r \in Res, NEW row \in Row,
         RowSound(row, pay[r]), Grown(db[r], row)
  PROVE  /\ Set(Loaded(kind, step, {r}), r, row) \in Session
         /\ ObjectsSound(Set(Loaded(kind, step, {r}), r, row), db, pay)
         /\ Set(Loaded(kind, step, {r}), r, row).kind = kind
         /\ Set(Loaded(kind, step, {r}), r, row).step = step
<1>1. PICK s : s = Loaded(kind, step, {r})
  OBVIOUS
<1>2. /\ s \in Session /\ ObjectsSound(s, db, pay) /\ s.object[r] = db[r]
      /\ s.kind = kind /\ s.step = step
  BY <1>1, LoadedSound
<1> QED BY <1>1, <1>2, SetSound

LEMMA ReserveRefreshSound ==
  ASSUME IInv, NEW p \in Procs, ReserveRefresh(p)
  PROVE  IInv'
<1> DEFINE s == sess[p]
           r == s.at
<1>1. /\ s \in Session /\ ObjectsSound(s, db, pay) /\ r \in Res
      /\ s.step = "refresh" /\ s.kind # "finalize"
  BY FromIInv DEF ReserveRefresh, StepSound
<1>2. seen \subseteq Res \X Events
  BY DEF IInv, TypeOK
<1>3. CASE Exists(db[r])
  <2>1. PICK t : t = [s EXCEPT !.step = "hold", !.loaded[r] = db[r], !.object[r] = db[r]]
    OBVIOUS
  <2>2. db[r] \in Row /\ RowSound(db[r], pay[r])
    BY <1>1, FromIInv
  <2>3. /\ t \in Session /\ t.loaded = [s.loaded EXCEPT ![r] = db[r]]
        /\ t.object = [s.object EXCEPT ![r] = db[r]]
        /\ t.step = "hold" /\ t.at = r /\ t.kind = s.kind
    BY <1>1, <2>1, <2>2 DEF Session, Steps
  <2>4. s.loaded \in [Res -> Row] /\ s.object \in [Res -> Row]
    BY <1>1 DEF Session
  <2>5. ASSUME NEW x \in Res
        PROVE  /\ RowSound(t.object[x], pay[x])
               /\ Grown(t.loaded[x], t.object[x])
               /\ db[x].status = "deleted" \/ Grown(t.loaded[x], db[x])
    <3>1. CASE x = r
      BY <2>2, <2>3, <2>4, <3>1, GrownReflexive
    <3>2. CASE x # r
      BY <1>1, <2>3, <2>4, <3>2 DEF ObjectsSound
    <3> QED BY <3>1, <3>2
  <2>6. ObjectsSound(t, db, pay) /\ StepSound(p, t, db, pay)
    BY <1>1, <2>3, <2>5 DEF ObjectsSound, StepSound
  <2> QED BY <1>2, <1>3, <2>1, <2>3, <2>6, SessionStep DEF ReserveRefresh
<1>4. CASE ~Exists(db[r])
  <2>1. StepSound(p, Idle, db, pay)
    BY DEF StepSound, Idle
  <2> QED BY <1>2, <1>4, <2>1, IdleType, IdleSound, SessionStep DEF ReserveRefresh, Finish
<1> QED BY <1>3, <1>4

LEMMA RecoverLockSound ==
  ASSUME IInv, NEW p \in Procs, NEW r \in Res, RecoverLock(p, r)
  PROVE  IInv'
<1> DEFINE s == Loaded("recover", "hold", {r})
<1>1. s \in Session /\ ObjectsSound(s, db, pay) /\ s.step = "hold" /\ s.kind = "recover"
  BY LoadedSound DEF Kinds, Steps
<1>2. PICK t : t = [s EXCEPT !.at = r]
  OBVIOUS
<1>3. /\ t \in Session /\ t.loaded = s.loaded /\ t.object = s.object /\ t.at = r
      /\ t.step = "hold" /\ t.kind = "recover"
  <2> HIDE DEF s
  <2> QED BY <1>1, <1>2 DEF Session
<1>4. ObjectsSound(t, db, pay)
  BY <1>1, <1>3 DEF ObjectsSound
<1>5. /\ Become(p, t) /\ lock[ListingOf[r]] = NoProc
      /\ lock' = [lock EXCEPT ![ListingOf[r]] = p]
      /\ UNCHANGED <<db, listing, pay, clock, seen, faults>>
  BY <1>2 DEF RecoverLock
<1>6. lock \in [Listings -> Procs \cup {NoProc}] /\ ListingOf[r] \in Listings
  BY ListingOfAssumption DEF IInv, TypeOK
<1>7. TypeOK'
  BY <1>3, <1>5, <1>6 DEF IInv, TypeOK, Become
<1>8. StepSound(p, t, db, pay)'
  BY <1>3 DEF StepSound
<1>9. \A q \in Procs \ {p} : sess[q].step = "insert" =>
          lock'[ListingOf[sess[q].at]] = lock[ListingOf[sess[q].at]]
  <2> SUFFICES ASSUME NEW q \in Procs, sess[q].step = "insert"
               PROVE  lock'[ListingOf[sess[q].at]] = lock[ListingOf[sess[q].at]]
    OBVIOUS
  <2>1. sess[q].at \in Res /\ lock[ListingOf[sess[q].at]] = q
    BY FromIInv DEF StepSound
  <2>2. ListingOf[sess[q].at] # ListingOf[r]
    BY <1>5, <2>1, ProcAssumption DEF Procs
  <2> QED BY <1>5, <1>6, <2>2
<1>10. \A x \in Res : RowSound(db[x], pay[x])
  BY FromIInv
<1> QED BY <1>4, <1>5, <1>7, <1>8, <1>9, <1>10, GrownReflexive, SharedStep

\* Giving up its locks, a process takes none away from another one.
LEMMA UnlockedSound ==
  ASSUME IInv, NEW p \in Procs
  PROVE  /\ Unlocked(p) \in [Listings -> Procs \cup {NoProc}]
         /\ \A q \in Procs \ {p} : sess[q].step = "insert" =>
              Unlocked(p)[ListingOf[sess[q].at]] = lock[ListingOf[sess[q].at]]
<1>1. lock \in [Listings -> Procs \cup {NoProc}]
  BY DEF IInv, TypeOK
<1>2. ASSUME NEW q \in Procs, q # p, sess[q].step = "insert"
      PROVE  Unlocked(p)[ListingOf[sess[q].at]] = lock[ListingOf[sess[q].at]]
  <2>1. sess[q].at \in Res /\ lock[ListingOf[sess[q].at]] = q
    BY <1>2, FromIInv DEF StepSound
  <2>2. ListingOf[sess[q].at] \in Listings
    BY <2>1, ListingOfAssumption
  <2> QED BY <1>1, <1>2, <2>1, <2>2 DEF Unlocked
<1> QED BY <1>1, <1>2 DEF Unlocked

\* A hold that was placed stays placed whatever create_hold does.
LEMMA PaymentMadeSound ==
  ASSUME IInv, NEW r \in Res
  PROVE  /\ PaymentMade(r) \in [Res -> Payments]
         /\ \A x \in Res : pay[x] \in Placed => PaymentMade(r)[x] \in Placed
BY DEF IInv, TypeOK, PaymentMade, Placed, Payments

LEMMA CreateHoldSound ==
  ASSUME IInv, NEW p \in Procs, CreateHold(p)
  PROVE  IInv'
<1>1. PICK s : s = sess[p]
  OBVIOUS
<1>2. PICK r : r = s.at
  OBVIOUS
<1>3. s \in Session /\ ObjectsSound(s, db, pay) /\ r \in Res /\ s.kind # "finalize"
  BY <1>1, <1>2, FromIInv DEF CreateHold, StepSound
<1>4. PICK row : row = [s.object[r] EXCEPT !.paid_by = TRUE]
  OBVIOUS
<1>5. row \in Row /\ RowSound(row, pay[r]) /\ Grown(s.object[r], row)
  <2>1. s.object[r] \in Row
    BY <1>3 DEF Session
  <2> QED BY <1>3, <1>4, <2>1 DEF ObjectsSound, RowSound, Grown, Row
<1>6. PICK u : u = Set(s, r, row)
  OBVIOUS
<1>7. u \in Session /\ ObjectsSound(u, db, pay) /\ u.kind = s.kind
  BY <1>3, <1>5, <1>6, SetSound
<1>8. PICK t : t = [u EXCEPT !.step = "commit"]
  OBVIOUS
<1>9. /\ t \in Session /\ t.loaded = u.loaded /\ t.object = u.object
      /\ t.step = "commit" /\ t.kind = u.kind
  BY <1>7, <1>8 DEF Session, Steps
<1>10. ObjectsSound(t, db, pay)
  BY <1>7, <1>9 DEF ObjectsSound
<1>11. Become(p, t) /\ pay' = PaymentMade(r)
      /\ UNCHANGED <<db, listing, lock, clock, seen, faults>>
  BY <1>1, <1>2, <1>4, <1>6, <1>8 DEF CreateHold
<1>12. TypeOK'
  BY <1>3, <1>9, <1>11, PaymentMadeSound DEF IInv, TypeOK, Become
<1>13. \A x \in Res : /\ pay[x] \in Placed => pay'[x] \in Placed
                      /\ RowSound(db[x], pay'[x])
  BY <1>3, <1>11, PaymentMadeSound, FromIInv DEF RowSound
<1>14. ObjectsSound(t, db', pay')
  BY <1>10, <1>11, <1>13, GrownReflexive, ObjectsStable
<1>15. StepSound(p, t, db, pay)'
  BY <1>3, <1>7, <1>9 DEF StepSound
<1> QED BY <1>11, <1>12, <1>13, <1>14, <1>15, GrownReflexive, SharedStep

LEMMA CreateHoldFailsSound ==
  ASSUME IInv, NEW p \in Procs, CreateHoldFails(p)
  PROVE  IInv'
<1> DEFINE s == sess[p]
           r == s.at
<1>1. s \in Session /\ ObjectsSound(s, db, pay) /\ r \in Res /\ s.kind # "finalize"
  BY FromIInv DEF CreateHoldFails, StepSound
<1>2. PICK t : t = IF s.kind = "recover" \/ s.object[r].status \in _TERMINAL
                   THEN Idle ELSE CancelOrRelease(s, r)
  OBVIOUS
<1>3. t \in Session /\ ObjectsSound(t, db, pay) /\ StepSound(p, t, db, pay)
      /\ t.step # "insert" /\ t.step # "load"
  <2>1. StepSound(p, Idle, db, pay) /\ Idle.step # "insert" /\ Idle.step # "load"
    BY DEF StepSound, Idle
  <2> HIDE DEF s, r
  <2> QED BY <1>1, <1>2, <2>1, IdleType, IdleSound, CancelOrReleaseSound
<1>4. Become(p, t) /\ lock' = Unlocked(p) /\ pay' \in {pay, PaymentMade(r)}
      /\ faults < MaxFaults /\ faults' = faults + 1
      /\ UNCHANGED <<db, listing, clock, seen>>
  BY <1>2 DEF CreateHoldFails, Finish, Fault
<1>5. faults' \in 0..MaxFaults
  BY <1>4, FaultAssumption DEF IInv, TypeOK
<1>6. TypeOK'
  BY <1>1, <1>3, <1>4, <1>5, PaymentMadeSound, UnlockedSound DEF IInv, TypeOK, Become
<1>7. \A x \in Res : /\ pay[x] \in Placed => pay'[x] \in Placed
                     /\ RowSound(db[x], pay'[x])
  BY <1>1, <1>4, PaymentMadeSound, FromIInv DEF RowSound
<1>8. ObjectsSound(t, db', pay')
  BY <1>3, <1>4, <1>7, GrownReflexive, ObjectsStable
<1>9. StepSound(p, t, db, pay)'
  BY <1>3 DEF StepSound
<1> QED BY <1>4, <1>6, <1>7, <1>8, <1>9, UnlockedSound, GrownReflexive, SharedStep

-----------------------------------------------------------------------------
(* The webhook, the return page, cancellations and scheduled expiry *)

LEMMA IdleStepSound == ASSUME NEW p PROVE StepSound(p, Idle, db, pay)
BY DEF StepSound, Idle

\* A session about to load the reservation of a hold it saw placed
LEMMA AwaitLoad ==
  ASSUME IInv, NEW p \in Procs, NEW r \in Res, pay[r] \in Placed, NEW t,
         t = [Idle EXCEPT !.kind = "confirm", !.step = "load", !.at = r]
  PROVE  t \in Session /\ ObjectsSound(t, db, pay) /\ StepSound(p, t, db, pay)
<1>1. t.loaded = Idle.loaded /\ t.object = Idle.object
      /\ t.step = "load" /\ t.at = r /\ t.kind = "confirm"
  BY DEF Idle
<1>2. t \in Session
  BY IdleType DEF Session, Kinds, Steps
<1>3. ObjectsSound(t, db, pay)
  BY <1>1, IdleSound DEF ObjectsSound
<1> QED BY <1>1, <1>2, <1>3 DEF StepSound

LEMMA ConfirmEventSound ==
  ASSUME IInv, NEW p \in Procs, NEW r \in Res, ConfirmEvent(p, r)
  PROVE  IInv'
<1>1. PICK t : t = IF pay[r] = "held"
                   THEN [Idle EXCEPT !.kind = "confirm", !.step = "load", !.at = r]
                   ELSE Idle
  OBVIOUS
<1>2. t \in Session /\ ObjectsSound(t, db, pay) /\ StepSound(p, t, db, pay)
  BY <1>1, AwaitLoad, IdleType, IdleSound, IdleStepSound DEF Placed
<1>3. seen' \subseteq Res \X Events
  BY DEF ConfirmEvent, IInv, TypeOK, Events
<1> QED BY <1>1, <1>2, <1>3, SessionStep DEF ConfirmEvent

LEMMA ReturnPageSound ==
  ASSUME IInv, NEW p \in Procs, NEW r \in Res, ReturnPage(p, r)
  PROVE  IInv'
<1>1. PICK t : t = [Idle EXCEPT !.kind = "confirm", !.step = "load", !.at = r]
  OBVIOUS
<1>2. t \in Session /\ ObjectsSound(t, db, pay) /\ StepSound(p, t, db, pay)
  BY <1>1, AwaitLoad DEF Placed, ReturnPage
<1> QED BY <1>1, <1>2, SessionStep DEF ReturnPage, IInv, TypeOK

LEMMA ConfirmLoadSound ==
  ASSUME IInv, NEW p \in Procs, ConfirmLoad(p)
  PROVE  IInv'
<1>1. PICK r : r = sess[p].at
  OBVIOUS
<1>2. r \in Res /\ pay[r] \in Placed
  BY <1>1, FromIInv DEF ConfirmLoad, StepSound
<1>3. seen \subseteq Res \X Events
  BY DEF IInv, TypeOK
<1>4. CASE db[r].paid_by /\ CanConfirm(db[r])
  <2>1. PICK row : row = confirm_hold(db[r])
    OBVIOUS
  <2>2. db[r] \in Row /\ RowSound(db[r], pay[r])
    BY <1>2, FromIInv
  <2>3. row \in Row
    BY <2>1, <2>2 DEF confirm_hold, Row, OpenStatuses
  <2>4. RowSound(row, pay[r]) /\ Grown(db[r], row)
    BY <1>2, <1>4, <2>1, <2>2 DEF RowSound, Grown, confirm_hold, Row, Settled
  <2>5. PICK t : t = Set(Loaded("confirm", "commit", {r}), r, row)
    OBVIOUS
  <2>6. "confirm" \in Kinds /\ "commit" \in Steps
    BY DEF Kinds, Steps
  <2>7. t \in Session /\ ObjectsSound(t, db, pay) /\ t.step = "commit" /\ t.kind = "confirm"
    BY <1>2, <2>3, <2>4, <2>5, <2>6, LoadedUpdate
  <2>8. StepSound(p, t, db, pay)
    BY <2>7 DEF StepSound
  <2>9. Become(p, t) /\ UNCHANGED <<db, listing, lock, pay, clock, seen, faults>>
    BY <1>1, <1>4, <2>1, <2>5 DEF ConfirmLoad
  <2> QED BY <1>3, <2>7, <2>8, <2>9, SessionStep
<1>5. CASE ~(db[r].paid_by /\ CanConfirm(db[r]))
  BY <1>1, <1>3, <1>5, IdleType, IdleSound, IdleStepSound, SessionStep DEF ConfirmLoad, Finish
<1> QED BY <1>4, <1>5

LEMMA ReleasedEventSound ==
  ASSUME IInv, NEW p \in Procs, NEW r \in Res, ReleasedEvent(p, r)
  PROVE  IInv'
<1>1. seen' \subseteq Res \X Events
  BY DEF ReleasedEvent, IInv, TypeOK, Events
<1>2. PICK row : row = [db[r] EXCEPT !.released = TRUE]
  OBVIOUS
<1>3. row \in Row /\ RowSound(row, pay[r]) /\ Grown(db[r], row)
  BY <1>2, FromIInv DEF Row, RowSound, Grown
<1>4. "webhook_released" \in Kinds /\ "visit" \in Steps
  BY DEF Kinds, Steps
<1>5. PICK t : t = IF db[r].paid_by /\ db[r].status \in OpenStatuses
                   THEN Set(Loaded("webhook_released", "visit", {r}), r, row) ELSE Idle
  OBVIOUS
<1>6. t \in Session /\ ObjectsSound(t, db, pay) /\ StepSound(p, t, db, pay)
  <2>1. CASE t = Idle
    BY <2>1, IdleType, IdleSound, IdleStepSound
  <2>2. CASE t = Set(Loaded("webhook_released", "visit", {r}), r, row)
    <3>1. t \in Session /\ ObjectsSound(t, db, pay)
          /\ t.step = "visit" /\ t.kind = "webhook_released"
      BY <1>3, <1>4, <2>2, LoadedUpdate
    <3> QED BY <3>1 DEF StepSound
  <2> QED BY <1>5, <2>1, <2>2
<1>7. Become(p, t) /\ UNCHANGED <<db, listing, lock, pay, clock, faults>>
  BY <1>2, <1>5 DEF ReleasedEvent
<1> QED BY <1>1, <1>6, <1>7, SessionStep

LEMMA CancelLoadSound ==
  ASSUME IInv, NEW p \in Procs, NEW r \in Res, NEW delay \in BOOLEAN,
         CancelLoad(p, r, delay)
  PROVE  IInv'
<1>1. PICK row : row = [db[r] EXCEPT !.due = @ \/ delay]
  OBVIOUS
<1>2. row \in Row /\ RowSound(row, pay[r]) /\ Grown(db[r], row)
  BY <1>1, FromIInv DEF Row, RowSound, Grown
<1>3. "cancel" \in Kinds /\ "visit" \in Steps
  BY DEF Kinds, Steps
<1>4. PICK u : u = Set(Loaded("cancel", "visit", {r}), r, row)
  OBVIOUS
<1>5. u \in Session /\ ObjectsSound(u, db, pay) /\ u.step = "visit" /\ u.kind = "cancel"
  BY <1>2, <1>3, <1>4, LoadedUpdate
<1>6. PICK t : t = [u EXCEPT !.delay = delay]
  OBVIOUS
<1>7. t \in Session /\ t.loaded = u.loaded /\ t.object = u.object
      /\ t.step = "visit" /\ t.kind = "cancel"
  BY <1>5, <1>6 DEF Session
<1>8. ObjectsSound(t, db, pay) /\ StepSound(p, t, db, pay)
  BY <1>5, <1>7 DEF ObjectsSound, StepSound
<1>9. Become(p, t) /\ UNCHANGED <<db, listing, lock, pay, clock, seen, faults>>
  BY <1>1, <1>4, <1>6 DEF CancelLoad
<1> QED BY <1>7, <1>8, <1>9, SessionStep DEF IInv, TypeOK

\* A handler that reads rows and goes on to visit them
LEMMA VisitStep ==
  ASSUME IInv, NEW p \in Procs, NEW kind \in Kinds, NEW R \in SUBSET Res,
         kind = "finalize" => \A r \in R : db[r].status = "settling",
         Become(p, Loaded(kind, "visit", R)),
         UNCHANGED <<db, listing, lock, pay, clock, seen, faults>>
  PROVE  IInv'
<1>1. PICK t : t = Loaded(kind, "visit", R)
  OBVIOUS
<1>2. /\ t \in Session /\ ObjectsSound(t, db, pay) /\ t.step = "visit" /\ t.kind = kind
      /\ t.todo = R /\ \A r \in R : t.object[r] = db[r]
  BY <1>1, LoadedSound DEF Steps
<1>3. StepSound(p, t, db, pay)
  BY <1>2 DEF StepSound
<1> QED BY <1>1, <1>2, <1>3, SessionStep DEF IInv, TypeOK

LEMMA PlainLoadsSound ==
  ASSUME IInv, NEW p \in Procs,
         (\E r \in Res : DeclineLoad(p, r)) \/ ExpireLoad(p) \/ FinalizeLoad(p)
  PROVE  IInv'
<1>1. ASSUME NEW r \in Res, DeclineLoad(p, r) PROVE IInv'
  BY <1>1, VisitStep DEF DeclineLoad, Kinds
<1>2. CASE ExpireLoad(p)
  BY <1>2, VisitStep DEF ExpireLoad, Kinds
<1>3. CASE FinalizeLoad(p)
  <2> DEFINE R == {r \in Res : db[r].status = "settling" /\ CorrectionOver(r)}
  <2>1. Become(p, Loaded("finalize", "visit", R))
        /\ UNCHANGED <<db, listing, lock, pay, clock, seen, faults>>
    BY <1>3 DEF FinalizeLoad
  <2>2. R \in SUBSET Res /\ \A r \in R : db[r].status = "settling"
    OBVIOUS
  <2> HIDE DEF R
  <2> QED BY <2>1, <2>2, VisitStep DEF Kinds
<1> QED BY <1>1, <1>2, <1>3

LEMMA VisitListingSound ==
  ASSUME IInv, NEW p \in Procs, NEW r \in Res, VisitListing(p, r)
  PROVE  IInv'
<1> DEFINE s == sess[p]
           l == ListingOf[r]
<1>1. s \in Session /\ ObjectsSound(s, db, pay) /\ s.kind # "finalize"
  BY FromIInv DEF VisitListing
<1>2. PICK u : u = [s EXCEPT !.lloaded[l] = listing[l], !.lobject[l] = listing[l]]
  OBVIOUS
<1>3. listing[l] \in ListingStatus /\ l \in Listings
  BY ListingOfAssumption DEF IInv, TypeOK
<1>4. u \in Session /\ u.loaded = s.loaded /\ u.object = s.object /\ u.kind = s.kind
  BY <1>1, <1>2, <1>3 DEF Session
<1>5. ObjectsSound(u, db, pay)
  BY <1>1, <1>4 DEF ObjectsSound
<1>6. PICK t : t = CancelOrRelease(u, r)
  OBVIOUS
<1>7. t \in Session /\ ObjectsSound(t, db, pay) /\ StepSound(p, t, db, pay)
  BY <1>1, <1>4, <1>5, <1>6, CancelOrReleaseSound
<1> QED BY <1>2, <1>6, <1>7, SessionStep DEF VisitListing, IInv, TypeOK

-----------------------------------------------------------------------------
(* Outcomes, finalization and releases *)

LEMMA OutcomeLoadSound ==
  ASSUME IInv, NEW p \in Procs, NEW r \in Res, NEW party \in Parties,
         NEW result \in Outcomes, OutcomeLoad(p, r, party, result)
  PROVE  IInv'
<1>1. db[r] \in Row /\ RowSound(db[r], pay[r])
  BY FromIInv
<1>2. PICK marked : marked = FirstMark(db[r], result)
  OBVIOUS
<1>3. PICK corrected : corrected = Correct(db[r], party, result)
  OBVIOUS
<1>4. /\ marked \in Row /\ corrected \in Row
      /\ RowSound(corrected, pay[r]) /\ Grown(db[r], corrected)
      /\ db[r].status = "active" => RowSound(marked, pay[r]) /\ Grown(db[r], marked)
  <2>1. "none" \in CancelReasons
    BY DEF CancelReasons, None
  <2> QED BY <1>1, <1>2, <1>3, <2>1, TransitionType, TransitionSound DEF Confirmed
<1>5. "outcome" \in Kinds /\ "commit" \in Steps /\ "release" \in Steps
  BY DEF Kinds, Steps
<1>6. UNCHANGED <<db, listing, lock, pay, clock, seen, faults>> /\ seen \subseteq Res \X Events
  BY DEF OutcomeLoad, IInv, TypeOK
<1>7. ASSUME NEW row \in Row, RowSound(row, pay[r]), Grown(db[r], row),
             NEW t, t = Set(Loaded("outcome", "commit", {r}), r, row)
      PROVE  /\ t \in Session /\ ObjectsSound(t, db, pay) /\ t.step = "commit"
             /\ t.kind = "outcome" /\ StepSound(p, t, db, pay)
  <2>1. /\ t \in Session /\ ObjectsSound(t, db, pay) /\ t.step = "commit"
        /\ t.kind = "outcome"
    BY <1>5, <1>7, LoadedUpdate
  <2> QED BY <2>1 DEF StepSound
<1>8. CASE /\ db[r].status = "active"
           /\ Become(p, IF NeedsRelease(marked, DueOver(r))
                        THEN [Set(Loaded("outcome", "commit", {r}), r, marked) EXCEPT
                                !.step = "release", !.at = r]
                        ELSE Set(Loaded("outcome", "commit", {r}), r, marked))
  <2>1. PICK u : u = Set(Loaded("outcome", "commit", {r}), r, marked)
    OBVIOUS
  <2>2. /\ u \in Session /\ ObjectsSound(u, db, pay) /\ u.step = "commit"
        /\ u.kind = "outcome" /\ StepSound(p, u, db, pay)
    BY <1>4, <1>7, <1>8, <2>1
  <2>3. PICK t : t = [u EXCEPT !.step = "release", !.at = r]
    OBVIOUS
  <2>4. /\ t \in Session /\ t.loaded = u.loaded /\ t.object = u.object
        /\ t.step = "release" /\ t.at = r /\ t.kind = "outcome"
    BY <1>5, <2>2, <2>3 DEF Session
  <2>5. ObjectsSound(t, db, pay) /\ StepSound(p, t, db, pay)
    BY <2>2, <2>4 DEF ObjectsSound, StepSound
  <2>6. Become(p, t) \/ Become(p, u)
    BY <1>8, <2>1, <2>3
  <2> QED BY <1>6, <2>2, <2>4, <2>5, <2>6, SessionStep
<1>9. CASE Become(p, Set(Loaded("outcome", "commit", {r}), r, corrected))
  BY <1>4, <1>6, <1>7, <1>9, SessionStep
<1> QED BY <1>2, <1>3, <1>8, <1>9 DEF OutcomeLoad

LEMMA FinalizeVisitSound ==
  ASSUME IInv, NEW p \in Procs, NEW r \in Res, FinalizeVisit(p, r)
  PROVE  IInv'
<1>1. PICK s : s = sess[p]
  OBVIOUS
<1>2. /\ s \in Session /\ ObjectsSound(s, db, pay) /\ s.kind = "finalize" /\ r \in s.todo
      /\ \A x \in s.todo : s.object[x].status = "settling"
  BY <1>1, FromIInv DEF FinalizeVisit, StepSound
<1>3. s.object[r] \in Row /\ ListingOf[r] \in Listings /\ s.todo \subseteq Res
  BY <1>2, ListingOfAssumption DEF Session
<1>4. PICK row : row = finalize(s.object[r])
  OBVIOUS
<1>5. row \in Row /\ RowSound(row, pay[r]) /\ Grown(s.object[r], row)
  <2>1. RowSound(s.object[r], pay[r]) /\ s.object[r].status = "settling"
    BY <1>2 DEF ObjectsSound
  <2>2. row \in Row
    BY <1>3, <1>4 DEF finalize, Row, _TERMINAL
  <2>3. RowSound(row, pay[r]) /\ Grown(s.object[r], row)
    BY <1>3, <1>4, <2>1 DEF RowSound, Grown, finalize, Row, Settled, Confirmed
  <2> QED BY <2>2, <2>3
<1>6. PICK u : u = Proceed(s, r)
  OBVIOUS
<1>7. /\ u \in Session /\ u.loaded = s.loaded /\ u.object = s.object
      /\ u.step \in {"commit", "visit"} /\ u.kind = "finalize" /\ u.todo = s.todo \ {r}
  BY <1>2, <1>6, ProceedSound
<1>8. ObjectsSound(u, db, pay)
  BY <1>2, <1>7 DEF ObjectsSound
<1>9. PICK v : v = Set(u, r, row)
  OBVIOUS
<1>10. /\ v \in Session /\ ObjectsSound(v, db, pay) /\ v.kind = "finalize"
       /\ v.step = u.step /\ v.todo = u.todo
       /\ \A x \in Res \ {r} : v.object[x] = u.object[x]
  BY <1>5, <1>7, <1>8, <1>9, SetSound
<1>11. PICK t : t = [v EXCEPT !.lloaded[ListingOf[r]] = listing[ListingOf[r]],
                              !.lobject[ListingOf[r]] = ListingAfterFinalize(s.object[r])]
  OBVIOUS
<1>12. /\ t \in Session /\ t.loaded = v.loaded /\ t.object = v.object
       /\ t.step = v.step /\ t.todo = v.todo /\ t.kind = "finalize"
  <2>1. /\ listing[ListingOf[r]] \in ListingStatus
        /\ ListingAfterFinalize(s.object[r]) \in ListingStatus
    BY <1>3 DEF IInv, TypeOK, ListingAfterFinalize, ListingStatus
  <2> QED BY <1>3, <1>10, <1>11, <2>1 DEF Session
<1>13. ObjectsSound(t, db, pay)
  BY <1>10, <1>12 DEF ObjectsSound
<1>14. StepSound(p, t, db, pay)
  BY <1>2, <1>3, <1>7, <1>10, <1>12 DEF StepSound
<1>15. Become(p, t) /\ UNCHANGED <<db, listing, lock, pay, clock, seen, faults>>
  BY <1>1, <1>4, <1>6, <1>9, <1>11 DEF FinalizeVisit
<1> QED BY <1>12, <1>13, <1>14, <1>15, SessionStep DEF IInv, TypeOK

\* cancel_hold ends no hold that was not placed, and makes none unplaced.
LEMMA CancelHoldSound ==
  ASSUME IInv, NEW r \in Res, NEW reply, CancelHold(r, reply)
  PROVE  /\ pay' \in [Res -> Payments] /\ faults' \in 0..MaxFaults
         /\ \A x \in Res : pay[x] \in Placed => pay'[x] \in Placed
<1>1. pay \in [Res -> Payments] /\ faults \in 0..MaxFaults
  BY DEF IInv, TypeOK
<1>2. pay' \in {pay, [pay EXCEPT ![r] = "released"],
                [pay EXCEPT ![r] = IF @ = "held" THEN "released" ELSE @]}
      /\ (UNCHANGED faults \/ Fault)
  BY DEF CancelHold
<1>3. faults' \in 0..MaxFaults
  BY <1>1, <1>2, FaultAssumption DEF Fault
<1>4. pay' \in [Res -> Payments]
  BY <1>1, <1>2 DEF Payments
<1>5. ASSUME NEW x \in Res, pay[x] \in Placed PROVE pay'[x] \in Placed
  BY <1>1, <1>2, <1>5 DEF Placed
<1> QED BY <1>3, <1>4, <1>5

\* A session that goes on after a reply of the provider
LEMMA ReleaseStep ==
  ASSUME IInv, NEW p \in Procs, NEW r \in Res, NEW reply, CancelHold(r, reply),
         NEW t \in Session, ObjectsSound(t, db, pay), StepSound(p, t, db, pay),
         t.step \in {"visit", "commit"}, Become(p, t),
         UNCHANGED <<db, listing, lock, clock, seen>>
  PROVE  IInv'
<1>1. /\ pay' \in [Res -> Payments] /\ faults' \in 0..MaxFaults
      /\ \A x \in Res : pay[x] \in Placed => pay'[x] \in Placed
  BY CancelHoldSound
<1>2. TypeOK'
  BY <1>1 DEF IInv, TypeOK, Become
<1>3. \A x \in Res : RowSound(db[x], pay'[x])
  BY <1>1, FromIInv DEF RowSound
<1>4. ObjectsSound(t, db', pay')
  BY <1>1, GrownReflexive, ObjectsStable
<1>5. StepSound(p, t, db, pay)'
  BY DEF StepSound
<1> QED BY <1>1, <1>2, <1>3, <1>4, <1>5, GrownReflexive, SharedStep

LEMMA AfterReleaseSound ==
  ASSUME NEW row \in Row, NEW payment, RowSound(row, payment), NEW reply
  PROVE  /\ AfterRelease(row, reply) \in Row
         /\ RowSound(AfterRelease(row, reply), payment)
         /\ Grown(row, AfterRelease(row, reply))
<1>1. AfterRelease(row, reply) \in Row
  BY DEF AfterRelease, Row
<1>2. RowSound(AfterRelease(row, reply), payment) /\ Grown(row, AfterRelease(row, reply))
  BY DEF RowSound, Grown, AfterRelease, Row
<1> QED BY <1>1, <1>2

LEMMA ReleaseSound ==
  ASSUME IInv, NEW p \in Procs, NEW reply, Release(p, reply)
  PROVE  IInv'
<1>1. PICK s : s = sess[p]
  OBVIOUS
<1>2. PICK r : r = s.at
  OBVIOUS
<1>3. s \in Session /\ ObjectsSound(s, db, pay) /\ r \in Res /\ s.kind # "finalize"
  BY <1>1, <1>2, FromIInv DEF Release, StepSound
<1>4. PICK row : row = AfterRelease(s.object[r], reply)
  OBVIOUS
<1>5. row \in Row /\ RowSound(row, pay[r]) /\ Grown(s.object[r], row)
  <2>1. s.object[r] \in Row /\ RowSound(s.object[r], pay[r])
    BY <1>3 DEF Session, ObjectsSound
  <2> QED BY <1>4, <2>1, AfterReleaseSound
<1>6. PICK u : u = Set(s, r, row)
  OBVIOUS
<1>7. u \in Session /\ ObjectsSound(u, db, pay) /\ u.kind = s.kind
  BY <1>3, <1>5, <1>6, SetSound
<1>8. PICK t : t = IF s.kind = "outcome" THEN Proceed(u, r) ELSE Cancelled(u, r)
  OBVIOUS
<1>9. /\ t \in Session /\ ObjectsSound(t, db, pay) /\ StepSound(p, t, db, pay)
      /\ t.step \in {"visit", "commit"}
  <2>1. CASE t = Proceed(u, r)
    <3>1. /\ t \in Session /\ t.loaded = u.loaded /\ t.object = u.object
          /\ t.step \in {"commit", "visit"} /\ t.kind = u.kind
      BY <1>3, <1>7, <2>1, ProceedSound
    <3> QED BY <1>3, <1>7, <3>1 DEF ObjectsSound, StepSound
  <2>2. CASE t = Cancelled(u, r)
    BY <1>3, <1>7, <2>2, CancelledSound
  <2> QED BY <1>8, <2>1, <2>2
<1>10. /\ Become(p, t) /\ CancelHold(r, reply)
       /\ UNCHANGED <<db, listing, lock, clock, seen>>
  BY <1>1, <1>2, <1>4, <1>6, <1>8 DEF Release
<1> QED BY <1>3, <1>9, <1>10, ReleaseStep

LEMMA ReconcileLoadSound ==
  ASSUME IInv, NEW p \in Procs, ReconcileLoad(p)
  PROVE  IInv'
<1>1. PICK R : R = {r \in Res : Unreleased(r)}
  OBVIOUS
<1>2. PICK written : written = {r \in R : clock[r].age = "grace"}
  OBVIOUS
<1>3. R \in SUBSET Res /\ written \subseteq R
  BY <1>1, <1>2
<1>4. PICK s : s = Loaded("reconcile", "visit", R)
  OBVIOUS
<1>5. "reconcile" \in Kinds /\ "visit" \in Steps /\ "commit" \in Steps
  BY DEF Kinds, Steps
<1>6. s \in Session /\ ObjectsSound(s, db, pay) /\ s.step = "visit" /\ s.kind = "reconcile"
  BY <1>3, <1>4, <1>5, LoadedSound
<1>7. PICK objects : objects = [r \in Res |-> IF r \in written
                                              THEN [s.object[r] EXCEPT !.released = TRUE]
                                              ELSE s.object[r]]
  OBVIOUS
<1>8. ASSUME NEW x \in Res
      PROVE  objects[x] \in Row /\ RowSound(objects[x], pay[x]) /\ Grown(s.loaded[x], objects[x])
  <2>1. s.object[x] \in Row /\ RowSound(s.object[x], pay[x]) /\ Grown(s.loaded[x], s.object[x])
    BY <1>6 DEF Session, ObjectsSound
  <2>2. PICK row : row = [s.object[x] EXCEPT !.released = TRUE]
    OBVIOUS
  <2>3. row \in Row /\ RowSound(row, pay[x]) /\ Grown(s.object[x], row)
    BY <2>1, <2>2 DEF Row, RowSound, Grown
  <2>4. objects[x] \in {row, s.object[x]}
    BY <1>7, <2>2
  <2> QED BY <2>1, <2>3, <2>4, GrownTransitive
<1>9. PICK t : t = [s EXCEPT !.todo = R \ written,
                             !.step = IF R = written THEN "commit" ELSE "visit",
                             !.object = objects]
  OBVIOUS
<1>10. objects \in [Res -> Row]
  BY <1>7, <1>8
<1>11. /\ t \in Session /\ t.loaded = s.loaded /\ t.object = objects
       /\ t.step \in {"commit", "visit"} /\ t.kind = "reconcile"
  BY <1>3, <1>5, <1>6, <1>9, <1>10 DEF Session
<1>12. ObjectsSound(t, db, pay) /\ StepSound(p, t, db, pay)
  <2>1. ObjectsSound(t, db, pay)
    BY <1>6, <1>8, <1>11 DEF ObjectsSound
  <2>2. StepSound(p, t, db, pay)
    BY <1>11 DEF StepSound
  <2> QED BY <2>1, <2>2
<1>13. Become(p, t) /\ UNCHANGED <<db, listing, lock, pay, clock, seen, faults>>
  BY <1>1, <1>2, <1>4, <1>7, <1>9 DEF ReconcileLoad
<1> QED BY <1>11, <1>12, <1>13, SessionStep DEF IInv, TypeOK

LEMMA ReconcileReleaseSound ==
  ASSUME IInv, NEW p \in Procs, NEW r \in Res, NEW reply, ReconcileRelease(p, r, reply)
  PROVE  IInv'
<1>1. PICK s : s = sess[p]
  OBVIOUS
<1>2. s \in Session /\ ObjectsSound(s, db, pay) /\ s.kind = "reconcile"
  BY <1>1, FromIInv DEF ReconcileRelease
<1>3. PICK row : row = [s.object[r] EXCEPT !.released = @ \/ reply # "transient"]
  OBVIOUS
<1>4. row \in Row /\ RowSound(row, pay[r]) /\ Grown(s.object[r], row)
  <2>1. s.object[r] \in Row /\ RowSound(s.object[r], pay[r])
    BY <1>2 DEF Session, ObjectsSound
  <2> QED BY <1>3, <2>1 DEF Row, RowSound, Grown
<1>5. PICK u : u = Proceed(s, r)
  OBVIOUS
<1>6. /\ u \in Session /\ u.loaded = s.loaded /\ u.object = s.object
      /\ u.step \in {"commit", "visit"} /\ u.kind = "reconcile"
  BY <1>2, <1>5, ProceedSound
<1>7. ObjectsSound(u, db, pay)
  BY <1>2, <1>6 DEF ObjectsSound
<1>8. PICK t : t = Set(u, r, row)
  OBVIOUS
<1>9. /\ t \in Session /\ ObjectsSound(t, db, pay)
      /\ t.step \in {"commit", "visit"} /\ t.kind = "reconcile"
  BY <1>4, <1>6, <1>7, <1>8, SetSound
<1>10. StepSound(p, t, db, pay)
  BY <1>9 DEF StepSound
<1>11. /\ Become(p, t) /\ CancelHold(r, reply)
       /\ UNCHANGED <<db, listing, lock, clock, seen>>
  BY <1>1, <1>3, <1>5, <1>8 DEF ReconcileRelease
<1> QED BY <1>9, <1>10, <1>11, ReleaseStep

-----------------------------------------------------------------------------
(* The end of a session *)

\* A row being inserted does not exist yet for the other sessions.
LEMMA InsertedIsAbsent ==
  ASSUME IInv, NEW q \in Procs, sess[q].step = "insert"
  PROVE  sess[q].at \in Res /\ ~Exists(db[sess[q].at])
BY FromIInv DEF StepSound, Exists, NoRow

\* A commit leaves every row sound and takes nothing away from it.
LEMMA RowsAfterSound ==
  ASSUME IInv, NEW s \in Session, ObjectsSound(s, db, pay), CommitAllowed(s)
  PROVE  /\ RowsAfter(s) \in [Res -> Row]
         /\ \A x \in Res : /\ RowSound(RowsAfter(s)[x], pay[x])
                           /\ Grown(db[x], RowsAfter(s)[x])
                           /\ ~Exists(db[x]) => RowsAfter(s)[x] = db[x]
<1>1. ASSUME NEW x \in Res
      PROVE  /\ RowsAfter(s)[x] \in Row
             /\ RowSound(RowsAfter(s)[x], pay[x])
             /\ Grown(db[x], RowsAfter(s)[x])
             /\ ~Exists(db[x]) => RowsAfter(s)[x] = db[x]
  <2>1. db[x] \in Row /\ RowSound(db[x], pay[x])
    BY DEF IInv, TypeOK, RowsSound
  <2>2. CASE x \in Dirty(s)
    <3>1. Exists(db[x])
      BY <2>2 DEF CommitAllowed
    <3>2. /\ s.loaded[x] \in Row /\ s.object[x] \in Row
          /\ RowSound(s.object[x], pay[x])
          /\ Grown(s.loaded[x], s.object[x])
          /\ Grown(s.loaded[x], db[x])
      BY <3>1 DEF Session, ObjectsSound, Exists
    <3>3. RowsAfter(s)[x] = Flush(db[x], s.loaded[x], s.object[x])
      BY <2>2 DEF RowsAfter
    <3> QED BY <2>1, <3>1, <3>2, <3>3, FlushType, FlushSound
  <2>3. CASE x \notin Dirty(s)
    <3>1. RowsAfter(s)[x] = db[x]
      BY <2>3 DEF RowsAfter
    <3> QED BY <2>1, <3>1, GrownReflexive
  <2> QED BY <2>2, <2>3
<1>2. RowsAfter(s) \in [Res -> Row]
  BY <1>1 DEF RowsAfter
<1> QED BY <1>1, <1>2

LEMMA CommitSound ==
  ASSUME IInv, NEW p \in Procs, Commit(p)
  PROVE  IInv'
<1>1. PICK s : s = sess[p]
  OBVIOUS
<1>2. s \in Session /\ ObjectsSound(s, db, pay) /\ CommitAllowed(s)
  BY <1>1, FromIInv DEF Commit
<1>3. /\ db' = RowsAfter(s) /\ lock' = Unlocked(p) /\ Become(p, Idle)
      /\ listing' = [l \in Listings |-> IF l \in DirtyListings(s)
                                        THEN s.lobject[l] ELSE listing[l]]
      /\ clock' = [r \in Res |-> Rewound(s, r)]
      /\ UNCHANGED <<pay, seen, faults>>
  BY <1>1 DEF Commit, Finish
<1>4. /\ db' \in [Res -> Row]
      /\ \A x \in Res : /\ RowSound(db'[x], pay'[x])
                        /\ Grown(db[x], db'[x])
                        /\ ~Exists(db[x]) => db'[x] = db[x]
  BY <1>2, <1>3, RowsAfterSound
<1>5. \A x \in Res : db[x].status = "deleted" => db'[x].status = "deleted"
  BY <1>4 DEF Exists
<1>6. listing' \in [Listings -> ListingStatus]
  BY <1>2, <1>3 DEF Session, IInv, TypeOK
<1>7. clock' \in [Res -> Clock]
  <2>1. ASSUME NEW r \in Res PROVE Rewound(s, r) \in Clock
    <3>1. clock[r] \in Clock
      BY DEF IInv, TypeOK
    <3> QED BY <3>1 DEF Rewound, Clock
  <2> QED BY <1>3, <2>1
<1>8. TypeOK'
  BY <1>3, <1>4, <1>6, <1>7, UnlockedSound, IdleType DEF IInv, TypeOK, Become
<1>9. StepSound(p, Idle, db, pay)'
  BY DEF StepSound, Idle
<1>10. \A q \in Procs \ {p} : sess[q].step = "insert" =>
         /\ db'[sess[q].at] = db[sess[q].at]
         /\ lock'[ListingOf[sess[q].at]] = lock[ListingOf[sess[q].at]]
  BY <1>3, <1>4, InsertedIsAbsent, UnlockedSound
<1> QED BY <1>3, <1>4, <1>5, <1>8, <1>9, <1>10, IdleSound, SharedStep

\* A session that ends without writing
LEMMA RollbackStep ==
  ASSUME IInv, NEW p \in Procs, Become(p, Idle), lock' = Unlocked(p),
         faults' \in 0..MaxFaults, UNCHANGED <<db, listing, pay, clock, seen>>
  PROVE  IInv'
<1>1. TypeOK'
  BY UnlockedSound, IdleType DEF IInv, TypeOK, Become
<1>2. StepSound(p, Idle, db, pay)'
  BY DEF StepSound, Idle
<1>3. \A x \in Res : RowSound(db[x], pay[x])
  BY FromIInv
<1> QED BY <1>1, <1>2, <1>3, UnlockedSound, IdleSound, GrownReflexive, SharedStep

LEMMA CommitFailsSound ==
  ASSUME IInv, NEW p \in Procs, CommitFails(p)
  PROVE  IInv'
BY RollbackStep DEF CommitFails, Finish, IInv, TypeOK

LEMMA CrashSound ==
  ASSUME IInv, NEW p \in Procs, Crash(p)
  PROVE  IInv'
<1>1. faults' \in 0..MaxFaults
  BY FaultAssumption DEF Crash, Fault, IInv, TypeOK
<1> QED BY <1>1, RollbackStep DEF Crash, Finish

LEMMA DeleteLoadSound ==
  ASSUME IInv, NEW p \in Procs, NEW r \in Res, DeleteLoad(p, r)
  PROVE  IInv'
<1>1. PICK t : t = [Idle EXCEPT !.kind = "delete", !.step = "delete", !.at = r]
  OBVIOUS
<1>2. t \in Session /\ t.loaded = Idle.loaded /\ t.object = Idle.object
      /\ t.step = "delete" /\ t.at = r /\ t.kind = "delete"
  BY <1>1, IdleType DEF Session, Kinds, Steps, Idle
<1>3. ObjectsSound(t, db, pay) /\ StepSound(p, t, db, pay)
  BY <1>2, IdleSound DEF ObjectsSound, StepSound
<1> QED BY <1>1, <1>2, <1>3, SessionStep DEF DeleteLoad, IInv, TypeOK

LEMMA DeletedSound ==
  ASSUME NEW row \in Row, NEW payment
  PROVE  /\ Deleted(row) \in Row /\ Deleted(row).status = "deleted"
         /\ RowSound(Deleted(row), payment)
BY NoRowType DEF Deleted, Row, RowSound, NoRow, Confirmed, Settled

LEMMA DeleteCommitSound ==
  ASSUME IInv, NEW p \in Procs, DeleteCommit(p)
  PROVE  IInv'
<1>1. PICK r : r = sess[p].at
  OBVIOUS
<1>2. r \in Res
  BY <1>1, FromIInv DEF DeleteCommit, StepSound
<1>3. PICK row : row = IF Exists(db[r]) THEN Deleted(db[r]) ELSE db[r]
  OBVIOUS
<1>4. /\ db' = [db EXCEPT ![r] = row] /\ Become(p, Idle)
      /\ UNCHANGED <<listing, lock, pay, clock, seen, faults>>
  BY <1>1, <1>3 DEF DeleteCommit, Finish
<1>5. db \in [Res -> Row] /\ \A x \in Res : RowSound(db[x], pay[x])
  BY FromIInv DEF IInv, TypeOK
<1>6. row \in Row /\ RowSound(row, pay[r]) /\ (row = db[r] \/ row.status = "deleted")
  BY <1>2, <1>3, <1>5, DeletedSound
<1>7. TypeOK'
  BY <1>4, <1>5, <1>6, IdleType DEF IInv, TypeOK, Become
<1>8. ASSUME NEW x \in Res
      PROVE  /\ RowSound(db'[x], pay'[x])
             /\ Grown(db[x], db'[x]) \/ db'[x].status = "deleted"
             /\ db[x].status = "deleted" => db'[x].status = "deleted"
  <2>1. CASE x = r
    <3>1. db'[x] = row /\ pay'[x] = pay[x]
      BY <1>4, <1>5, <2>1
    <3> QED BY <1>6, <2>1, <3>1, GrownReflexive
  <2>2. CASE x # r
    <3>1. db'[x] = db[x] /\ pay'[x] = pay[x]
      BY <1>4, <1>5, <2>2
    <3> QED BY <1>5, <3>1, GrownReflexive
  <2> QED BY <2>1, <2>2
<1>9. StepSound(p, Idle, db, pay)'
  BY DEF StepSound, Idle
<1>10. \A q \in Procs \ {p} : sess[q].step = "insert" =>
         /\ db'[sess[q].at] = db[sess[q].at]
         /\ lock'[ListingOf[sess[q].at]] = lock[ListingOf[sess[q].at]]
  BY <1>3, <1>4, <1>5, InsertedIsAbsent
<1>11. \A x \in Res : pay[x] \in Placed => pay'[x] \in Placed
  BY <1>4
<1> QED BY <1>4, <1>7, <1>8, <1>9, <1>10, <1>11, IdleSound, SharedStep

-----------------------------------------------------------------------------
(* The environment *)

\* Payments and deadlines move on: no process takes part.
LEMMA EnvironmentStep ==
  ASSUME IInv, pay' \in [Res -> Payments], clock' \in [Res -> Clock],
         \A x \in Res : pay[x] \in Placed => pay'[x] \in Placed,
         UNCHANGED <<db, listing, lock, seen, sess, faults>>
  PROVE  IInv'
<1>1. TypeOK'
  BY DEF IInv, TypeOK
<1>2. RowsSound'
  BY DEF IInv, RowsSound, RowSound
<1>3. ASSUME NEW q \in Procs
      PROVE  ObjectsSound(sess[q], db, pay)' /\ StepSound(q, sess[q], db, pay)'
  <2>1. ObjectsSound(sess[q], db, pay) /\ StepSound(q, sess[q], db, pay)
    BY FromIInv
  <2>2. ObjectsSound(sess[q], db', pay')
    BY <2>1, GrownReflexive, ObjectsStable
  <2>3. StepSound(q, sess[q], db, pay)'
    BY <2>1 DEF StepSound
  <2> QED BY <2>2, <2>3 DEF ObjectsSound
<1> QED BY <1>1, <1>2, <1>3 DEF IInv, SessionsSound

LEMMA EnvironmentSound ==
  ASSUME IInv, Environment
  PROVE  IInv'
<1>1. PICK r \in Res : \/ Pay(r) \/ ProviderCancels(r) \/ AgeElapses(r)
                       \/ CorrectionElapses(r) \/ DueElapses(r)
  BY DEF Environment
<1>2. pay \in [Res -> Payments] /\ clock \in [Res -> Clock]
  BY DEF IInv, TypeOK
<1>3. CASE Pay(r)
  BY <1>2, <1>3, EnvironmentStep DEF Pay, Payments, Placed
<1>4. CASE ProviderCancels(r)
  BY <1>2, <1>4, EnvironmentStep DEF ProviderCancels, Payments, Placed
<1>5. CASE AgeElapses(r)
  <2>1. PICK age : clock' = [clock EXCEPT ![r].age = age] /\ age \in Ages
    BY <1>2, <1>5 DEF AgeElapses, Ages, Clock
  <2>2. clock' \in [Res -> Clock]
    BY <1>2, <2>1 DEF Clock
  <2> QED BY <1>2, <1>5, <2>2, EnvironmentStep DEF AgeElapses
<1>6. CASE CorrectionElapses(r)
  BY <1>2, <1>6, EnvironmentStep DEF CorrectionElapses, Clock
<1>7. CASE DueElapses(r)
  BY <1>2, <1>7, EnvironmentStep DEF DueElapses, Clock
<1> QED BY <1>1, <1>3, <1>4, <1>5, <1>6, <1>7

-----------------------------------------------------------------------------
(* The invariant, and the properties that follow from it *)

LEMMA InitSound == ASSUME Init PROVE IInv
<1>1. TypeOK
  BY IdleType, FaultAssumption
     DEF Init, TypeOK, NoListings, ListingStatus, Payments, Clock, Ages
<1>2. RowsSound
  BY DEF Init, RowsSound, RowSound, NoRows, NoRow, Confirmed, Settled
<1>3. ASSUME NEW p \in Procs
      PROVE  ObjectsSound(sess[p], db, pay) /\ StepSound(p, sess[p], db, pay)
  <2>1. sess[p] = Idle
    BY DEF Init
  <2> QED BY <2>1, IdleSound, IdleStepSound
<1> QED BY <1>1, <1>2, <1>3 DEF IInv, SessionsSound

LEMMA RequestSound ==
  ASSUME IInv, NEW p \in Procs, Request(p)
  PROVE  IInv'
<1>1. PICK r \in Res :
        \/ ReserveLock(p, r) \/ RecoverLock(p, r)
        \/ ConfirmEvent(p, r) \/ ReturnPage(p, r) \/ ReleasedEvent(p, r)
        \/ CancelLoad(p, r, FALSE) \/ CancelLoad(p, r, TRUE) \/ DeclineLoad(p, r)
        \/ \E party \in Parties, result \in Outcomes : OutcomeLoad(p, r, party, result)
        \/ DeleteLoad(p, r)
  BY DEF Request
<1>2. CASE ReserveLock(p, r) \/ RecoverLock(p, r)
  BY <1>2, ReserveLockSound, RecoverLockSound
<1>3. CASE ConfirmEvent(p, r) \/ ReturnPage(p, r) \/ ReleasedEvent(p, r)
  BY <1>3, ConfirmEventSound, ReturnPageSound, ReleasedEventSound
<1>4. CASE CancelLoad(p, r, FALSE) \/ CancelLoad(p, r, TRUE)
  BY <1>4, CancelLoadSound
<1>5. CASE DeclineLoad(p, r) \/ DeleteLoad(p, r)
  BY <1>5, PlainLoadsSound, DeleteLoadSound
<1>6. CASE \E party \in Parties, result \in Outcomes : OutcomeLoad(p, r, party, result)
  BY <1>6, OutcomeLoadSound
<1> QED BY <1>1, <1>2, <1>3, <1>4, <1>5, <1>6

LEMMA ContinueSound ==
  ASSUME IInv, NEW p \in Procs, Continue(p)
  PROVE  IInv'
<1>1. CASE ReserveInsert(p) \/ ReserveRefresh(p) \/ CreateHold(p) \/ CreateHoldFails(p)
  BY <1>1, ReserveInsertSound, ReserveRefreshSound, CreateHoldSound, CreateHoldFailsSound
<1>2. CASE ConfirmLoad(p)
  BY <1>2, ConfirmLoadSound
<1>3. CASE \E r \in Res : VisitListing(p, r) \/ FinalizeVisit(p, r)
  BY <1>3, VisitListingSound, FinalizeVisitSound
<1>4. CASE \E reply \in Replies : Release(p, reply)
  BY <1>4, ReleaseSound
<1>5. CASE \E r \in Res, reply \in Replies : ReconcileRelease(p, r, reply)
  BY <1>5, ReconcileReleaseSound
<1>6. CASE Commit(p) \/ CommitFails(p) \/ DeleteCommit(p)
  BY <1>6, CommitSound, CommitFailsSound, DeleteCommitSound
<1> QED BY <1>1, <1>2, <1>3, <1>4, <1>5, <1>6 DEF Continue

LEMMA NextSound == ASSUME IInv, [Next]_vars PROVE IInv'
<1>1. ASSUME NEW p \in Requests, Request(p) PROVE IInv'
  BY <1>1, RequestSound DEF Procs
<1>2. ASSUME NEW p \in Workers, Job(p) PROVE IInv'
  BY <1>2, PlainLoadsSound, ReconcileLoadSound DEF Job, Procs
<1>3. ASSUME NEW p \in Procs, Continue(p) \/ Crash(p) PROVE IInv'
  BY <1>3, ContinueSound, CrashSound
<1>4. CASE Environment
  BY <1>4, EnvironmentSound
<1>5. CASE UNCHANGED vars
  BY <1>5 DEF vars, IInv, TypeOK, RowsSound, SessionsSound, ObjectsSound, StepSound
<1> QED BY <1>1, <1>2, <1>3, <1>4, <1>5 DEF Next

\* The inductive invariant: every row, and every object a session holds, is
\* backed by the provider's payment and has lost nothing of what was loaded,
\* whatever the other handlers and jobs have committed since.
THEOREM Invariance == Spec => []IInv
<1>1. Init => IInv
  BY InitSound
<1>2. IInv /\ [Next]_vars => IInv'
  BY NextSound
<1> QED BY <1>1, <1>2, PTL DEF Spec

\* Rows, listings, locks, payments and sessions stay well formed; in particular
\* finalize never gives a listing a status without a recorded outcome.
THEOREM TypeCorrect == Spec => []TypeOK
<1>1. IInv => TypeOK
  BY DEF IInv
<1> QED BY <1>1, Invariance, PTL

\* Nobody holds a car without having put down the deposit: a reservation that is
\* active, settling or completed has a payment whose money was really held.
THEOREM ConfirmedWasHeldAlways == Spec => []ConfirmedWasHeld
<1>1. IInv => ConfirmedWasHeld
  BY DEF IInv, RowsSound, RowSound, ConfirmedWasHeld, Placed
<1> QED BY <1>1, Invariance, PTL

\* A settling or completed reservation has an outcome, so finalize always has
\* one to put the listing's status from.
THEOREM SettledHasOutcomeAlways == Spec => []SettledHasOutcome
<1>1. IInv => SettledHasOutcome
  BY DEF IInv, RowsSound, RowSound, SettledHasOutcome
<1> QED BY <1>1, Invariance, PTL

\* What a step may not take away from row r
Kept(r) ==
  Exists(db[r]) /\ Exists(db'[r]) =>
    /\ db[r].paid_by => db'[r].paid_by
    /\ db[r].released => db'[r].released
    /\ \A q \in Parties : db[r].used[q] => db'[r].used[q]

\* Only an insert, a commit and a delete write the table.
LEMMA TableWriters ==
  ASSUME [Next]_vars
  PROVE  \/ UNCHANGED db
         \/ \E p \in Procs : ReserveInsert(p) \/ Commit(p) \/ DeleteCommit(p)
<1>1. ASSUME NEW p \in Requests, Request(p) PROVE UNCHANGED db
  BY <1>1 DEF Request, ReserveLock, RecoverLock, ConfirmEvent, ReturnPage, ReleasedEvent,
              CancelLoad, DeclineLoad, OutcomeLoad, DeleteLoad
<1>2. ASSUME NEW p \in Workers, Job(p) PROVE UNCHANGED db
  BY <1>2 DEF Job, ExpireLoad, FinalizeLoad, ReconcileLoad
<1>3. ASSUME NEW p \in Procs, Continue(p) \/ Crash(p)
      PROVE  UNCHANGED db \/ ReserveInsert(p) \/ Commit(p) \/ DeleteCommit(p)
  BY <1>3 DEF Continue, Crash, ReserveRefresh, CreateHold, CreateHoldFails, ConfirmLoad,
              VisitListing, FinalizeVisit, Release, ReconcileRelease, CommitFails
<1>4. CASE Environment
  BY <1>4 DEF Environment, Pay, ProviderCancels, AgeElapses, CorrectionElapses, DueElapses
<1>5. CASE UNCHANGED vars
  BY <1>5 DEF vars
<1> QED BY <1>1, <1>2, <1>3, <1>4, <1>5 DEF Next

LEMMA NextKeeps ==
  ASSUME IInv, [Next]_vars, NEW r \in Res
  PROVE  Kept(r)
<1>1. CASE UNCHANGED db
  BY <1>1 DEF Kept
<1>2. ASSUME NEW p \in Procs, ReserveInsert(p) PROVE Kept(r)
  <2>1. PICK x : x = sess[p].at
    OBVIOUS
  <2>2. x \in Res /\ ~Exists(db[x])
    BY <1>2, <2>1, InsertedIsAbsent DEF ReserveInsert
  <2>3. UNCHANGED db \/ \E row : db' = [db EXCEPT ![x] = row]
    BY <1>2, <2>1 DEF ReserveInsert
  <2>4. db \in [Res -> Row]
    BY DEF IInv, TypeOK
  <2>5. db'[r] = db[r] \/ ~Exists(db[r])
    BY <2>2, <2>3, <2>4
  <2> QED BY <2>5 DEF Kept
<1>3. ASSUME NEW p \in Procs, Commit(p) PROVE Kept(r)
  <2>1. Grown(db[r], db'[r])
    BY <1>3, FromIInv, RowsAfterSound DEF Commit
  <2> QED BY <2>1 DEF Kept, Grown
<1>4. ASSUME NEW p \in Procs, DeleteCommit(p) PROVE Kept(r)
  <2>1. db \in [Res -> Row]
    BY DEF IInv, TypeOK
  <2>2. db'[r] = db[r] \/ db'[r] = Deleted(db[r])
    BY <1>4, <2>1 DEF DeleteCommit
  <2>3. db[r] \in Row
    BY <2>1
  <2>4. db'[r] = db[r] \/ ~Exists(db'[r])
    BY <2>2, <2>3, DeletedSound DEF Exists
  <2> QED BY <2>4 DEF Kept
<1> QED BY <1>1, <1>2, <1>3, <1>4, TableWriters

\* No commit, however stale the session, loses the payment id, the release of
\* the deposit or a spent correction another session recorded.
THEOREM RecordsAreKeptAlways == Spec => RecordsAreKept
<1>1. IInv /\ [Next]_vars => [\A r \in Res : Kept(r)]_vars
  BY NextKeeps
<1>2. Spec => [][\A r \in Res : Kept(r)]_vars
  BY <1>1, Invariance, PTL DEF Spec
<1> QED BY <1>2 DEF Kept, RecordsAreKept

-----------------------------------------------------------------------------
(* Who takes the lock off a car: LockInv, one lemma per action.  IInv gives *)
(* the types, and what a session that inserts a row works on.               *)

\* A session that closes nothing, or only with its car
Tidy(t, rows) == WorksOnRows(t, rows) /\ ClosesWithCar(t) /\ LocksOnInsert(t)

\* The session t of p, which was s, is no threat to a row s was no threat to.
NoNewThreat(s, t) ==
  \A r \in Res :
    listing[ListingOf[r]] = "reserved" /\ db[r].status \in OpenStatuses /\ Blind(t, r)
      => Blind(s, r)

LEMMA LockTurn ==
  ASSUME IInv, LockInv, NEW p \in Procs, NEW t, Become(p, t), UNCHANGED <<db, listing>>,
         Tidy(t, db), NoNewThreat(sess[p], t)
  PROVE  LockInv'
<1>0. /\ sess'[p] = t
      /\ \A q \in Procs : q # p => sess'[q] = sess[q]
  BY DEF Become, IInv, TypeOK
<1>1. LockOwned'
  <2> SUFFICES ASSUME NEW l \in Listings, listing[l] = "reserved"
               PROVE  \E r \in OnListing(l) : /\ db[r].status \in OpenStatuses
                                              /\ \A q \in Procs : ~Blind(sess'[q], r)
    BY DEF LockOwned, OnListing, Blind
  <2>1. PICK r \in OnListing(l) : /\ db[r].status \in OpenStatuses
                                  /\ \A q \in Procs : ~Blind(sess[q], r)
    BY DEF LockInv, LockOwned
  <2>2. r \in Res /\ ListingOf[r] = l
    BY DEF OnListing
  <2>3. ASSUME NEW q \in Procs PROVE ~Blind(sess'[q], r)
    BY <1>0, <2>1, <2>2 DEF NoNewThreat
  <2> QED BY <2>1, <2>3
<1>2. SessionsClose'
  <2> SUFFICES ASSUME NEW q \in Procs PROVE Tidy(sess'[q], db)
    BY DEF SessionsClose, Tidy, WorksOnRows, ClosesWithCar, LocksOnInsert
  <2>1. Tidy(sess[q], db)
    BY DEF LockInv, SessionsClose, Tidy
  <2> QED BY <1>0, <2>1
<1> QED BY <1>1, <1>2 DEF LockInv

\* A session that begins nothing to close, or ends, is tidy.
LEMMA TidyIdle == ASSUME NEW rows PROVE Tidy(Idle, rows) /\ \A r \in Res : ~Blind(Idle, r)
BY DEF Tidy, WorksOnRows, ClosesWithCar, LocksOnInsert, Blind, Idle, NoRows, NoRow, NoListings,
       _TERMINAL

\* Freshly loaded rows of the table
LEMMA TidyLoaded ==
  ASSUME IInv, NEW kind \in Kinds, NEW step \in {"visit", "commit", "hold"}, NEW R \in SUBSET Res,
         step = "visit" => \A r \in R : db[r].status # "absent",
         step = "hold" => kind = "recover",
         NEW t, t = Loaded(kind, step, R)
  PROVE  /\ \A r \in Res : t.object[r].status = t.loaded[r].status
         /\ \A r \in Res : db[r].status = "absent" => t.object[r].status = "absent"
         /\ t.lobject = NoListings /\ t.lloaded = NoListings
         /\ t.step = step /\ t.kind = kind /\ t.todo = R /\ t.at = None
BY DEF Loaded, Idle, NoRow, IInv, TypeOK

\* A session that has changed no listing and closed no row
LEMMA TidyFresh ==
  ASSUME NEW t, t.step \notin {"insert", "refresh", "delete"},
         t.step = "hold" => t.kind = "recover",
         t.step = "release" => t.kind = "outcome",
         t.lobject = NoListings, WorksOnRows(t, db),
         \A r \in Res : t.object[r].status # t.loaded[r].status
                       => t.object[r].status \in OpenStatuses
  PROVE  Tidy(t, db) /\ \A r \in Res : ~Blind(t, r)
<1>1. ClosesWithCar(t)
  BY DEF ClosesWithCar
<1>2. LocksOnInsert(t)
  BY DEF LocksOnInsert, NoListings
<1>3. \A r \in Res : ~Blind(t, r)
  BY DEF Blind, OpenStatuses, _TERMINAL
<1> QED BY <1>1, <1>2, <1>3 DEF Tidy

LEMMA LockFinish ==
  ASSUME IInv, LockInv, NEW p \in Procs, Finish(p), UNCHANGED <<db, listing>>
  PROVE  LockInv'
BY TidyIdle, LockTurn DEF Finish, NoNewThreat

LEMMA LockFresh ==
  ASSUME IInv, LockInv, NEW p \in Procs, NEW t, Become(p, t), UNCHANGED <<db, listing>>,
         t.step \notin {"insert", "refresh", "delete"}, t.step = "hold" => t.kind = "recover",
         t.step = "release" => t.kind = "outcome",
         t.lobject = NoListings, WorksOnRows(t, db),
         \A r \in Res : t.object[r].status # t.loaded[r].status
                       => t.object[r].status \in OpenStatuses
  PROVE  LockInv'
<1>1. Tidy(t, db) /\ \A r \in Res : ~Blind(t, r)
  BY TidyFresh
<1> QED BY <1>1, LockTurn DEF NoNewThreat

LEMMA ReserveLockLocks ==
  ASSUME IInv, LockInv, NEW p \in Procs, NEW r \in Res, ReserveLock(p, r)
  PROVE  LockInv'
<1>1. PICK t : t = [Idle EXCEPT !.kind = "reserve", !.step = "insert", !.at = r,
                                !.todo = {r}, !.object[r] = build_reservation,
                                !.lobject[ListingOf[r]] = "reserved"]
  OBVIOUS
<1>2. ListingOf[r] \in Listings
  BY ListingOfAssumption
<1>3. /\ t.step = "insert" /\ t.at = r /\ t.kind = "reserve" /\ t.todo = {r}
      /\ t.lobject[ListingOf[r]] = "reserved"
      /\ t.lloaded = NoListings /\ t.loaded = NoRows
      /\ t.object = [NoRows EXCEPT ![r] = build_reservation]
  BY <1>1, <1>2 DEF Idle, NoListings
<1>4. \A x \in Res : t.object[x].status # t.loaded[x].status
                     => t.object[x].status \in OpenStatuses
  BY <1>3 DEF NoRows, NoRow, build_reservation, OpenStatuses
<1>5. \A x \in Res : t.object[x].status \in {"absent", "pending_payment"}
  BY <1>3 DEF NoRows, NoRow, build_reservation
<1>6. WorksOnRows(t, db) /\ ClosesWithCar(t) /\ LocksOnInsert(t)
  BY <1>3, <1>4, <1>5 DEF WorksOnRows, ClosesWithCar, LocksOnInsert, _TERMINAL
<1>7. \A x \in Res : ~Blind(t, x)
  BY <1>3, <1>5 DEF Blind, _TERMINAL
<1> QED BY <1>1, <1>6, <1>7, LockTurn DEF ReserveLock, Tidy, NoNewThreat

LEMMA RecoverLockLocks ==
  ASSUME IInv, LockInv, NEW p \in Procs, NEW r \in Res, RecoverLock(p, r)
  PROVE  LockInv'
<1>1. PICK u : u = Loaded("recover", "hold", {r})
  OBVIOUS
<1>2. /\ \A x \in Res : u.object[x].status = u.loaded[x].status
      /\ \A x \in Res : db[x].status = "absent" => u.object[x].status = "absent"
      /\ u.lobject = NoListings /\ u.step = "hold" /\ u.kind = "recover" /\ u.todo = {r}
  BY <1>1, TidyLoaded DEF Kinds
<1>3. PICK t : t = [u EXCEPT !.at = r]
  OBVIOUS
<1>4. u \in Session
  BY <1>1, LoadedSound DEF Kinds, Steps
<1>5. /\ t.object = u.object /\ t.loaded = u.loaded /\ t.lobject = u.lobject
      /\ t.step = "hold" /\ t.kind = "recover" /\ t.at = r /\ t.todo = {r}
  BY <1>2, <1>3, <1>4 DEF Session
<1>6. WorksOnRows(t, db)
  <2>1. db[r].status = "pending_payment"
    BY DEF RecoverLock
  <2>2. \A x \in Res : db[x].status = "absent" => x # r /\ t.object[x].status = "absent"
    BY <1>2, <1>5, <2>1
  <2> QED BY <1>5, <2>2 DEF WorksOnRows, _TERMINAL
<1>7. Become(p, t) /\ UNCHANGED <<db, listing>>
  BY <1>1, <1>3 DEF RecoverLock
<1>8. \A x \in Res : t.object[x].status = t.loaded[x].status
  BY <1>2, <1>5
<1> QED BY <1>2, <1>5, <1>6, <1>7, <1>8, LockFresh

LEMMA AwaitLocks ==
  ASSUME IInv, LockInv, NEW p \in Procs, NEW r \in Res, ConfirmEvent(p, r) \/ ReturnPage(p, r)
  PROVE  LockInv'
<1>1. PICK t : t = [Idle EXCEPT !.kind = "confirm", !.step = "load", !.at = r]
  OBVIOUS
<1>2. /\ t.step = "load" /\ t.lobject = NoListings /\ t.object = NoRows /\ t.loaded = NoRows
  BY <1>1 DEF Idle
<1>3. WorksOnRows(t, db)
  BY <1>2 DEF WorksOnRows, NoRows, NoRow, _TERMINAL
<1>4. Become(p, t) => LockInv'
  BY <1>2, <1>3, LockFresh DEF ConfirmEvent, ReturnPage
<1>5. Become(p, t) \/ Finish(p)
  BY <1>1 DEF ConfirmEvent, ReturnPage, Finish
<1> QED BY <1>4, <1>5, LockFinish DEF ConfirmEvent, ReturnPage

\* A session whose object r alone went on from a freshly loaded row
LEMMA LockLoaded ==
  ASSUME IInv, LockInv, NEW p \in Procs, NEW kind \in Kinds, NEW step \in {"visit", "commit"},
         NEW r \in Res, NEW row \in Row, db[r].status # "absent",
         row.status = db[r].status \/ row.status \in OpenStatuses,
         NEW t \in Session, t = Set(Loaded(kind, step, {r}), r, row),
         NEW u, u.step \notin {"insert", "refresh", "delete", "hold"},
         u.step = "release" => u.kind = "outcome" /\ u.at = r,
         u.step \in {"visit", "release"} => u.todo = {r},
         u.object = t.object, u.loaded = t.loaded, u.lobject = t.lobject,
         Become(p, u), UNCHANGED <<db, listing>>
  PROVE  LockInv'
<1>1. PICK v : v = Loaded(kind, step, {r})
  OBVIOUS
<1>2. /\ \A x \in Res : v.object[x].status = v.loaded[x].status
      /\ \A x \in Res : db[x].status = "absent" => v.object[x].status = "absent"
      /\ v.lobject = NoListings /\ v.todo = {r}
  BY <1>1, TidyLoaded
<1>3. v \in Session /\ v.object[r] = db[r]
  BY <1>1, LoadedSound DEF Steps
<1>4. /\ t.object = [v.object EXCEPT ![r] = row] /\ t.loaded = v.loaded
      /\ t.lobject = v.lobject
  BY <1>1, <1>3 DEF Set, Session
<1>5. v.object \in [Res -> Row]
  BY <1>3 DEF Session
<1>6. \A x \in Res : t.object[x].status # t.loaded[x].status => t.object[x].status \in OpenStatuses
  BY <1>2, <1>3, <1>4, <1>5
<1>7. \A x \in Res : db[x].status = "absent" => t.object[x].status = "absent"
  BY <1>2, <1>4, <1>5
<1>8. WorksOnRows(u, db)
  BY <1>7 DEF WorksOnRows, _TERMINAL
<1>9. u.lobject = NoListings
  BY <1>2, <1>4
<1>10. \A x \in Res : u.object[x].status # u.loaded[x].status => u.object[x].status \in OpenStatuses
  BY <1>6
<1> QED BY <1>8, <1>9, <1>10, LockFresh

-----------------------------------------------------------------------------
(* The steps that close a row *)

\* The listing l aside, a session that closes a row has put its car back on sale.
ClosesBut(s, l) ==
  \A r \in Res :
    s.object[r].status # s.loaded[r].status =>
      \/ s.object[r].status \in OpenStatuses
      \/ /\ s.object[r].status \in _TERMINAL
         /\ s.lobject[ListingOf[r]] # "reserved" \/ ListingOf[r] = l

\* svc.cancel closes row r: a threat to r only if the listing was read when free
LEMMA CancelledTidy ==
  ASSUME NEW s \in Session, NEW r \in Res, WorksOnRows(s, db), LocksOnInsert(s),
         ClosesBut(s, ListingOf[r]), s.step \in {"visit", "hold", "release"},
         db[r].status # "absent"
  PROVE  /\ Tidy(Cancelled(s, r), db)
         /\ \A x \in Res : Blind(Cancelled(s, r), x) =>
              Blind(s, x) \/ (x = r /\ s.lloaded[ListingOf[r]] # "reserved")
<1>1. PICK row : row = cancel(s.object[r], ReasonFor(s, r))
  OBVIOUS
<1>2. s.object \in [Res -> Row] /\ s.lobject \in [Listings -> ListingStatus]
      /\ s.todo \subseteq Res /\ ListingOf \in [Res -> Listings]
  BY ListingOfAssumption DEF Session
<1>3. row.status = "cancelled"
  BY <1>1, <1>2 DEF cancel, Row
<1>4. PICK u : u = Proceed(s, r)
  OBVIOUS
<1>5. /\ u \in Session /\ u.loaded = s.loaded /\ u.object = s.object
      /\ u.kind = s.kind /\ u.todo = s.todo \ {r} /\ u.step \in {"commit", "visit"}
  BY <1>4, ProceedSound
<1>6. u.lobject = s.lobject /\ u.lloaded = s.lloaded
  BY <1>4 DEF Proceed, Session
<1>7. PICK v : v = [u EXCEPT !.object[r] = row]
  OBVIOUS
<1>8. /\ v.object = [s.object EXCEPT ![r] = row] /\ v.loaded = s.loaded /\ v.kind = s.kind
      /\ v.todo = s.todo \ {r} /\ v.step = u.step
      /\ v.lobject = s.lobject /\ v.lloaded = s.lloaded
      /\ v = [kind |-> v.kind, step |-> v.step, at |-> v.at, todo |-> v.todo, delay |-> v.delay,
              loaded |-> v.loaded, object |-> v.object, lloaded |-> v.lloaded,
              lobject |-> v.lobject]
  BY <1>5, <1>6, <1>7 DEF Session
<1>9. PICK t : t = [v EXCEPT !.lobject[ListingOf[r]] = "active"]
  OBVIOUS
<1>10. /\ t.object = [s.object EXCEPT ![r] = row] /\ t.loaded = s.loaded /\ t.kind = s.kind
       /\ t.todo = s.todo \ {r} /\ t.step \in {"commit", "visit"}
       /\ t.lobject = [s.lobject EXCEPT ![ListingOf[r]] = "active"] /\ t.lloaded = s.lloaded
  BY <1>5, <1>8, <1>9
<1>11. t = Cancelled(s, r)
  BY <1>1, <1>4, <1>7, <1>9 DEF Cancelled, Set
<1>12. /\ t.object[r].status = "cancelled"
       /\ \A x \in Res : x # r => t.object[x] = s.object[x]
  BY <1>2, <1>3, <1>10
<1>13. WorksOnRows(t, db)
  BY <1>10, <1>12 DEF WorksOnRows
<1>14. ClosesWithCar(t)
  BY <1>2, <1>10, <1>12 DEF ClosesWithCar, ClosesBut, _TERMINAL
<1>15. LocksOnInsert(t)
  BY <1>2, <1>10 DEF LocksOnInsert
<1>16. ASSUME NEW x \in Res, Blind(t, x)
       PROVE  Blind(s, x) \/ (x = r /\ s.lloaded[ListingOf[r]] # "reserved")
  BY <1>10, <1>12, <1>16 DEF Blind
<1> QED BY <1>11, <1>13, <1>14, <1>15, <1>16 DEF Tidy

LEMMA CancelOrReleaseTidy ==
  ASSUME NEW s \in Session, NEW r \in Res, WorksOnRows(s, db), LocksOnInsert(s),
         ClosesBut(s, ListingOf[r]), s.step \in {"visit", "hold"}, s.kind # "outcome",
         db[r].status # "absent"
  PROVE  /\ Tidy(CancelOrRelease(s, r), db)
         /\ \A x \in Res : Blind(CancelOrRelease(s, r), x) =>
              Blind(s, x) \/ (x = r /\ s.lloaded[ListingOf[r]] # "reserved")
<1>1. PICK t : t = [s EXCEPT !.step = "release", !.at = r]
  OBVIOUS
<1>2. /\ t.object = s.object /\ t.loaded = s.loaded /\ t.kind = s.kind /\ t.todo = s.todo
      /\ t.step = "release" /\ t.at = r /\ t.lobject = s.lobject /\ t.lloaded = s.lloaded
  BY <1>1 DEF Session
<1>3. WorksOnRows(t, db)
  BY <1>2 DEF WorksOnRows
<1>4. ClosesWithCar(t)
  BY <1>2 DEF ClosesWithCar, ClosesBut
<1>5. LocksOnInsert(t)
  BY <1>2 DEF LocksOnInsert
<1>6. ASSUME NEW x \in Res, Blind(t, x)
      PROVE  Blind(s, x) \/ (x = r /\ s.lloaded[ListingOf[r]] # "reserved")
  BY <1>2, <1>6 DEF Blind
<1>7. CancelOrRelease(s, r) \in {t, Cancelled(s, r)}
  BY <1>1 DEF CancelOrRelease
<1>8. Tidy(t, db)
  BY <1>3, <1>4, <1>5 DEF Tidy
<1> QED BY <1>6, <1>7, <1>8, CancelledTidy

LEMMA TidySession ==
  ASSUME IInv, LockInv, NEW p \in Procs
  PROVE  /\ sess[p] \in Session /\ WorksOnRows(sess[p], db) /\ ClosesWithCar(sess[p])
         /\ LocksOnInsert(sess[p])
BY FromIInv DEF LockInv, SessionsClose

LEMMA VisitListingLocks ==
  ASSUME IInv, LockInv, NEW p \in Procs, NEW r \in Res, VisitListing(p, r)
  PROVE  LockInv'
<1>1. PICK s : s = sess[p]
  OBVIOUS
<1>2. PICK l : l = ListingOf[r]
  OBVIOUS
<1>3. /\ s \in Session /\ s.step = "visit" /\ r \in s.todo /\ s.kind # "outcome"
      /\ WorksOnRows(s, db) /\ ClosesWithCar(s) /\ LocksOnInsert(s)
  BY <1>1, TidySession DEF VisitListing
<1>4. l \in Listings /\ listing[l] \in ListingStatus /\ ListingOf \in [Res -> Listings]
  BY <1>2, ListingOfAssumption DEF IInv, TypeOK
<1>5. PICK u : u = [s EXCEPT !.lloaded[l] = listing[l], !.lobject[l] = listing[l]]
  OBVIOUS
<1>6. /\ u \in Session /\ u.loaded = s.loaded /\ u.object = s.object /\ u.kind = s.kind
      /\ u.step = s.step /\ u.todo = s.todo /\ u.at = s.at
      /\ u.lloaded = [s.lloaded EXCEPT ![l] = listing[l]]
      /\ u.lobject = [s.lobject EXCEPT ![l] = listing[l]]
  BY <1>3, <1>4, <1>5 DEF Session
<1>7. s.lloaded \in [Listings -> ListingStatus] /\ s.lobject \in [Listings -> ListingStatus]
  BY <1>3 DEF Session
<1>8. WorksOnRows(u, db) /\ db[r].status # "absent"
  BY <1>3, <1>6 DEF WorksOnRows
<1>9. ClosesBut(u, l)
  BY <1>3, <1>4, <1>6, <1>7 DEF ClosesBut, ClosesWithCar
<1>10. LocksOnInsert(u)
  BY <1>3, <1>6, <1>7 DEF LocksOnInsert
<1>11. PICK t : t = CancelOrRelease(u, r)
  OBVIOUS
<1>12. /\ Tidy(t, db)
       /\ \A x \in Res : Blind(t, x) =>
            Blind(u, x) \/ (x = r /\ u.lloaded[ListingOf[r]] # "reserved")
  <2>1. /\ u \in Session /\ u.step \in {"visit", "hold"} /\ u.kind # "outcome"
        /\ ClosesBut(u, ListingOf[r])
    BY <1>2, <1>3, <1>6, <1>9
  <2> QED BY <1>8, <1>10, <1>11, <2>1, CancelOrReleaseTidy
<1>13. ASSUME NEW x \in Res, listing[ListingOf[x]] = "reserved", Blind(t, x)
       PROVE  Blind(s, x)
  <2>1. Blind(u, x)
    BY <1>2, <1>6, <1>7, <1>4, <1>12, <1>13
  <2>2. ListingOf[x] # l => u.lloaded[ListingOf[x]] = s.lloaded[ListingOf[x]]
    BY <1>4, <1>6, <1>7
  <2>3. ListingOf[x] = l => u.lloaded[ListingOf[x]] = "reserved"
    BY <1>4, <1>6, <1>7, <1>13
  <2> QED BY <1>3, <1>6, <2>1, <2>2, <2>3 DEF Blind
<1>14. Become(p, t) /\ UNCHANGED <<db, listing>>
  BY <1>1, <1>2, <1>5, <1>11 DEF VisitListing
<1> QED BY <1>1, <1>12, <1>13, <1>14, LockTurn DEF NoNewThreat

LEMMA FinalizeVisitLocks ==
  ASSUME IInv, LockInv, NEW p \in Procs, NEW r \in Res, FinalizeVisit(p, r)
  PROVE  LockInv'
<1>1. PICK s : s = sess[p]
  OBVIOUS
<1>2. PICK l : l = ListingOf[r]
  OBVIOUS
<1>3. /\ s \in Session /\ s.step = "visit" /\ r \in s.todo
      /\ WorksOnRows(s, db) /\ ClosesWithCar(s) /\ LocksOnInsert(s)
  BY <1>1, TidySession DEF FinalizeVisit
<1>4. l \in Listings /\ listing[l] \in ListingStatus /\ ListingOf \in [Res -> Listings]
  BY <1>2, ListingOfAssumption DEF IInv, TypeOK
<1>5. PICK row : row = finalize(s.object[r])
  OBVIOUS
<1>6. /\ s.object \in [Res -> Row] /\ s.lloaded \in [Listings -> ListingStatus]
      /\ s.lobject \in [Listings -> ListingStatus]
  BY <1>3 DEF Session
<1>7. row \in Row /\ row.status = "completed"
  BY <1>5, <1>6 DEF finalize, Row, _TERMINAL
<1>8. PICK u : u = Proceed(s, r)
  OBVIOUS
<1>9. /\ u \in Session /\ u.loaded = s.loaded /\ u.object = s.object
      /\ u.todo = s.todo \ {r} /\ u.step \in {"commit", "visit"}
  BY <1>3, <1>8, ProceedSound
<1>10. u.lobject = s.lobject /\ u.lloaded = s.lloaded
  BY <1>3, <1>8 DEF Proceed, Session
<1>11. PICK v : v = [u EXCEPT !.object[r] = row]
  OBVIOUS
<1>12. /\ v \in Session /\ v.object = [s.object EXCEPT ![r] = row] /\ v.loaded = s.loaded
       /\ v.todo = s.todo \ {r} /\ v.step = u.step
       /\ v.lobject = s.lobject /\ v.lloaded = s.lloaded
  BY <1>7, <1>9, <1>10, <1>11 DEF Session
<1>13. PICK now : now = ListingAfterFinalize(s.object[r])
  OBVIOUS
<1>14. now # "reserved"
  BY <1>13 DEF ListingAfterFinalize
<1>15. PICK t : t = [v EXCEPT !.lloaded[l] = listing[l], !.lobject[l] = now]
  OBVIOUS
<1>16. /\ t.object = [s.object EXCEPT ![r] = row] /\ t.loaded = s.loaded
       /\ t.todo = s.todo \ {r} /\ t.step \in {"commit", "visit"}
       /\ t.lloaded = [s.lloaded EXCEPT ![l] = listing[l]]
       /\ t.lobject = [s.lobject EXCEPT ![l] = now]
  BY <1>9, <1>12, <1>15 DEF Session
<1>17. /\ t.object[r].status = "completed"
       /\ \A x \in Res : x # r => t.object[x] = s.object[x]
  BY <1>6, <1>7, <1>16
<1>18. db[r].status # "absent"
  BY <1>3 DEF WorksOnRows
<1>19. WorksOnRows(t, db)
  BY <1>3, <1>16, <1>17, <1>18 DEF WorksOnRows
<1>20. ClosesWithCar(t)
  BY <1>2, <1>3, <1>4, <1>6, <1>14, <1>16, <1>17 DEF ClosesWithCar, _TERMINAL
<1>21. LocksOnInsert(t)
  BY <1>3, <1>6, <1>14, <1>16 DEF LocksOnInsert
<1>22. ASSUME NEW x \in Res, listing[ListingOf[x]] = "reserved", Blind(t, x)
       PROVE  Blind(s, x)
  <2>1. ListingOf[x] # l /\ x # r
    BY <1>2, <1>4, <1>6, <1>16, <1>22 DEF Blind
  <2>2. t.lloaded[ListingOf[x]] = s.lloaded[ListingOf[x]]
    BY <1>4, <1>6, <1>16, <2>1
  <2> QED BY <1>16, <1>17, <1>22, <2>1, <2>2 DEF Blind
<1>23. Become(p, t) /\ UNCHANGED <<db, listing>>
  BY <1>1, <1>2, <1>5, <1>8, <1>11, <1>13, <1>15 DEF FinalizeVisit, Set
<1> QED BY <1>1, <1>19, <1>20, <1>21, <1>22, <1>23, LockTurn DEF Tidy, NoNewThreat

LEMMA CreateHoldFailsLocks ==
  ASSUME IInv, LockInv, NEW p \in Procs, CreateHoldFails(p)
  PROVE  LockInv'
<1>1. PICK s : s = sess[p]
  OBVIOUS
<1>2. PICK r : r = s.at
  OBVIOUS
<1>3. /\ s \in Session /\ s.step = "hold" /\ r \in Res
      /\ WorksOnRows(s, db) /\ ClosesWithCar(s) /\ LocksOnInsert(s)
  BY <1>1, <1>2, FromIInv, TidySession DEF CreateHoldFails, StepSound
<1>4. CASE Finish(p)
  BY <1>4, LockFinish DEF CreateHoldFails
<1>5. CASE s.kind # "recover" /\ Become(p, CancelOrRelease(s, r))
  <2>1. s.kind # "outcome" /\ s.lloaded[ListingOf[r]] = "reserved"
    BY <1>2, <1>3, <1>5 DEF LocksOnInsert
  <2>2. ClosesBut(s, ListingOf[r])
    BY <1>3 DEF ClosesBut, ClosesWithCar
  <2>3. db[r].status # "absent"
    BY <1>2, <1>3 DEF WorksOnRows
  <2>4. PICK t : t = CancelOrRelease(s, r)
    OBVIOUS
  <2>5. Tidy(t, db) /\ \A x \in Res : Blind(t, x) => Blind(s, x)
    BY <1>3, <2>1, <2>2, <2>3, <2>4, CancelOrReleaseTidy
  <2>6. Become(p, t) /\ UNCHANGED <<db, listing>>
    BY <1>5, <2>4 DEF CreateHoldFails
  <2> QED BY <1>1, <2>5, <2>6, LockTurn DEF NoNewThreat
<1> QED BY <1>1, <1>2, <1>4, <1>5 DEF CreateHoldFails

LEMMA ReleaseLocks ==
  ASSUME IInv, LockInv, NEW p \in Procs, NEW reply, Release(p, reply)
  PROVE  LockInv'
<1>1. PICK s : s = sess[p]
  OBVIOUS
<1>2. PICK r : r = s.at
  OBVIOUS
<1>3. /\ s \in Session /\ s.step = "release" /\ r \in Res
      /\ WorksOnRows(s, db) /\ ClosesWithCar(s) /\ LocksOnInsert(s)
  BY <1>1, <1>2, FromIInv, TidySession DEF Release, StepSound
<1>4. PICK row : row = AfterRelease(s.object[r], reply)
  OBVIOUS
<1>5. s.object \in [Res -> Row]
  BY <1>3 DEF Session
<1>6. row \in Row /\ row.status = s.object[r].status
  BY <1>3, <1>4, <1>5 DEF AfterRelease, Row
<1>7. PICK t : t = Set(s, r, row)
  OBVIOUS
<1>8. /\ t \in Session /\ t.object = [s.object EXCEPT ![r] = row] /\ t.loaded = s.loaded
      /\ t.step = "release" /\ t.kind = s.kind /\ t.at = r /\ t.todo = s.todo
      /\ t.lobject = s.lobject /\ t.lloaded = s.lloaded
  BY <1>2, <1>3, <1>5, <1>6, <1>7 DEF Set, Session
<1>9. \A x \in Res : t.object[x].status = s.object[x].status
  BY <1>3, <1>5, <1>6, <1>8
<1>10. WorksOnRows(t, db) /\ LocksOnInsert(t) /\ db[r].status # "absent"
  BY <1>2, <1>3, <1>8, <1>9 DEF WorksOnRows, LocksOnInsert
<1>11. \A x \in Res : Blind(t, x) => Blind(s, x)
  BY <1>2, <1>3, <1>8, <1>9 DEF Blind
<1>12. UNCHANGED <<db, listing>>
  BY DEF Release
<1>13. CASE s.kind = "outcome"
  <2>1. PICK u : u = Proceed(t, r)
    OBVIOUS
  <2>2. /\ u.loaded = t.loaded /\ u.object = t.object
        /\ u.todo = s.todo \ {r} /\ u.step \in {"commit", "visit"}
    BY <1>3, <1>8, <2>1, ProceedSound
  <2>3. u.lobject = t.lobject /\ u.lloaded = t.lloaded
    BY <1>8, <2>1 DEF Proceed, Session
  <2>4. WorksOnRows(u, db)
    BY <1>8, <1>10, <2>2 DEF WorksOnRows
  <2>5. ClosesWithCar(u)
    BY <1>3, <1>8, <1>9, <1>13, <2>2, <2>3 DEF ClosesWithCar
  <2>6. LocksOnInsert(u)
    BY <1>3, <1>8, <2>2, <2>3 DEF LocksOnInsert
  <2>7. \A x \in Res : Blind(u, x) => Blind(s, x)
    BY <1>8, <1>11, <2>2, <2>3 DEF Blind
  <2>8. Become(p, u)
    BY <1>1, <1>2, <1>4, <1>7, <1>13, <2>1 DEF Release
  <2> QED BY <1>1, <1>12, <2>4, <2>5, <2>6, <2>7, <2>8, LockTurn DEF Tidy, NoNewThreat
<1>14. CASE s.kind # "outcome"
  <2>1. ClosesBut(t, ListingOf[r])
    BY <1>2, <1>3, <1>8, <1>9 DEF ClosesBut, ClosesWithCar
  <2>2. PICK u : u = Cancelled(t, r)
    OBVIOUS
  <2>3. /\ Tidy(u, db)
        /\ \A x \in Res : Blind(u, x) =>
             Blind(t, x) \/ (x = r /\ t.lloaded[ListingOf[r]] # "reserved")
    BY <1>3, <1>8, <1>10, <2>1, <2>2, CancelledTidy
  <2>4. \A x \in Res : Blind(u, x) => Blind(s, x)
    BY <1>2, <1>3, <1>8, <1>11, <1>14, <2>3 DEF Blind
  <2>5. Become(p, u)
    BY <1>1, <1>2, <1>4, <1>7, <1>14, <2>2 DEF Release
  <2> QED BY <1>1, <1>12, <2>3, <2>4, <2>5, LockTurn DEF NoNewThreat
<1> QED BY <1>13, <1>14

-----------------------------------------------------------------------------
(* The other loads and steps *)

LEMMA PlainLoadLocks ==
  ASSUME IInv, LockInv, NEW p \in Procs, NEW kind \in Kinds, NEW R \in SUBSET Res,
         \A r \in R : db[r].status # "absent",
         Become(p, Loaded(kind, "visit", R)), UNCHANGED <<db, listing>>
  PROVE  LockInv'
<1>1. PICK t : t = Loaded(kind, "visit", R)
  OBVIOUS
<1>2. /\ \A r \in Res : t.object[r].status = t.loaded[r].status
      /\ \A r \in Res : db[r].status = "absent" => t.object[r].status = "absent"
      /\ t.lobject = NoListings /\ t.step = "visit" /\ t.todo = R
  BY <1>1, TidyLoaded
<1>3. WorksOnRows(t, db)
  BY <1>2 DEF WorksOnRows, _TERMINAL
<1> QED BY <1>1, <1>2, <1>3, LockFresh

LEMMA JobLocks ==
  ASSUME IInv, LockInv, NEW p \in Procs,
         (\E r \in Res : DeclineLoad(p, r)) \/ ExpireLoad(p) \/ FinalizeLoad(p)
  PROVE  LockInv'
<1>1. ASSUME NEW r \in Res, DeclineLoad(p, r) PROVE LockInv'
  BY <1>1, PlainLoadLocks DEF DeclineLoad, Kinds, OpenStatuses
<1>2. CASE ExpireLoad(p)
  BY <1>2, PlainLoadLocks DEF ExpireLoad, Expired, Kinds
<1>3. CASE FinalizeLoad(p)
  BY <1>3, PlainLoadLocks DEF FinalizeLoad, Kinds
<1> QED BY <1>1, <1>2, <1>3

LEMMA ReconcileLoadLocks ==
  ASSUME IInv, LockInv, NEW p \in Procs, ReconcileLoad(p)
  PROVE  LockInv'
<1>1. PICK R : R = {r \in Res : Unreleased(r)}
  OBVIOUS
<1>2. PICK written : written = {r \in R : clock[r].age = "grace"}
  OBVIOUS
<1>3. R \in SUBSET Res /\ \A r \in R : db[r].status # "absent"
  BY <1>1 DEF Unreleased
<1>4. PICK s : s = Loaded("reconcile", "visit", R)
  OBVIOUS
<1>5. /\ \A r \in Res : s.object[r].status = s.loaded[r].status
      /\ \A r \in Res : db[r].status = "absent" => s.object[r].status = "absent"
      /\ s.lobject = NoListings /\ s \in Session
  BY <1>3, <1>4, TidyLoaded, LoadedSound DEF Kinds, Steps
<1>6. PICK objects : objects = [r \in Res |-> IF r \in written
                                              THEN [s.object[r] EXCEPT !.released = TRUE]
                                              ELSE s.object[r]]
  OBVIOUS
<1>7. \A r \in Res : objects[r].status = s.object[r].status
  BY <1>5, <1>6 DEF Session, Row
<1>8. PICK t : t = [s EXCEPT !.todo = R \ written,
                             !.step = IF R = written THEN "commit" ELSE "visit",
                             !.object = objects]
  OBVIOUS
<1>9. /\ t.object = objects /\ t.loaded = s.loaded /\ t.lobject = NoListings
      /\ t.todo \subseteq R /\ t.step \in {"commit", "visit"}
  BY <1>5, <1>8 DEF Session
<1>10. WorksOnRows(t, db)
  BY <1>3, <1>5, <1>7, <1>9 DEF WorksOnRows, _TERMINAL
<1>11. \A r \in Res : t.object[r].status = t.loaded[r].status
  BY <1>5, <1>7, <1>9
<1>12. Become(p, t) /\ UNCHANGED <<db, listing>>
  BY <1>1, <1>2, <1>4, <1>6, <1>8 DEF ReconcileLoad
<1> QED BY <1>9, <1>10, <1>11, <1>12, LockFresh

\* A session of which nothing but columns beside the status of an object changed
LEMMA LockSame ==
  ASSUME IInv, LockInv, NEW p \in Procs, NEW t, Become(p, t), UNCHANGED <<db, listing>>,
         t.step \in {"commit", "visit"}, t.todo \subseteq sess[p].todo, t.loaded = sess[p].loaded,
         t.lobject = sess[p].lobject, t.lloaded = sess[p].lloaded,
         t.step = "visit" => sess[p].step = "visit",
         sess[p].step \in {"visit", "hold"},
         \A r \in Res : t.object[r].status = sess[p].object[r].status
  PROVE  LockInv'
<1>1. PICK s : s = sess[p]
  OBVIOUS
<1>2. WorksOnRows(s, db) /\ ClosesWithCar(s) /\ LocksOnInsert(s)
  BY <1>1, TidySession
<1>3. WorksOnRows(t, db)
  BY <1>1, <1>2 DEF WorksOnRows
<1>4. ClosesWithCar(t)
  BY <1>1, <1>2 DEF ClosesWithCar
<1>5. LocksOnInsert(t)
  BY <1>1, <1>2 DEF LocksOnInsert
<1>6. NoNewThreat(s, t)
  BY <1>1 DEF NoNewThreat, Blind
<1> QED BY <1>1, <1>3, <1>4, <1>5, <1>6, LockTurn DEF Tidy

LEMMA ReconcileReleaseLocks ==
  ASSUME IInv, LockInv, NEW p \in Procs, NEW r \in Res, NEW reply, ReconcileRelease(p, r, reply)
  PROVE  LockInv'
<1>1. PICK s : s = sess[p]
  OBVIOUS
<1>2. s \in Session /\ s.step = "visit" /\ s.object \in [Res -> Row]
  BY <1>1, FromIInv DEF ReconcileRelease, Session
<1>3. PICK row : row = [s.object[r] EXCEPT !.released = @ \/ reply # "transient"]
  OBVIOUS
<1>4. row.status = s.object[r].status
  BY <1>2, <1>3 DEF Row
<1>5. PICK u : u = Proceed(s, r)
  OBVIOUS
<1>6. /\ u \in Session /\ u.loaded = s.loaded /\ u.object = s.object
      /\ u.step \in {"commit", "visit"} /\ u.todo = s.todo \ {r}
      /\ u.lobject = s.lobject /\ u.lloaded = s.lloaded
  <2>1. u.lobject = s.lobject /\ u.lloaded = s.lloaded
    BY <1>2, <1>5 DEF Proceed, Session
  <2> QED BY <1>2, <1>5, <2>1, ProceedSound
<1>7. PICK t : t = Set(u, r, row)
  OBVIOUS
<1>8. /\ t.object = [s.object EXCEPT ![r] = row] /\ t.loaded = s.loaded
      /\ t.step = u.step /\ t.todo = u.todo
      /\ t.lobject = s.lobject /\ t.lloaded = s.lloaded
  BY <1>6, <1>7 DEF Set, Session
<1>9. \A x \in Res : t.object[x].status = s.object[x].status
  BY <1>2, <1>4, <1>8
<1>10. Become(p, t) /\ UNCHANGED <<db, listing>>
  BY <1>1, <1>3, <1>5, <1>7 DEF ReconcileRelease
<1> QED BY <1>1, <1>2, <1>6, <1>8, <1>9, <1>10, LockSame

LEMMA CreateHoldLocks ==
  ASSUME IInv, LockInv, NEW p \in Procs, CreateHold(p)
  PROVE  LockInv'
<1>1. PICK s : s = sess[p]
  OBVIOUS
<1>2. PICK r : r = s.at
  OBVIOUS
<1>3. s \in Session /\ s.step = "hold" /\ r \in Res /\ s.object \in [Res -> Row]
  BY <1>1, <1>2, FromIInv DEF CreateHold, StepSound, Session
<1>4. PICK row : row = [s.object[r] EXCEPT !.paid_by = TRUE]
  OBVIOUS
<1>5. row.status = s.object[r].status
  BY <1>3, <1>4 DEF Row
<1>6. PICK t : t = [Set(s, r, row) EXCEPT !.step = "commit"]
  OBVIOUS
<1>7. /\ t.object = [s.object EXCEPT ![r] = row] /\ t.loaded = s.loaded
      /\ t.step = "commit" /\ t.todo = s.todo
      /\ t.lobject = s.lobject /\ t.lloaded = s.lloaded
  BY <1>3, <1>6 DEF Set, Session
<1>8. \A x \in Res : t.object[x].status = s.object[x].status
  BY <1>3, <1>5, <1>7
<1>9. Become(p, t) /\ UNCHANGED <<db, listing>>
  BY <1>1, <1>2, <1>4, <1>6 DEF CreateHold
<1> QED BY <1>1, <1>3, <1>7, <1>8, <1>9, LockSame

LEMMA ReserveRefreshLocks ==
  ASSUME IInv, LockInv, NEW p \in Procs, ReserveRefresh(p)
  PROVE  LockInv'
<1>1. PICK s : s = sess[p]
  OBVIOUS
<1>2. PICK r : r = s.at
  OBVIOUS
<1>3. /\ s \in Session /\ s.step = "refresh" /\ r \in Res
      /\ WorksOnRows(s, db) /\ ClosesWithCar(s) /\ LocksOnInsert(s)
  BY <1>1, <1>2, FromIInv, TidySession DEF ReserveRefresh, StepSound
<1>4. s.object \in [Res -> Row] /\ s.loaded \in [Res -> Row]
  BY <1>3 DEF Session
<1>5. CASE Finish(p)
  BY <1>5, LockFinish DEF ReserveRefresh
<1>6. CASE Exists(db[r])
  <2>1. PICK t : t = [s EXCEPT !.step = "hold", !.loaded[r] = db[r], !.object[r] = db[r]]
    OBVIOUS
  <2>2. /\ t.object = [s.object EXCEPT ![r] = db[r]] /\ t.loaded = [s.loaded EXCEPT ![r] = db[r]]
        /\ t.step = "hold" /\ t.at = r /\ t.kind = s.kind /\ t.todo = s.todo
        /\ t.lobject = s.lobject /\ t.lloaded = s.lloaded
    BY <1>2, <1>3, <2>1 DEF Session
  <2>3. /\ t.object[r] = db[r] /\ t.loaded[r] = db[r]
        /\ \A x \in Res : x # r => t.object[x] = s.object[x] /\ t.loaded[x] = s.loaded[x]
    BY <1>3, <1>4, <2>2
  <2>4. WorksOnRows(t, db)
    BY <1>2, <1>3, <2>2, <2>3 DEF WorksOnRows, _TERMINAL
  <2>5. ClosesWithCar(t)
    BY <1>3, <2>2, <2>3 DEF ClosesWithCar
  <2>6. LocksOnInsert(t)
    BY <1>2, <1>3, <2>2 DEF LocksOnInsert
  <2>7. NoNewThreat(s, t)
    BY <1>3, <2>2, <2>3 DEF NoNewThreat, Blind
  <2>8. Become(p, t) /\ UNCHANGED <<db, listing>>
    BY <1>1, <1>2, <1>6, <2>1 DEF ReserveRefresh
  <2> QED BY <1>1, <2>4, <2>5, <2>6, <2>7, <2>8, LockTurn DEF Tidy
<1> QED BY <1>1, <1>2, <1>5, <1>6 DEF ReserveRefresh

LEMMA ConfirmLoadLocks ==
  ASSUME IInv, LockInv, NEW p \in Procs, ConfirmLoad(p)
  PROVE  LockInv'
<1>1. PICK r : r = sess[p].at
  OBVIOUS
<1>2. r \in Res /\ db[r] \in Row
  BY <1>1, FromIInv DEF ConfirmLoad, StepSound
<1>3. CASE Finish(p)
  BY <1>3, LockFinish DEF ConfirmLoad
<1>4. CASE db[r].paid_by /\ CanConfirm(db[r])
  <2>1. PICK row : row = confirm_hold(db[r])
    OBVIOUS
  <2>2. row \in Row /\ row.status = "active" /\ db[r].status = "pending_payment"
    BY <1>2, <1>4, <2>1 DEF confirm_hold, CanConfirm, Row, OpenStatuses
  <2>3. PICK v : v = Loaded("confirm", "commit", {r})
    OBVIOUS
  <2>4. v \in Session /\ v.step = "commit"
    BY <1>2, <2>3, LoadedSound DEF Kinds, Steps
  <2>5. PICK t : t = Set(v, r, row)
    OBVIOUS
  <2>6. t \in Session /\ t.step = "commit"
    BY <1>2, <2>2, <2>4, <2>5 DEF Set, Session
  <2>7. Become(p, t) /\ UNCHANGED <<db, listing>>
    BY <1>1, <1>4, <2>1, <2>3, <2>5 DEF ConfirmLoad
  <2> QED BY <1>2, <2>2, <2>3, <2>5, <2>6, <2>7, LockLoaded DEF OpenStatuses, Kinds
<1> QED BY <1>1, <1>3, <1>4 DEF ConfirmLoad

\* A row of the table, with the columns beside its status changed, to be visited next
LEMMA LockVisit ==
  ASSUME IInv, LockInv, NEW p \in Procs, NEW kind \in Kinds, NEW r \in Res, NEW row \in Row,
         db[r].status \in OpenStatuses, row.status = db[r].status,
         NEW delay \in BOOLEAN,
         \/ Become(p, Set(Loaded(kind, "visit", {r}), r, row))
         \/ Become(p, [Set(Loaded(kind, "visit", {r}), r, row) EXCEPT !.delay = delay]),
         UNCHANGED <<db, listing>>
  PROVE  LockInv'
<1>1. PICK v : v = Loaded(kind, "visit", {r})
  OBVIOUS
<1>2. v \in Session /\ v.step = "visit" /\ v.todo = {r}
  BY <1>1, LoadedSound DEF Steps
<1>3. PICK t : t = Set(v, r, row)
  OBVIOUS
<1>4. t \in Session /\ t.step = "visit" /\ t.todo = {r}
  BY <1>2, <1>3 DEF Set, Session
<1>5. PICK u : u = [t EXCEPT !.delay = delay]
  OBVIOUS
<1>6. /\ u.step = "visit" /\ u.todo = {r}
      /\ u.object = t.object /\ u.loaded = t.loaded /\ u.lobject = t.lobject
  BY <1>4, <1>5 DEF Session
<1>7. db[r].status # "absent"
  BY DEF OpenStatuses
<1>8. CASE Become(p, t)
  BY <1>1, <1>3, <1>4, <1>7, <1>8, LockLoaded
<1>9. CASE Become(p, u)
  BY <1>1, <1>3, <1>4, <1>6, <1>7, <1>9, LockLoaded
<1> QED BY <1>1, <1>3, <1>5, <1>8, <1>9

LEMMA ReleasedEventLocks ==
  ASSUME IInv, LockInv, NEW p \in Procs, NEW r \in Res, ReleasedEvent(p, r)
  PROVE  LockInv'
<1>1. CASE Finish(p)
  BY <1>1, LockFinish DEF ReleasedEvent
<1>2. CASE db[r].paid_by /\ db[r].status \in OpenStatuses
  <2>1. PICK row : row = [db[r] EXCEPT !.released = TRUE]
    OBVIOUS
  <2>2. row \in Row /\ row.status = db[r].status
    BY <2>1, FromIInv DEF Row
  <2>3. Become(p, Set(Loaded("webhook_released", "visit", {r}), r, row))
    BY <1>2, <2>1 DEF ReleasedEvent
  <2> QED BY <1>2, <2>2, <2>3, LockVisit DEF ReleasedEvent, Kinds
<1> QED BY <1>1, <1>2 DEF ReleasedEvent, Finish

LEMMA CancelLoadLocks ==
  ASSUME IInv, LockInv, NEW p \in Procs, NEW r \in Res, NEW delay \in BOOLEAN,
         CancelLoad(p, r, delay)
  PROVE  LockInv'
<1>1. PICK row : row = [db[r] EXCEPT !.due = @ \/ delay]
  OBVIOUS
<1>2. db[r] \in Row
  BY FromIInv
<1>3. row.status = db[r].status
  BY <1>1, <1>2 DEF Row
<1>4. row \in Row
  <2>1. (db[r].due \/ delay) \in BOOLEAN
    OBVIOUS
  <2> QED BY <1>1, <1>2, <2>1 DEF Row
<1>5. Become(p, [Set(Loaded("cancel", "visit", {r}), r, row) EXCEPT !.delay = delay])
  BY <1>1 DEF CancelLoad
<1> QED BY <1>3, <1>4, <1>5, LockVisit DEF CancelLoad, Kinds

LEMMA OutcomeLoadLocks ==
  ASSUME IInv, LockInv, NEW p \in Procs, NEW r \in Res, NEW party \in Parties,
         NEW result \in Outcomes, OutcomeLoad(p, r, party, result)
  PROVE  LockInv'
<1>1. db[r] \in Row
  BY FromIInv
<1>2. PICK marked : marked = FirstMark(db[r], result)
  OBVIOUS
<1>3. PICK corrected : corrected = Correct(db[r], party, result)
  OBVIOUS
<1>4. /\ marked \in Row /\ marked.status = "settling"
      /\ corrected \in Row /\ corrected.status = db[r].status
  BY <1>1, <1>2, <1>3 DEF FirstMark, Correct, Row, OpenStatuses
<1>5. PICK v : v = Loaded("outcome", "commit", {r})
  OBVIOUS
<1>6. v \in Session /\ v.step = "commit" /\ v.kind = "outcome" /\ v.todo = {r}
  BY <1>5, LoadedSound DEF Kinds, Steps
<1>7. ASSUME NEW row \in Row
      PROVE  /\ Set(v, r, row) \in Session /\ Set(v, r, row).step = "commit"
             /\ Set(v, r, row).kind = "outcome" /\ Set(v, r, row).todo = {r}
  BY <1>6 DEF Set, Session
<1>8. UNCHANGED <<db, listing>>
  BY DEF OutcomeLoad
<1>9. CASE Become(p, Set(v, r, corrected)) /\ db[r].status = "settling"
  <2>1. PICK t : t = Set(v, r, corrected)
    OBVIOUS
  <2>2. /\ t \in Session /\ t = Set(Loaded("outcome", "commit", {r}), r, corrected)
        /\ t.step = "commit" /\ Become(p, t) /\ db[r].status # "absent"
    BY <1>4, <1>5, <1>7, <1>9, <2>1
  <2> QED BY <1>4, <1>8, <2>2, LockLoaded DEF Kinds
<1>10. CASE Become(p, Set(v, r, marked)) /\ db[r].status = "active"
  <2>1. PICK t : t = Set(v, r, marked)
    OBVIOUS
  <2>2. /\ t \in Session /\ t = Set(Loaded("outcome", "commit", {r}), r, marked)
        /\ t.step = "commit" /\ Become(p, t) /\ db[r].status # "absent"
    BY <1>4, <1>5, <1>7, <1>10, <2>1
  <2> QED BY <1>4, <1>8, <2>2, LockLoaded DEF Kinds, OpenStatuses
<1>11. CASE /\ Become(p, [Set(v, r, marked) EXCEPT !.step = "release", !.at = r])
            /\ db[r].status = "active"
  <2>1. PICK t : t = Set(v, r, marked)
    OBVIOUS
  <2>2. PICK u : u = [t EXCEPT !.step = "release", !.at = r]
    OBVIOUS
  <2>3. /\ u.step = "release" /\ u.at = r /\ u.kind = "outcome" /\ u.todo = {r}
        /\ u.object = t.object /\ u.loaded = t.loaded /\ u.lobject = t.lobject
    BY <1>4, <1>7, <2>1, <2>2 DEF Session
  <2>4. /\ t \in Session /\ t = Set(Loaded("outcome", "commit", {r}), r, marked)
        /\ Become(p, u) /\ db[r].status # "absent"
    BY <1>4, <1>5, <1>7, <1>11, <2>1, <2>2
  <2> QED BY <1>4, <1>8, <2>3, <2>4, LockLoaded DEF Kinds, OpenStatuses
<1> QED BY <1>2, <1>3, <1>5, <1>9, <1>10, <1>11 DEF OutcomeLoad, CanCorrect

LEMMA DeleteLoadLocks ==
  ASSUME IInv, LockInv, NEW p \in Procs, NEW r \in Res, DeleteLoad(p, r)
  PROVE  LockInv'
<1>1. PICK t : t = [Idle EXCEPT !.kind = "delete", !.step = "delete", !.at = r]
  OBVIOUS
<1>2. /\ t.step = "delete" /\ t.at = r /\ t.object = NoRows /\ t.loaded = NoRows
      /\ t.lobject = NoListings
  BY <1>1 DEF Idle
<1>3. WorksOnRows(t, db)
  BY <1>2 DEF WorksOnRows, NoRows, NoRow, _TERMINAL, DeleteLoad
<1>4. ClosesWithCar(t)
  BY <1>2 DEF ClosesWithCar
<1>5. LocksOnInsert(t)
  BY <1>2 DEF LocksOnInsert, NoListings
<1>6. NoNewThreat(sess[p], t)
  BY <1>2 DEF NoNewThreat, Blind, DeleteLoad, OpenStatuses, NoRows, NoRow, _TERMINAL
<1> QED BY <1>1, <1>3, <1>4, <1>5, <1>6, LockTurn DEF DeleteLoad, Tidy

-----------------------------------------------------------------------------
(* The writers of the table, and the theorem *)

\* Rows appear and disappear, but no row becomes absent again.
LEMMA LockWrite ==
  ASSUME IInv, LockInv, NEW p \in Procs, NEW t, Become(p, t),
         \A r \in Res : db'[r].status = "absent" => db[r].status = "absent",
         Tidy(t, db'), LockOwned'
  PROVE  LockInv'
<1>1. /\ sess'[p] = t
      /\ \A q \in Procs : q # p => sess'[q] = sess[q]
  BY DEF Become, IInv, TypeOK
<1>2. ASSUME NEW q \in Procs PROVE Tidy(sess'[q], db')
  <2>1. CASE q = p
    BY <1>1, <2>1
  <2>2. CASE q # p
    BY <1>1, <2>2, TidySession DEF Tidy, WorksOnRows
  <2> QED BY <2>1, <2>2
<1> QED BY <1>2 DEF LockInv, SessionsClose, Tidy, WorksOnRows, ClosesWithCar, LocksOnInsert

LEMMA ReserveInsertLocks ==
  ASSUME IInv, LockInv, NEW p \in Procs, ReserveInsert(p)
  PROVE  LockInv'
<1>1. PICK s : s = sess[p]
  OBVIOUS
<1>2. PICK r : r = s.at
  OBVIOUS
<1>3. /\ s \in Session /\ r \in Res /\ s.step = "insert" /\ db[r] = NoRow
      /\ s.object[r] = build_reservation
      /\ WorksOnRows(s, db) /\ ClosesWithCar(s) /\ LocksOnInsert(s)
  BY <1>1, <1>2, FromIInv, TidySession DEF ReserveInsert, StepSound
<1>4. ListingOf[r] \in Listings /\ listing \in [Listings -> ListingStatus] /\ db \in [Res -> Row]
  BY <1>3, ListingOfAssumption DEF IInv, TypeOK
<1>5. CASE Finish(p) /\ UNCHANGED <<db, listing>>
  BY <1>5, LockFinish
<1>6. CASE /\ db' = [db EXCEPT ![r] = s.object[r]]
           /\ listing' = [listing EXCEPT ![ListingOf[r]] = s.lobject[ListingOf[r]]]
           /\ Become(p, [s EXCEPT !.step = "refresh", !.lloaded = s.lobject])
  <2>1. PICK t : t = [s EXCEPT !.step = "refresh", !.lloaded = s.lobject]
    OBVIOUS
  <2>2. /\ t.step = "refresh" /\ t.at = r /\ t.kind = "reserve" /\ t.todo = s.todo
        /\ t.object = s.object /\ t.loaded = s.loaded
        /\ t.lobject = s.lobject /\ t.lloaded = s.lobject
    BY <1>2, <1>3, <2>1 DEF Session, LocksOnInsert
  <2>3. \A x \in Res : s.object[x].status \notin _TERMINAL
    BY <1>3 DEF LocksOnInsert
  <2>4. /\ db'[r].status = "pending_payment"
        /\ \A x \in Res : x # r => db'[x] = db[x]
    BY <1>3, <1>4, <1>6 DEF build_reservation, NoRow
  <2>5. /\ s.lobject[ListingOf[r]] = "reserved"
        /\ \A l \in Listings : l # ListingOf[r] => listing'[l] = listing[l]
    BY <1>2, <1>3, <1>4, <1>6 DEF LocksOnInsert
  <2>6. WorksOnRows(t, db')
    <3> SUFFICES ASSUME NEW x \in Res, db'[x].status = "absent"
                 PROVE  t.object[x].status \notin _TERMINAL /\ t.at # x /\ x \notin t.todo
      BY DEF WorksOnRows
    <3>1. x # r /\ db[x].status = "absent"
      BY <2>4
    <3>2. x \notin s.todo
      BY <1>2, <1>3, <3>1 DEF LocksOnInsert
    <3> QED BY <2>2, <2>3, <3>1, <3>2
  <2>7. ClosesWithCar(t)
    BY <1>3, <2>2, <2>3 DEF ClosesWithCar
  <2>8. LocksOnInsert(t)
    BY <2>2, <2>5 DEF LocksOnInsert
  <2>9. Become(p, t)
    BY <1>6, <2>1
  <2>10. /\ sess'[p] = t
         /\ \A q \in Procs : q # p => sess'[q] = sess[q]
    BY <2>9 DEF Become, IInv, TypeOK
  <2>11. ASSUME NEW l \in Listings, listing'[l] = "reserved"
         PROVE  \E x \in OnListing(l) : /\ db'[x].status \in OpenStatuses
                                        /\ \A q \in Procs : ~Blind(sess'[q], x)
    <3>1. CASE l = ListingOf[r]
      <4>1. r \in OnListing(l) /\ db'[r].status \in OpenStatuses
        BY <1>3, <2>4, <3>1 DEF OnListing, OpenStatuses
      <4>2. ASSUME NEW q \in Procs, q # p PROVE ~Blind(sess[q], r)
        BY <1>3, TidySession DEF WorksOnRows, Blind, NoRow
      <4>3. ~Blind(t, r)
        BY <1>3, <2>2, <2>3 DEF Blind
      <4> QED BY <2>10, <4>1, <4>2, <4>3
    <3>2. CASE l # ListingOf[r]
      <4>1. PICK x \in OnListing(l) : /\ db[x].status \in OpenStatuses
                                      /\ \A q \in Procs : ~Blind(sess[q], x)
        BY <2>5, <2>11, <3>2 DEF LockInv, LockOwned
      <4>2. x \in Res /\ x # r
        BY <3>2, <4>1 DEF OnListing
      <4>3. ~Blind(t, x)
        BY <2>2, <2>3, <4>2 DEF Blind
      <4> QED BY <2>4, <2>10, <4>1, <4>2, <4>3
    <3> QED BY <3>1, <3>2
  <2>12. LockOwned'
    BY <2>11 DEF LockOwned, OnListing, Blind
  <2> QED BY <2>4, <2>6, <2>7, <2>8, <2>9, <2>12, LockWrite DEF Tidy
<1> QED BY <1>1, <1>2, <1>5, <1>6 DEF ReserveInsert

\* A commit that writes a closed row over an open one takes the lock off.
LEMMA CommitLocks ==
  ASSUME IInv, LockInv, NEW p \in Procs, Commit(p)
  PROVE  LockInv'
<1>1. PICK s : s = sess[p]
  OBVIOUS
<1>2. /\ s \in Session /\ s.step = "commit"
      /\ WorksOnRows(s, db) /\ ClosesWithCar(s) /\ LocksOnInsert(s)
  BY <1>1, TidySession DEF Commit
<1>3. /\ db' = RowsAfter(s) /\ Become(p, Idle)
      /\ listing' = [l \in Listings |-> IF l \in DirtyListings(s)
                                        THEN s.lobject[l] ELSE listing[l]]
  BY <1>1 DEF Commit, Finish
<1>4. ASSUME NEW r \in Res
      PROVE  /\ db'[r].status = db[r].status \/ db'[r].status = s.object[r].status
             /\ db'[r].status # db[r].status => s.object[r].status # s.loaded[r].status
  BY <1>3 DEF RowsAfter, Flush, Column
<1>5. \A r \in Res : db'[r].status = "absent" => db[r].status = "absent"
  BY <1>2, <1>4 DEF ClosesWithCar, OpenStatuses, _TERMINAL
<1>6. ASSUME NEW l \in Listings, listing'[l] = "reserved"
      PROVE  listing[l] = "reserved" /\ s.lobject[l] = s.lloaded[l]
  BY <1>2, <1>3, <1>6 DEF DirtyListings, LocksOnInsert
<1>7. /\ sess'[p] = Idle
      /\ \A q \in Procs : q # p => sess'[q] = sess[q]
  BY <1>3 DEF Become, IInv, TypeOK
<1>8. ASSUME NEW l \in Listings, listing'[l] = "reserved"
      PROVE  \E r \in OnListing(l) : /\ db'[r].status \in OpenStatuses
                                     /\ \A q \in Procs : ~Blind(sess'[q], r)
  <2>1. PICK r \in OnListing(l) : /\ db[r].status \in OpenStatuses
                                  /\ \A q \in Procs : ~Blind(sess[q], r)
    BY <1>6, <1>8 DEF LockInv, LockOwned
  <2>2. r \in Res /\ ListingOf[r] = l
    BY <2>1 DEF OnListing
  <2>3. db'[r].status \in OpenStatuses
    <3> SUFFICES ASSUME s.object[r].status \in _TERMINAL,
                        s.object[r].status # s.loaded[r].status
                 PROVE  FALSE
      BY <1>2, <1>4, <2>1, <2>2 DEF ClosesWithCar
    <3>1. s.lloaded[l] = "reserved"
      BY <1>1, <2>1, <2>2 DEF Blind
    <3>2. s.lobject[l] # "reserved"
      BY <1>2, <2>2 DEF ClosesWithCar, OpenStatuses, _TERMINAL
    <3> QED BY <1>6, <1>8, <3>1, <3>2
  <2>4. \A q \in Procs : ~Blind(sess'[q], r)
    BY <1>7, <2>1, <2>2, TidyIdle
  <2> QED BY <2>1, <2>3, <2>4
<1>9. LockOwned'
  BY <1>8 DEF LockOwned, OnListing, Blind
<1> QED BY <1>3, <1>5, <1>9, TidyIdle, LockWrite

LEMMA DeleteCommitLocks ==
  ASSUME IInv, LockInv, NEW p \in Procs, DeleteCommit(p)
  PROVE  LockInv'
<1>1. PICK x : x = sess[p].at
  OBVIOUS
<1>2. x \in Res /\ sess[p].step = "delete" /\ db \in [Res -> Row]
  BY <1>1, FromIInv DEF DeleteCommit, StepSound, IInv, TypeOK
<1>3. /\ db' = [db EXCEPT ![x] = IF Exists(db[x]) THEN Deleted(db[x]) ELSE db[x]]
      /\ Become(p, Idle) /\ listing' = listing
  BY <1>1 DEF DeleteCommit, Finish
<1>4. /\ db'[x] \in {db[x], Deleted(db[x])}
      /\ \A r \in Res : r # x => db'[r] = db[r]
  BY <1>2, <1>3
<1>5. \A r \in Res : db'[r].status = "absent" => db[r].status = "absent"
  BY <1>4 DEF Deleted, NoRow
<1>6. /\ sess'[p] = Idle
      /\ \A q \in Procs : q # p => sess'[q] = sess[q]
  BY <1>3 DEF Become, IInv, TypeOK
<1>7. ASSUME NEW l \in Listings, listing'[l] = "reserved"
      PROVE  \E r \in OnListing(l) : /\ db'[r].status \in OpenStatuses
                                     /\ \A q \in Procs : ~Blind(sess'[q], r)
  <2>1. PICK r \in OnListing(l) : /\ db[r].status \in OpenStatuses
                                  /\ \A q \in Procs : ~Blind(sess[q], r)
    BY <1>3, <1>7 DEF LockInv, LockOwned
  <2>2. r \in Res /\ r # x
    BY <1>1, <1>2, <2>1 DEF OnListing, Blind
  <2>3. \A q \in Procs : ~Blind(sess'[q], r)
    BY <1>6, <2>1, <2>2, TidyIdle
  <2> QED BY <1>4, <2>1, <2>2, <2>3
<1>8. LockOwned'
  BY <1>7 DEF LockOwned, OnListing, Blind
<1> QED BY <1>3, <1>5, <1>8, TidyIdle, LockWrite

LEMMA NextLocks == ASSUME IInv, LockInv, [Next]_vars PROVE LockInv'
<1>1. ASSUME NEW p \in Requests, Request(p) PROVE LockInv'
  <2>0. p \in Procs
    BY DEF Procs
  <2>1. PICK r \in Res :
          \/ ReserveLock(p, r) \/ RecoverLock(p, r)
          \/ ConfirmEvent(p, r) \/ ReturnPage(p, r) \/ ReleasedEvent(p, r)
          \/ CancelLoad(p, r, FALSE) \/ CancelLoad(p, r, TRUE) \/ DeclineLoad(p, r)
          \/ \E party \in Parties, result \in Outcomes : OutcomeLoad(p, r, party, result)
          \/ DeleteLoad(p, r)
    BY <1>1 DEF Request
  <2>2. CASE ReserveLock(p, r) \/ RecoverLock(p, r)
    BY <2>0, <2>2, ReserveLockLocks, RecoverLockLocks
  <2>3. CASE ConfirmEvent(p, r) \/ ReturnPage(p, r) \/ ReleasedEvent(p, r)
    BY <2>0, <2>3, AwaitLocks, ReleasedEventLocks
  <2>4. CASE CancelLoad(p, r, FALSE) \/ CancelLoad(p, r, TRUE)
    BY <2>0, <2>4, CancelLoadLocks
  <2>5. CASE DeclineLoad(p, r) \/ DeleteLoad(p, r)
    BY <2>0, <2>5, JobLocks, DeleteLoadLocks
  <2>6. CASE \E party \in Parties, result \in Outcomes : OutcomeLoad(p, r, party, result)
    BY <2>0, <2>6, OutcomeLoadLocks
  <2> QED BY <2>1, <2>2, <2>3, <2>4, <2>5, <2>6
<1>2. ASSUME NEW p \in Workers, Job(p) PROVE LockInv'
  BY <1>2, JobLocks, ReconcileLoadLocks DEF Job, Procs
<1>3. ASSUME NEW p \in Procs, Continue(p) PROVE LockInv'
  <2>1. CASE ReserveInsert(p) \/ ReserveRefresh(p) \/ CreateHold(p) \/ CreateHoldFails(p)
    BY <2>1, ReserveInsertLocks, ReserveRefreshLocks, CreateHoldLocks, CreateHoldFailsLocks
  <2>2. CASE ConfirmLoad(p)
    BY <2>2, ConfirmLoadLocks
  <2>3. CASE \E r \in Res : VisitListing(p, r) \/ FinalizeVisit(p, r)
    BY <2>3, VisitListingLocks, FinalizeVisitLocks
  <2>4. CASE \E reply \in Replies : Release(p, reply)
    BY <2>4, ReleaseLocks
  <2>5. CASE \E r \in Res, reply \in Replies : ReconcileRelease(p, r, reply)
    BY <2>5, ReconcileReleaseLocks
  <2>6. CASE Commit(p) \/ DeleteCommit(p)
    BY <2>6, CommitLocks, DeleteCommitLocks
  <2>7. CASE CommitFails(p)
    BY <2>7, LockFinish DEF CommitFails
  <2> QED BY <1>3, <2>1, <2>2, <2>3, <2>4, <2>5, <2>6, <2>7 DEF Continue
<1>4. ASSUME NEW p \in Procs, Crash(p) PROVE LockInv'
  BY <1>4, LockFinish DEF Crash
<1>5. CASE Environment \/ UNCHANGED vars
  <2>1. UNCHANGED <<db, listing, sess>>
    BY <1>5 DEF Environment, Pay, ProviderCancels, AgeElapses, CorrectionElapses, DueElapses, vars
  <2> QED BY <2>1 DEF LockInv, LockOwned, OnListing, Blind, SessionsClose, WorksOnRows,
                      ClosesWithCar, LocksOnInsert
<1> QED BY <1>1, <1>2, <1>3, <1>4, <1>5 DEF Next

LEMMA InitLocks == ASSUME Init PROVE LockInv
<1>1. LockOwned
  BY DEF Init, LockOwned, NoListings
<1>2. \A p \in Procs : sess[p] = Idle
  BY DEF Init
<1>3. SessionsClose
  BY <1>2, TidyIdle DEF SessionsClose, Tidy
<1> QED BY <1>1, <1>3 DEF LockInv

\* A car shown as reserved has an open reservation, for any number of cars,
\* reservations, requests and jobs, any handlers and any number of faults.
THEOREM ReservedAlwaysHasOwner == Spec => []ReservedHasOwner
<1>1. Init => IInv /\ LockInv
  BY InitSound, InitLocks
<1>2. IInv /\ LockInv /\ [Next]_vars => (IInv /\ LockInv)'
  BY NextSound, NextLocks
<1>3. LockInv => ReservedHasOwner
  BY DEF LockInv, LockOwned, ReservedHasOwner, OpenOn, OnListing
<1> QED BY <1>1, <1>2, <1>3, PTL DEF Spec
=============================================================================
