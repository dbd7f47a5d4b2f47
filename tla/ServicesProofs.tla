---------------------------- MODULE ServicesProofs ----------------------------
(***************************************************************************)
(* The services of the server side by side, for any number of rows,         *)
(* sessions and requests: each keeps what is proved of its module.  PayP,   *)
(* SesP and OutP bring the theorems of the parts; the definitions they come *)
(* with are those of Services once both are expanded.  The viewing          *)
(* bookings, the life of the listings and the limit of requests are proved  *)
(* here: two sessions that read a booking, wait and commit never give one   *)
(* window to two visitors, nor delete it under one, and a reservation only  *)
(* one session at a time worked on gives its window back when cancelled.    *)
(***************************************************************************)
EXTENDS Services, FiniteSetTheorems, TLAPS

PayP == INSTANCE CarDetailProofs WITH
  Buyers <- {"b"}, Rids <- Items, Windows <- {}, Calls <- Procs, Returning <- {}, Ends <- {},
  listing <- v1, enabled <- v2, offered <- v3, resv <- v4, pay <- v5, page <- v6, call <- v7,
  linked <- v8, ret <- v9

SesP == INSTANCE SessionsProofs WITH
  MaxTime <- 2, MaxTokens <- 2, MaxChanges <- 2, Kinds <- {"me", "login", "password", "admin"},
  RedisFails <- FALSE,
  now <- v1, row <- v2, changes <- v3, cache <- v4, issued <- v5, black <- v6, op <- v7, over <- v8,
  pwdDone <- v9, spent <- v10, raced <- v11, failed <- v12

OutP == INSTANCE SessionsProofs WITH
  MaxTime <- 1, MaxTokens <- 2, MaxChanges <- 1, Kinds <- {"me", "login", "refresh", "logout"},
  RedisFails <- TRUE,
  now <- v1, row <- v2, changes <- v3, cache <- v4, issued <- v5, black <- v6, op <- v7, over <- v8,
  pwdDone <- v9, spent <- v10, raced <- v11, failed <- v12

\* The life of the listings as the phases of Marketplace show it.
MLife == INSTANCE ListingLifecycle WITH Listings <- Items, phase <- Mkt!phaseOf

-----------------------------------------------------------------------------
\* The part that is open stays open.
LEMMA Stays == [Next]_shell => open' = open
BY DEF Next, Keeps, shell

-----------------------------------------------------------------------------
(* Requests for a car and the provider: the definitions of CarDetailProofs are CarDetail's. *)

LEMMA DepositInit == Pay!Init => PayP!Init
BY DEF Pay!Init, Pay!None, Pay!NoRow, Pay!NoCall, Pay!Away, Pay!Mounted, PayP!Init, PayP!None,
       PayP!NoRow, PayP!NoCall, PayP!Away, PayP!Mounted

LEMMA DepositNext == Pay!Next => PayP!Next
BY DEF Pay!Next, Pay!Reload, Pay!LoadCar, Pay!mapStatus, Pay!LoadWindows, Pay!TogglePanel,
       Pay!FormShown, Pay!SelectWindow, Pay!handleReserve, Pay!payLater, Pay!ReturnRead,
       Pay!ReturnLookup, Pay!ReturnConfirm, Pay!LeaveReturn, Pay!Handle, Pay!ReserveInsert,
       Pay!CreateHold, Pay!GiveUp, Pay!SaveHold, Pay!FindPayment, Pay!ReserveAnswered,
       Pay!CallLost, Pay!Pay, Pay!PaymentExpires, Pay!on_hold_confirmed, Pay!Close,
       Pay!Outcome, Pay!Archive, Pay!Answer, Pay!AfterReserve, Pay!Answers, Pay!OpenRows,
       Pay!TakenWindows, Pay!MayInsert, Pay!Resumable, Pay!Inserted, Pay!Shows, Pay!Mounted,
       Pay!None, Pay!Open, Pay!NoRow, Pay!NoCall, Pay!Away, Pay!server, PayP!Next, PayP!Reload,
       PayP!LoadCar, PayP!mapStatus, PayP!LoadWindows, PayP!TogglePanel, PayP!FormShown,
       PayP!SelectWindow, PayP!handleReserve, PayP!payLater, PayP!ReturnRead,
       PayP!ReturnLookup, PayP!ReturnConfirm, PayP!LeaveReturn, PayP!Handle,
       PayP!ReserveInsert, PayP!CreateHold, PayP!GiveUp, PayP!SaveHold, PayP!FindPayment,
       PayP!ReserveAnswered, PayP!CallLost, PayP!Pay, PayP!PaymentExpires,
       PayP!on_hold_confirmed, PayP!Close, PayP!Outcome, PayP!Archive, PayP!Answer,
       PayP!AfterReserve, PayP!Answers, PayP!OpenRows, PayP!TakenWindows, PayP!MayInsert,
       PayP!Resumable, PayP!Inserted, PayP!Shows, PayP!Mounted, PayP!None, PayP!Open,
       PayP!NoRow, PayP!NoCall, PayP!Away, PayP!server

Deposit == open = "deposit" => PayP!IInv

LEMMA DepositStep == (Init => Deposit) /\ (Deposit /\ [Next]_shell => Deposit')
<1>1. Init => Deposit
  BY DepositInit, PayP!InitIInv DEF Init, Deposit
<1>2. ASSUME Deposit, [Next]_shell, open' = "deposit" PROVE PayP!IInv'
  <2>1. open = "deposit" /\ [PayP!Next]_PayP!vars
    BY <1>2, DepositNext, Stays DEF Next, shell, PayP!vars, PayP!server
  <2> QED
    BY <1>2, <2>1, PayP!Step DEF Deposit
<1> QED
  BY <1>1, <1>2 DEF Deposit

LEMMA DepositKept ==
  Deposit => (open = "deposit" => Pay!TypeOK /\ Pay!OneOpenPerCar /\ Pay!PaidIsRecorded)
<1> SUFFICES ASSUME PayP!IInv PROVE Pay!TypeOK /\ Pay!OneOpenPerCar /\ Pay!PaidIsRecorded
  BY DEF Deposit
<1>1. PayP!TypeOK /\ PayP!OneOpenPerCar /\ PayP!PaidIsRecorded
  BY PayP!Kept
<1>2. Pay!TypeOK
  BY <1>1 DEF Pay!TypeOK, Pay!Open, Pay!None, Pay!Answers, Pay!Shows,
              PayP!TypeOK, PayP!Open, PayP!None, PayP!Answers, PayP!Shows
<1>3. Pay!OneOpenPerCar /\ Pay!PaidIsRecorded
  BY <1>1 DEF Pay!OneOpenPerCar, Pay!OpenRows, Pay!Open, Pay!Cardinality, Pay!PaidIsRecorded,
              PayP!OneOpenPerCar, PayP!OpenRows, PayP!Open, PayP!Cardinality, PayP!PaidIsRecorded
<1> QED
  BY <1>2, <1>3

-----------------------------------------------------------------------------
(* Viewing bookings: v1 is the status of the reservations, v2 the windows offered,
v3 the bookings,  *)
(* v4 what a session has read,
v5 the reservations two sessions worked on at a time.               *)

\* uniq_active_booking, by which OneBookingPerWindow holds
Apart ==
  \A b, c \in Items :
    Vie!Active(b) /\ Vie!Active(c) /\ v3[b].w = v3[c].w => b = c

Placed == \A b \in Items : Vie!Active(b) => v3[b].w \in v2

\* what a session is about, by its kind
Shaped ==
  \A s \in Procs :
    IF v4[s].kind \in {"book", "cancel"} THEN v4[s].r \in Held ELSE v4[s].r = Vie!None

\* nothing refers to a reservation before it is made
Fresh ==
  \A r \in Held : v1[r] = "absent" =>
    /\ \A b \in Items : v3[b].r # r
    /\ \A s \in Procs : v4[s].r # r

\* one session at a time works on a reservation that is not in met
Alone ==
  \A r \in Held \ v5 : \A s, t \in Procs : v4[s].r = r /\ v4[t].r = r => s = t

\* and so it has one booking, which is the one the session found
Single == \A r \in Held \ v5 : \A b, c \in Vie!OfReservation(r) : b = c

SeenStill ==
  \A s \in Procs :
    v4[s].kind \in {"book", "cancel"} /\ v4[s].step = "found" /\ v4[s].r \notin v5
      => Vie!OfReservation(v4[s].r) \subseteq {v4[s].prev}

\* a reservation that is being booked for is not cancelled meanwhile
Standing ==
  \A s \in Procs :
    v4[s].kind = "book" /\ v4[s].r \notin v5 =>
      v1[v4[s].r] \notin {"absent", "cancelled", "deleted"}

Freed == \A r \in Held \ v5 : v1[r] = "cancelled" => Vie!OfReservation(r) = {}

Places == Vie!TypeOK /\ Apart /\ Placed
Work == Shaped /\ Fresh /\ Alone /\ Single /\ SeenStill /\ Standing /\ Freed
ViewingInv == Places /\ Work

LEMMA ViewingsInit ==
  ASSUME Vie!IdsAssumption, Vie!Init
  PROVE  ViewingInv
BY DEF Vie!IdsAssumption, Vie!Init, ViewingInv, Places, Work, Vie!TypeOK, Apart, Placed, Shaped,
       Fresh, Alone, Single, SeenStill,
       Standing, Freed, Vie!Active, Vie!OfReservation, Vie!Statuses, Vie!NoBooking, Vie!Idle,
       Vie!None

\* The rows that a rebooking leaves: the booking found is cancelled before the new one is there.
LEMMA Rebooked ==
  ASSUME Vie!TypeOK, Apart, NEW b \in Items, NEW p \in Items \cup {Vie!None}, NEW w \in Slots,
         NEW r \in Held, v3[b] = Vie!NoBooking, Vie!WindowFree(w, {p} \ {Vie!None}),
         v3' = Vie!Insert(Vie!CancelBooking(v3, p), b, r, w)
  PROVE  /\ v3' \in [Items -> [status : {"absent", "scheduled", "cancelled"},
                                       r : Held \cup {Vie!None}, w : Slots \cup {Vie!None}]]
         /\ Vie!Active(b)' /\ v3'[b].w = w /\ v3'[b].r = r
         /\ \A c \in Items \ {b} :
              /\ v3'[c].w = v3[c].w /\ v3'[c].r = v3[c].r
              /\ Vie!Active(c)' <=> Vie!Active(c) /\ (c = p => p = Vie!None)
         /\ Apart'
BY DEF Vie!TypeOK, Apart, Vie!WindowFree, Vie!OfWindow, Vie!Active, Vie!Insert, Vie!CancelBooking,
       Vie!NoBooking

LEMMA PlacesNext ==
  ASSUME ViewingInv, [Vie!Next]_Vie!vars
  PROVE  Places'
<1> USE DEF ViewingInv, Places
<1>1. ASSUME NEW r \in Held, Vie!Advance(r)
      PROVE  Places'
  BY <1>1 DEF Vie!Advance, Vie!TypeOK, Apart, Placed, Vie!Active, Vie!Open, Vie!Statuses
<1>2. ASSUME NEW r \in Held, Vie!delete_reservation(r)
      PROVE  Places'
  BY <1>2 DEF Vie!delete_reservation, Vie!TypeOK, Apart, Placed, Vie!Active, Vie!Statuses
<1>3. ASSUME NEW r \in Held, NEW b \in Items, NEW w \in Slots, Vie!reserve(r, b, w)
      PROVE  Places'
  BY <1>3 DEF Vie!reserve, Vie!Insert, Vie!WindowFree, Vie!OfWindow, Vie!NoBooking, Vie!TypeOK,
              Apart, Placed, Vie!Active,
              Vie!Statuses
<1>4. ASSUME NEW w \in Slots, Vie!upsert_windows(w)
      PROVE  Places'
  BY <1>4 DEF Vie!upsert_windows, Vie!TypeOK, Apart, Placed, Vie!Active
<1>5. ASSUME NEW s \in Procs, NEW r \in Held, Vie!CancelLoad(s, r)
      PROVE  Places'
  BY <1>5 DEF Vie!CancelLoad, Vie!Begin, Vie!TypeOK, Apart, Placed, Vie!Active, Vie!None
<1>6. ASSUME NEW s \in Procs, NEW r \in Held, NEW w \in Slots, Vie!BookLoad(s, r, w)
      PROVE  Places'
  BY <1>6 DEF Vie!BookLoad, Vie!Begin, Vie!TypeOK, Apart, Placed, Vie!Active, Vie!None
<1>7. ASSUME NEW s \in Procs, NEW w \in Slots, Vie!DeleteWindowLoad(s, w)
      PROVE  Places'
  BY <1>7 DEF Vie!DeleteWindowLoad, Vie!Begin, Vie!TypeOK, Apart, Placed, Vie!Active, Vie!None
<1>8. ASSUME NEW s \in Procs, Vie!FindBooking(s)
      PROVE  Places'
  <2>1. PICK b \in Items \cup {Vie!None} :
          v4' = [v4 EXCEPT ![s].step = "found", ![s].prev = b]
    BY <1>8 DEF Vie!FindBooking, Vie!OfReservation
  <2>2. UNCHANGED <<v1, v2, v3, v5>>
    BY <1>8 DEF Vie!FindBooking
  <2>3. v4' = [v4 EXCEPT ![s] = [v4[s] EXCEPT !.step = "found", !.prev = b]]
    BY <2>1
  <2>4. [v4[s] EXCEPT !.step = "found", !.prev = b] \in
          [kind : {"idle", "book", "cancel", "window"}, r : Held \cup {Vie!None},
           w : Slots \cup {Vie!None}, step : {"idle", "loaded", "found"},
           prev : Items \cup {Vie!None}]
    BY DEF Vie!TypeOK
  <2> QED
    BY <2>2, <2>3, <2>4 DEF Vie!TypeOK, Apart, Placed, Vie!Active
<1>9. ASSUME NEW s \in Procs, Vie!BookCommit(s)
      PROVE  Places'
  <2>1. /\ v4[s].kind = "book" /\ v4[s].w \in v2
        /\ Vie!WindowFree(v4[s].w, {v4[s].prev} \ {Vie!None})
        /\ Vie!End(s) /\ UNCHANGED <<v1, v2, v5>>
    BY <1>9 DEF Vie!BookCommit
  <2>2. /\ v4[s].r \in Held /\ v4[s].w \in Slots
        /\ v4[s].prev \in Items \cup {Vie!None}
    BY <2>1 DEF Work, Shaped, Vie!TypeOK
  <2>3. PICK b \in Items :
          /\ v3[b] = Vie!NoBooking
          /\ v3' = Vie!Insert(Vie!CancelBooking(v3, v4[s].prev), b, v4[s].r, v4[s].w)
    BY <1>9 DEF Vie!BookCommit
  <2>4. /\ v3' \in [Items -> [status : {"absent", "scheduled", "cancelled"},
                                      r : Held \cup {Vie!None}, w : Slots \cup {Vie!None}]]
        /\ Vie!Active(b)' /\ v3'[b].w = v4[s].w
        /\ \A c \in Items \ {b} : v3'[c].w = v3[c].w /\ (Vie!Active(c)' => Vie!Active(c))
        /\ Apart'
    <3>1. Vie!TypeOK /\ Apart
      OBVIOUS
    <3> HIDE DEF ViewingInv, Places
    <3> QED
      BY <3>1, <2>1, <2>2, <2>3, Rebooked DEF Vie!Active
  <2>5. Vie!TypeOK'
    <3>1. v4' \in [Procs -> [kind : {"idle", "book", "cancel", "window"},
                                  r : Held \cup {Vie!None}, w : Slots \cup {Vie!None},
                                  step : {"idle", "loaded", "found"},
                                  prev : Items \cup {Vie!None}]]
      BY <2>1 DEF Vie!End, Vie!Idle, Vie!TypeOK, Vie!None
    <3> QED
      BY <2>1, <2>4, <3>1 DEF Vie!TypeOK
  <2>6. Placed'
    BY <2>1, <2>4 DEF Placed
  <2> QED
    BY <2>4, <2>5, <2>6
<1>10. ASSUME NEW s \in Procs, Vie!BookRefused(s) \/ Vie!Crash(s)
       PROVE  Places'
  BY <1>10 DEF Vie!BookRefused, Vie!Crash, Vie!End, Vie!Idle, Vie!TypeOK, Apart, Placed,
               Vie!Active, Vie!None
<1>11. ASSUME NEW s \in Procs, Vie!CancelCommit(s)
       PROVE  Places'
  <2>1. v4[s].r \in Held /\ v4[s].prev \in Items \cup {Vie!None}
    BY <1>11 DEF Vie!CancelCommit, Work, Shaped, Vie!TypeOK
  <2>2. /\ v4' \in [Procs -> [kind : {"idle", "book", "cancel", "window"},
                                   r : Held \cup {Vie!None}, w : Slots \cup {Vie!None},
                                   step : {"idle", "loaded", "found"},
                                   prev : Items \cup {Vie!None}]]
        /\ UNCHANGED <<v2, v5>>
    BY <1>11 DEF Vie!CancelCommit, Vie!End, Vie!Idle, Vie!TypeOK, Vie!None
  <2>3. CASE UNCHANGED <<v1, v3>>
    BY <2>2, <2>3 DEF Vie!TypeOK, Apart, Placed, Vie!Active
  <2>4. CASE /\ v3' = Vie!CancelBooking(v3, v4[s].prev)
             /\ v1' = [v1 EXCEPT ![v4[s].r] = IF @ \in Vie!Open THEN "cancelled" ELSE @]
    <3>1. v1' \in [Held -> Vie!Statuses]
      BY <2>1, <2>4 DEF Vie!TypeOK, Vie!Statuses
    <3>2. v3' \in [Items -> [status : {"absent", "scheduled", "cancelled"},
                                     r : Held \cup {Vie!None}, w : Slots \cup {Vie!None}]]
      BY <2>1, <2>4 DEF Vie!CancelBooking, Vie!TypeOK
    <3>3. \A c \in Items : v3'[c].w = v3[c].w /\ (Vie!Active(c)' => Vie!Active(c))
      BY <2>1, <2>4 DEF Vie!CancelBooking, Vie!TypeOK, Vie!Active
    <3> QED
      BY <2>2, <3>1, <3>2, <3>3 DEF Vie!TypeOK, Apart, Placed
  <2> QED
    BY <1>11, <2>3, <2>4 DEF Vie!CancelCommit
<1>12. ASSUME NEW s \in Procs, Vie!DeleteWindowCommit(s)
       PROVE  Places'
  BY <1>12 DEF Vie!DeleteWindowCommit, Vie!Deletable, Vie!End, Vie!Idle, Vie!TypeOK, Apart,
               Placed, Vie!Active, Vie!None
<1>13. CASE UNCHANGED Vie!vars
  BY <1>13 DEF Vie!vars, Vie!TypeOK, Apart, Placed, Vie!Active
<1> QED
  BY <1>1, <1>2, <1>3, <1>4, <1>5, <1>6, <1>7, <1>8, <1>9, <1>10, <1>11, <1>12, <1>13 DEF Vie!Next

\* A session that begins work on a reservation another works on puts it into met.
LEMMA Begun ==
  ASSUME Vie!IdsAssumption, Vie!TypeOK, Work, NEW s \in Procs, NEW kind \in {"book", "cancel",
  "window"},
         NEW r \in Held \cup {Vie!None}, NEW w \in Slots \cup {Vie!None},
         NEW step \in {"loaded", "found"}, Vie!Begin(s, kind, r, w, step),
         kind = "window" => r = Vie!None,
         kind # "window" => r \in Held /\ v1[r] # "absent" /\ step = "loaded",
         kind = "book" => v1[r] = "active",
         UNCHANGED <<v1, v3>>
  PROVE  Work'
<1> USE DEF Work
<1>1. /\ v4'[s] = [kind |-> kind, r |-> r, w |-> w, step |-> step, prev |-> Vie!None]
      /\ \A t \in Procs \ {s} : v4'[t] = v4[t]
      /\ v5 \subseteq v5'
      /\ \A t \in Procs : v4[t].r = r /\ r # Vie!None => r \in v5'
      /\ v4[s] = Vie!Idle
  BY DEF Vie!Begin, Vie!TypeOK
<1>2. Shaped' /\ Fresh' /\ Single' /\ Freed'
  BY <1>1 DEF Shaped, Fresh, Single, Freed, Vie!OfReservation, Vie!Active, Vie!IdsAssumption
<1>3. Alone'
  BY <1>1 DEF Alone, Vie!IdsAssumption
<1>4. SeenStill' /\ Standing'
  BY <1>1 DEF SeenStill, Standing, Vie!OfReservation, Vie!Active
<1> QED
  BY <1>2, <1>3, <1>4

LEMMA WorkNext ==
  ASSUME Vie!IdsAssumption, ViewingInv, [Vie!Next]_Vie!vars
  PROVE  Work'
<1> USE DEF ViewingInv, Work
<1>t. Vie!TypeOK
  BY DEF Places
<1>1. ASSUME NEW r \in Held, Vie!Advance(r)
      PROVE  Work'
  <2>1. /\ v1[r] \in Vie!Open
        /\ v1' \in [Held -> Vie!Statuses]
        /\ \A x \in Held \ {r} : v1'[x] = v1[x]
        /\ v1'[r] \in {"active", "settling", "completed"}
        /\ UNCHANGED <<v2, v3, v4, v5>>
    BY <1>1, <1>t DEF Vie!Advance, Vie!TypeOK, Vie!Open, Vie!Statuses
  <2> QED
    BY <2>1, <1>t DEF Shaped, Fresh, Alone, Single, SeenStill, Standing, Freed, Vie!OfReservation,
                      Vie!Active,
                      Vie!Open
<1>2. ASSUME NEW r \in Held, Vie!delete_reservation(r)
      PROVE  Work'
  <2>1. /\ v1[r] = "cancelled" /\ v1' = [v1 EXCEPT ![r] = "deleted"]
        /\ \A b \in Items : v3'[b].r = IF v3[b].r = r THEN Vie!None ELSE v3[b].r
        /\ \A b \in Items : Vie!Active(b)' <=> Vie!Active(b)
        /\ UNCHANGED <<v2, v4, v5>>
    BY <1>2, <1>t DEF Vie!delete_reservation, Vie!TypeOK, Vie!Active
  <2>2. \A x \in Held : Vie!OfReservation(x)' \subseteq Vie!OfReservation(x)
    BY <2>1 DEF Vie!OfReservation, Vie!Active, Vie!IdsAssumption
  <2>3. Shaped' /\ Alone' /\ Single' /\ SeenStill' /\ Freed'
    BY <2>1, <2>2, <1>t DEF Shaped, Alone, Single, SeenStill, Freed, Vie!OfReservation, Vie!TypeOK
  <2>4. Fresh'
    BY <2>1, <1>t DEF Fresh, Vie!TypeOK, Vie!IdsAssumption
  <2>5. Standing'
    BY <2>1, <1>t DEF Standing, Shaped, Vie!TypeOK
  <2> QED
    BY <2>3, <2>4, <2>5
<1>3. ASSUME NEW r \in Held, NEW b \in Items, NEW w \in Slots, Vie!reserve(r, b, w)
      PROVE  Work'
  <2>1. /\ v1[r] = "absent" /\ v1' = [v1 EXCEPT ![r] = "pending_payment"]
        /\ v3[b] = Vie!NoBooking
        /\ v3' = [v3 EXCEPT ![b] = [status |-> "scheduled", r |-> r, w |-> w]]
        /\ UNCHANGED <<v2, v4, v5>>
    BY <1>3 DEF Vie!reserve, Vie!Insert
  <2>2. /\ \A c \in Items : v3[c].r # r
        /\ \A s \in Procs : v4[s].r # r
    BY <2>1 DEF Fresh
  <2>3. Vie!OfReservation(r)' = {b}
    BY <2>1, <2>2, <1>t DEF Vie!OfReservation, Vie!Active, Vie!TypeOK
  <2>4. \A x \in Held \ {r} : Vie!OfReservation(x)' = Vie!OfReservation(x)
    BY <2>1, <1>t DEF Vie!OfReservation, Vie!Active, Vie!NoBooking, Vie!TypeOK
  <2>5. Shaped' /\ Alone'
    BY <2>1 DEF Shaped, Alone
  <2>6. Fresh'
    BY <2>1, <1>t DEF Fresh, Vie!TypeOK
  <2>7. Single' /\ Freed'
    BY <2>1, <2>3, <2>4, <1>t DEF Single, Freed, Vie!OfReservation, Vie!TypeOK
  <2>8. SeenStill' /\ Standing'
    BY <2>1, <2>2, <2>4, <1>t DEF SeenStill, Standing, Shaped, Vie!OfReservation, Vie!TypeOK
  <2> QED
    BY <2>5, <2>6, <2>7, <2>8
<1>4. ASSUME NEW w \in Slots, Vie!upsert_windows(w)
      PROVE  Work'
  BY <1>4 DEF Vie!upsert_windows, Shaped, Fresh, Alone, Single, SeenStill, Standing, Freed,
              Vie!OfReservation,
              Vie!Active
<1>5. ASSUME NEW s \in Procs, NEW r \in Held, Vie!CancelLoad(s, r)
      PROVE  Work'
  BY <1>5, <1>t, Begun DEF Vie!CancelLoad
<1>6. ASSUME NEW s \in Procs, NEW r \in Held, NEW w \in Slots, Vie!BookLoad(s, r, w)
      PROVE  Work'
  BY <1>6, <1>t, Begun DEF Vie!BookLoad
<1>7. ASSUME NEW s \in Procs, NEW w \in Slots, Vie!DeleteWindowLoad(s, w)
      PROVE  Work'
  BY <1>7, <1>t, Begun DEF Vie!DeleteWindowLoad
<1>8. ASSUME NEW s \in Procs, Vie!FindBooking(s)
      PROVE  Work'
  <2>1. PICK b : /\ b \in (IF Vie!OfReservation(v4[s].r) = {} THEN {Vie!None}
                           ELSE Vie!OfReservation(v4[s].r))
                 /\ v4' = [v4 EXCEPT ![s] = [v4[s] EXCEPT !.step = "found", !.prev = b]]
    BY <1>8 DEF Vie!FindBooking
  <2>2. v4[s].r \in Held /\ UNCHANGED <<v1, v2, v3, v5>>
    BY <1>8 DEF Vie!FindBooking, Shaped
  <2>3. /\ v4'[s].kind = v4[s].kind /\ v4'[s].r = v4[s].r /\ v4'[s].prev = b
        /\ \A t \in Procs \ {s} : v4'[t] = v4[t]
    BY <2>1, <1>t DEF Vie!TypeOK
  <2>4. v4[s].r \notin v5 => Vie!OfReservation(v4[s].r) \subseteq {b}
    BY <2>1, <2>2 DEF Single
  <2>5. SeenStill'
    BY <2>2, <2>3, <2>4 DEF SeenStill, Vie!OfReservation, Vie!Active
  <2> QED
    BY <2>2, <2>3, <2>5 DEF Shaped, Fresh, Alone, Single, Standing, Freed, Vie!OfReservation,
                            Vie!Active
<1>9. ASSUME NEW s \in Procs, Vie!BookCommit(s)
      PROVE  Work'
  <2>1. /\ v4[s].kind = "book" /\ v4[s].step = "found" /\ v4[s].w \in v2
        /\ Vie!WindowFree(v4[s].w, {v4[s].prev} \ {Vie!None})
        /\ Vie!End(s) /\ UNCHANGED <<v1, v2, v5>>
    BY <1>9 DEF Vie!BookCommit
  <2>2. /\ v4[s].r \in Held /\ v4[s].w \in Slots
        /\ v4[s].prev \in Items \cup {Vie!None}
    BY <2>1, <1>t DEF Shaped, Vie!TypeOK
  <2>3. PICK b \in Items :
          /\ v3[b] = Vie!NoBooking
          /\ v3' = Vie!Insert(Vie!CancelBooking(v3, v4[s].prev), b, v4[s].r, v4[s].w)
    BY <1>9 DEF Vie!BookCommit
  <2>r. PICK r \in Held : r = v4[s].r
    BY <2>2
  <2>4. /\ v3'[b].r = r
        /\ \A c \in Items \ {b} :
             v3'[c].r = v3[c].r /\ (Vie!Active(c)' => Vie!Active(c) /\ c # v4[s].prev)
    BY <2>1, <2>2, <2>3, <2>r, <1>t, Rebooked DEF Vie!Active, Places, Vie!IdsAssumption
  <2>5. r \notin v5 => Vie!OfReservation(r)' \subseteq {b}
    BY <2>1, <2>4, <2>r DEF SeenStill, Vie!OfReservation, Vie!Active
  <2>6. \A x \in Held \ {r} : Vie!OfReservation(x)' \subseteq Vie!OfReservation(x)
    BY <2>4 DEF Vie!OfReservation, Vie!Active
  <2>7. /\ v4'[s] = Vie!Idle /\ \A t \in Procs \ {s} : v4'[t] = v4[t]
    BY <2>1, <1>t DEF Vie!End, Vie!TypeOK
  <2>8. Shaped' /\ Alone' /\ Standing'
    BY <2>1, <2>7 DEF Shaped, Alone, Standing, Vie!Idle, Vie!IdsAssumption
  <2>9. v1[r] # "absent"
    BY <2>r DEF Fresh
  <2>10. Fresh'
    BY <2>1, <2>4, <2>7, <2>9 DEF Fresh, Vie!Idle, Vie!IdsAssumption, Vie!Active
  <2>11. Single'
    BY <2>1, <2>5, <2>6 DEF Single
  <2>12. SeenStill'
    <3>1. SUFFICES ASSUME NEW t \in Procs, NEW x, v4'[t].kind \in {"book", "cancel"},
                          v4'[t].step = "found", v4'[t].r = x, x \notin v5
                   PROVE  Vie!OfReservation(x)' \subseteq {v4'[t].prev}
      BY <2>1 DEF SeenStill, Vie!OfReservation, Vie!Active
    <3>2. t # s /\ v4'[t] = v4[t] /\ x \in Held
      BY <3>1, <2>7 DEF Vie!Idle, Shaped
    <3>3. x # r
      BY <3>1, <3>2, <2>r DEF Alone
    <3>4. Vie!OfReservation(x) \subseteq {v4[t].prev}
      BY <3>1, <3>2 DEF SeenStill
    <3> QED
      BY <3>2, <3>3, <3>4, <2>6
  <2>13. Freed'
    BY <2>1, <2>r, <2>6 DEF Freed, Standing
  <2> QED
    BY <2>8, <2>10, <2>11, <2>12, <2>13
<1>10. ASSUME NEW s \in Procs,
              Vie!End(s) /\ UNCHANGED <<v1, v3, v5>>
       PROVE  Work'
  <2>1. v4'[s] = Vie!Idle /\ \A t \in Procs \ {s} : v4'[t] = v4[t]
    BY <1>10, <1>t DEF Vie!End, Vie!TypeOK
  <2> QED
    BY <1>10, <2>1 DEF Shaped, Fresh, Alone, Single, SeenStill, Standing, Freed,
                       Vie!OfReservation, Vie!Active,
                       Vie!Idle, Vie!IdsAssumption
<1>11. ASSUME NEW s \in Procs, Vie!CancelCommit(s)
       PROVE  Work'
  <2>1. /\ v4[s].kind = "cancel" /\ v4[s].step = "found" /\ v4[s].r \in Held
        /\ v4[s].prev \in Items \cup {Vie!None}
        /\ Vie!End(s) /\ UNCHANGED <<v2, v5>>
    BY <1>11, <1>t DEF Vie!CancelCommit, Shaped, Vie!TypeOK
  <2>2. CASE UNCHANGED <<v1, v3>>
    BY <2>1, <2>2, <1>10
  <2>3. CASE /\ v3' = Vie!CancelBooking(v3, v4[s].prev)
             /\ v1' = [v1 EXCEPT ![v4[s].r] = IF @ \in Vie!Open THEN "cancelled" ELSE @]
    <3>r. PICK r \in Held : r = v4[s].r
      BY <2>1
    <3>1. /\ v4'[s] = Vie!Idle /\ \A t \in Procs \ {s} : v4'[t] = v4[t]
      BY <2>1, <1>t DEF Vie!End, Vie!TypeOK
    <3>2. \A c \in Items :
            v3'[c].r = v3[c].r /\ (Vie!Active(c)' => Vie!Active(c) /\ c # v4[s].prev)
      BY <2>1, <2>3, <1>t DEF Vie!CancelBooking, Vie!TypeOK, Vie!Active, Vie!IdsAssumption
    <3>3. \A x \in Held : Vie!OfReservation(x)' \subseteq Vie!OfReservation(x)
      BY <3>2 DEF Vie!OfReservation, Vie!Active
    <3>4. r \notin v5 => Vie!OfReservation(r)' = {}
      BY <2>1, <3>2, <3>r DEF SeenStill, Vie!OfReservation, Vie!Active, Vie!IdsAssumption
    <3>5. /\ \A x \in Held \ {r} : v1'[x] = v1[x]
          /\ v1'[r] = "absent" <=> v1[r] = "absent"
      BY <2>1, <2>3, <3>r, <1>t DEF Vie!TypeOK, Vie!Open
    <3>6. Shaped' /\ Alone'
      BY <2>1, <3>1 DEF Shaped, Alone, Vie!Idle, Vie!IdsAssumption
    <3>7. Fresh'
      BY <3>1, <3>2, <3>5 DEF Fresh, Vie!Idle, Vie!IdsAssumption, Vie!Active
    <3>8. Single' /\ Freed'
      BY <2>1, <3>3, <3>4, <3>5 DEF Single, Freed
    <3>9. SeenStill'
      <4>1. SUFFICES ASSUME NEW t \in Procs, NEW x, v4'[t].kind \in {"book", "cancel"},
                            v4'[t].step = "found", v4'[t].r = x, x \notin v5
                     PROVE  Vie!OfReservation(x)' \subseteq {v4'[t].prev}
        BY <2>1 DEF SeenStill, Vie!OfReservation, Vie!Active
      <4>2. t # s /\ v4'[t] = v4[t] /\ x \in Held
        BY <4>1, <3>1 DEF Vie!Idle, Shaped
      <4>3. Vie!OfReservation(x) \subseteq {v4[t].prev}
        BY <4>1, <4>2 DEF SeenStill
      <4> QED
        BY <4>2, <4>3, <3>3
    <3>10. Standing'
      <4>1. SUFFICES ASSUME NEW t \in Procs, v4'[t].kind = "book", v4'[t].r \notin v5
                     PROVE  v1'[v4'[t].r] \notin {"absent", "cancelled", "deleted"}
        BY <2>1 DEF Standing
      <4>2. t # s /\ v4'[t] = v4[t] /\ v4[t].r \in Held
        BY <4>1, <3>1 DEF Vie!Idle, Shaped
      <4>3. v4[t].r # r
        BY <4>1, <4>2, <3>r DEF Alone
      <4> QED
        BY <4>1, <4>2, <4>3, <3>5 DEF Standing
    <3> QED
      BY <3>6, <3>7, <3>8, <3>9, <3>10
  <2> QED
    BY <1>11, <2>2, <2>3 DEF Vie!CancelCommit
<1>12. ASSUME NEW s \in Procs, Vie!BookRefused(s) \/ Vie!Crash(s) \/ Vie!DeleteWindowCommit(s)
       PROVE  Work'
  BY <1>12, <1>10 DEF Vie!BookRefused, Vie!Crash, Vie!DeleteWindowCommit
<1>13. CASE UNCHANGED Vie!vars
  BY <1>13 DEF Vie!vars, Shaped, Fresh, Alone, Single, SeenStill, Standing, Freed,
               Vie!OfReservation, Vie!Active
<1> QED
  BY <1>1, <1>2, <1>3, <1>4, <1>5, <1>6, <1>7, <1>8, <1>9, <1>11, <1>12, <1>13 DEF Vie!Next

LEMMA ViewingsNext == Vie!IdsAssumption /\ ViewingInv /\ [Vie!Next]_Vie!vars => ViewingInv'
BY PlacesNext, WorkNext DEF ViewingInv

\* The copy of Cardinality that Vie brings is the same operator.
LEMMA VieCounts == \A S : Vie!Cardinality(S) = Cardinality(S)
BY DEF Vie!Cardinality, Cardinality

\* What the invariant says of a state.
LEMMA WindowsHold == ViewingInv => Vie!OneBookingPerWindow /\ Vie!BookedWindowIsKept
<1> SUFFICES ASSUME ViewingInv, NEW w \in Slots
             PROVE  /\ Cardinality(Vie!OfWindow(w)) <= 1
                    /\ Vie!OfWindow(w) # {} => w \in v2
  BY VieCounts DEF Vie!OneBookingPerWindow, Vie!BookedWindowIsKept
<1>1. Vie!OfWindow(w) # {} => w \in v2
  BY DEF ViewingInv, Places, Placed, Vie!OfWindow
<1>2. CASE Vie!OfWindow(w) = {}
  BY <1>2, FS_EmptySet
<1>3. ASSUME NEW b \in Vie!OfWindow(w)
      PROVE  Cardinality(Vie!OfWindow(w)) <= 1
  <2>1. Vie!OfWindow(w) = {b}
    BY DEF ViewingInv, Places, Apart, Vie!OfWindow
  <2> QED
    BY <2>1, FS_Singleton
<1> QED
  BY <1>1, <1>2, <1>3

LEMMA WindowsReturn == ViewingInv => Vie!CancelledFreesWindow
BY DEF ViewingInv, Work, Freed, Vie!CancelledFreesWindow

Viewings == open = "viewings" => ViewingInv

LEMMA ViewingsStep == (Init => Viewings) /\ (Viewings /\ [Next]_shell => Viewings')
<1>1. Init => Viewings
  BY ViewingsInit, ItemsAreIds DEF Init, Viewings
<1>2. ASSUME Viewings, [Next]_shell, open' = "viewings" PROVE ViewingInv'
  <2>1. open = "viewings" /\ [Vie!Next]_Vie!vars
    BY <1>2, Stays DEF Next, shell, Vie!vars
  <2> QED
    BY <1>2, <2>1, ItemsAreIds, ViewingsNext DEF Viewings
<1> QED
  BY <1>1, <1>2 DEF Viewings

LEMMA ViewingsKept ==
  Viewings => (open = "viewings" => /\ Vie!TypeOK /\ Vie!CancelledFreesWindow
                                    /\ Vie!OneBookingPerWindow /\ Vie!BookedWindowIsKept)
BY WindowsHold, WindowsReturn DEF Viewings, ViewingInv, Places

-----------------------------------------------------------------------------
(* Blocks and changes of password. *)

LEMMA SessionsInit == Ses!Init => SesP!Init
BY DEF Ses!Init, Ses!NoRow, Ses!NoOp, Ses!NoTok, SesP!Init, SesP!NoRow, SesP!NoOp, SesP!NoTok

LEMMA SessionsNext == Ses!Next => SesP!Next
BY DEF Ses!Next, Ses!Serve, Ses!Begin, Ses!Blacklisted, Ses!FromCache, Ses!FromTable, Ses!Fill,
       Ses!get_me, Ses!logout, Ses!PasswordRead, Ses!change_password, Ses!update_user,
       Ses!invalidate_user_cache, Ses!Authenticate, Ses!login, Ses!refresh_tokens, Ses!Expire,
       Ses!Tick, Ses!At, Ses!Goto, Ses!End, Ses!Signed, Ses!Holds, Ses!Admit, Ses!Pair,
       Ses!Change, Ses!Invalidated, Ses!Issue, Ses!HasTTL, Ses!NoRow, Ses!NoTok, Ses!NoOp,
       Ses!history, Ses!Cardinality, SesP!Next, SesP!Serve, SesP!Begin, SesP!Blacklisted,
       SesP!FromCache, SesP!FromTable, SesP!Fill, SesP!get_me, SesP!logout, SesP!PasswordRead,
       SesP!change_password, SesP!update_user, SesP!invalidate_user_cache, SesP!Authenticate,
       SesP!login, SesP!refresh_tokens, SesP!Expire, SesP!Tick, SesP!At, SesP!Goto, SesP!End,
       SesP!Signed, SesP!Holds, SesP!Admit, SesP!Pair, SesP!Change, SesP!Invalidated,
       SesP!Issue, SesP!HasTTL, SesP!NoRow, SesP!NoTok, SesP!NoOp, SesP!history,
       SesP!Cardinality

Sessions == open = "sessions" => SesP!IInv

LEMMA SessionsSized == SesP!SessionsAssumption
BY DEF SesP!SessionsAssumption

LEMMA SessionsStep == (Init => Sessions) /\ (Sessions /\ [Next]_shell => Sessions')
<1>1. Init => Sessions
  BY SessionsInit, SessionsSized, SesP!InitIInv DEF Init, Sessions
<1>2. ASSUME Sessions, [Next]_shell, open' = "sessions" PROVE SesP!IInv'
  <2>1. open = "sessions" /\ [SesP!Next]_SesP!vars
    BY <1>2, SessionsNext, Stays DEF Next, shell, SesP!vars
  <2> QED
    BY <1>2, <2>1, SessionsSized, SesP!Step DEF Sessions
<1> QED
  BY <1>1, <1>2 DEF Sessions

LEMMA SessionsKept == Sessions => (open = "sessions" => Ses!TypeOK /\ Ses!StaleHasCause)
<1> SUFFICES ASSUME SesP!IInv PROVE Ses!TypeOK /\ Ses!StaleHasCause
  BY DEF Sessions
<1>1. SesP!TypeOK /\ SesP!StaleHasCause
  BY DEF SesP!IInv
<1>2. Ses!TypeOK
  BY <1>1 DEF Ses!TypeOK, Ses!Rows, Ses!Tokens, Ses!Signed, Ses!NoTok,
              SesP!TypeOK, SesP!Rows, SesP!Tokens, SesP!Signed, SesP!NoTok
<1>3. Ses!StaleHasCause
  BY <1>1 DEF Ses!StaleHasCause, Ses!NoRow, SesP!StaleHasCause, SesP!NoRow
<1> QED
  BY <1>2, <1>3

-----------------------------------------------------------------------------
(* Logouts and refreshes. *)

LEMMA LogoutInit == Out!Init => OutP!Init
BY DEF Out!Init, Out!NoRow, Out!NoOp, Out!NoTok, OutP!Init, OutP!NoRow, OutP!NoOp, OutP!NoTok

LEMMA LogoutNext == Out!Next => OutP!Next
BY DEF Out!Next, Out!Serve, Out!Begin, Out!Blacklisted, Out!FromCache, Out!FromTable, Out!Fill,
       Out!get_me, Out!logout, Out!PasswordRead, Out!change_password, Out!update_user,
       Out!invalidate_user_cache, Out!Authenticate, Out!login, Out!refresh_tokens, Out!Expire,
       Out!Tick, Out!At, Out!Goto, Out!End, Out!Signed, Out!Holds, Out!Admit, Out!Pair,
       Out!Change, Out!Invalidated, Out!Issue, Out!HasTTL, Out!NoRow, Out!NoTok, Out!NoOp,
       Out!history, Out!Cardinality, OutP!Next, OutP!Serve, OutP!Begin, OutP!Blacklisted,
       OutP!FromCache, OutP!FromTable, OutP!Fill, OutP!get_me, OutP!logout, OutP!PasswordRead,
       OutP!change_password, OutP!update_user, OutP!invalidate_user_cache, OutP!Authenticate,
       OutP!login, OutP!refresh_tokens, OutP!Expire, OutP!Tick, OutP!At, OutP!Goto, OutP!End,
       OutP!Signed, OutP!Holds, OutP!Admit, OutP!Pair, OutP!Change, OutP!Invalidated,
       OutP!Issue, OutP!HasTTL, OutP!NoRow, OutP!NoTok, OutP!NoOp, OutP!history,
       OutP!Cardinality

Logout == open = "logout" => OutP!IInv

LEMMA LogoutSized == OutP!SessionsAssumption
BY DEF OutP!SessionsAssumption

LEMMA LogoutStep == (Init => Logout) /\ (Logout /\ [Next]_shell => Logout')
<1>1. Init => Logout
  BY LogoutInit, LogoutSized, OutP!InitIInv DEF Init, Logout
<1>2. ASSUME Logout, [Next]_shell, open' = "logout" PROVE OutP!IInv'
  <2>1. open = "logout" /\ [OutP!Next]_OutP!vars
    BY <1>2, LogoutNext, Stays DEF Next, shell, OutP!vars
  <2> QED
    BY <1>2, <2>1, LogoutSized, OutP!Step DEF Logout
<1> QED
  BY <1>1, <1>2 DEF Logout

LEMMA LogoutKept == Logout => (open = "logout" => Out!TypeOK /\ Out!LogoutHolds)
<1> SUFFICES ASSUME OutP!IInv PROVE Out!TypeOK /\ Out!LogoutHolds
  BY DEF Logout
<1>1. OutP!TypeOK /\ OutP!LogoutHolds
  BY DEF OutP!IInv
<1>2. Out!TypeOK
  BY <1>1 DEF Out!TypeOK, Out!Rows, Out!Tokens, Out!Signed, Out!NoTok,
              OutP!TypeOK, OutP!Rows, OutP!Tokens, OutP!Signed, OutP!NoTok
<1>3. Out!LogoutHolds
  BY <1>1 DEF Out!LogoutHolds, Out!NoRow, OutP!LogoutHolds, OutP!NoRow
<1> QED
  BY <1>2, <1>3

-----------------------------------------------------------------------------
(* The life of the listings: v1 is their status, v2 their deal, v3 their term, v4 the handler   *)
(* between its read and its commit.                                                            *)
MarketOps == {"publish", "delete", "approve", "reject", "expire", "reserve", "remove"}
USE DEF MarketOps

\* A handler that has read is alone,
Sole == \A p, q \in Procs : v4[p] # Mkt!Idle /\ v4[q] # Mkt!Idle => p = q

\* and what it read of its rows is so still, when it commits.
StillSo(r) ==
  \/ /\ r.op = "publish" /\ r.to = "pending_review"
     /\ \E l \in Items : r.on = {l} /\ v1[l] \in {"draft", "archived"}
  \/ /\ r.op \in {"delete", "reject", "expire"} /\ r.to = "archived"
     /\ r.on \in SUBSET Items /\ r.on # {}
     /\ \A l \in r.on : v1[l] \in Mkt!Statuses \ {"reserved"}
  \/ /\ r.op = "approve" /\ r.to = "active"
     /\ \E l \in Items : r.on = {l} /\ v1[l] = "pending_review"
  \/ /\ r.op = "remove" /\ r.to = "gone"
     /\ \E l \in Items : r.on = {l} /\ v1[l] \in Mkt!Statuses

Reads == \A p \in Procs : v4[p] # Mkt!Idle => StillSo(v4[p]) /\ v4[p].op \in MarketOps

MarketTyped ==
  /\ v1 \in [Items -> Mkt!Statuses \cup {"gone"}]
  /\ v2 \in [Items -> {"none", "open", "lost"}]
  /\ v3 \in [Items -> {"none", "later", "past"}]
  /\ DOMAIN v4 = Procs

Lasting ==
  \A l \in Items :
    /\ v2[l] = "lost" => v1[l] = "gone"
    /\ v1[l] \in {"active", "reserved"} => v3[l] # "none"

MarketInv == MarketTyped /\ Sole /\ Reads /\ Lasting /\ Mkt!ReservedIffDeal

LEMMA MarketInit == Mkt!Init => MarketInv
BY DEF Mkt!Init, MarketInv, MarketTyped, Sole, Reads, Lasting, Mkt!ReservedIffDeal, Mkt!Statuses

\* The invariant says all that TypeOK does.
LEMMA MarketTypes == MarketInv => Mkt!TypeOK
<1> SUFFICES ASSUME MarketInv PROVE Mkt!TypeOK
  OBVIOUS
<1>1. \A p \in Procs : v4[p] # Mkt!Idle => v4[p].on # {} /\ v4[p].op \in MarketOps
  BY DEF MarketInv, Reads, StillSo
<1> QED
  BY <1>1 DEF MarketInv, MarketTyped, Lasting, Mkt!TypeOK

-----------------------------------------------------------------------------
LEMMA ReadStep ==
  ASSUME MarketInv, \A q \in Procs : v4[q] = Mkt!Idle, NEW p \in Procs, NEW op, NEW L, NEW to,
         Mkt!Read(p, op, L, to),
         \A r : r.op = op /\ r.on = L /\ r.to = to => StillSo(r)
  PROVE  MarketInv' /\ UNCHANGED Mkt!phaseOf
<1> DEFINE r == [op |-> op, on |-> L, to |-> to,
                 seen |-> IF Mkt!Cardinality(L) = 1 THEN v1[CHOOSE l \in L : TRUE] ELSE "active"]
<1>1. /\ op \in MarketOps /\ v4' = [v4 EXCEPT ![p] = r] /\ UNCHANGED <<v1, v2, v3>>
  BY DEF Mkt!Read
<1>2. r.op = op /\ r.on = L /\ r.to = to
  OBVIOUS
<1>3. StillSo(r)
  BY <1>2
<1> HIDE DEF r
<1>4. /\ DOMAIN v4' = Procs /\ v4'[p] = r /\ \A q \in Procs \ {p} : v4'[q] = Mkt!Idle
  BY <1>1 DEF MarketInv, MarketTyped
<1>5. MarketTyped' /\ Lasting' /\ Mkt!ReservedIffDeal'
  BY <1>1, <1>4 DEF MarketInv, MarketTyped, Lasting, Mkt!ReservedIffDeal
<1>6. Sole'
  BY <1>4 DEF Sole
<1>7. Reads'
  BY <1>1, <1>2, <1>3, <1>4 DEF Reads, StillSo
<1> QED
  BY <1>1, <1>5, <1>6, <1>7 DEF MarketInv, Mkt!phaseOf

LEMMA Reading ==
  ASSUME Mkt!SerialAssumption, MarketInv, \A q \in Procs : v4[q] = Mkt!Idle, NEW p \in Procs,
         \/ Mkt!run_expire_listings(p)
         \/ \E l \in Items :
              \/ Mkt!publish_listing(p, l) \/ Mkt!delete_listing(p, l) \/ Mkt!approve_listing(p, l)
              \/ Mkt!reject_listing(p, l) \/ Mkt!delete_listing_admin(p, l)
              \/ \E s \in Mkt!Statuses : Mkt!set_listing_status(p, l, s)
  PROVE  MarketInv' /\ UNCHANGED Mkt!phaseOf
<1>t. v1 \in [Items -> Mkt!Statuses \cup {"gone"}]
  BY DEF MarketInv, MarketTyped
<1>1. CASE Mkt!run_expire_listings(p)
  <2>1. Mkt!Read(p, "expire", Mkt!Expired, "archived") /\ Mkt!Expired # {}
    BY <1>1 DEF Mkt!run_expire_listings
  <2>2. \A r : r.op = "expire" /\ r.on = Mkt!Expired /\ r.to = "archived" => StillSo(r)
    BY <2>1 DEF StillSo, Mkt!Expired, Mkt!Statuses
  <2> QED
    BY <2>1, <2>2, ReadStep
<1>2. ASSUME NEW l \in Items, Mkt!publish_listing(p, l) PROVE MarketInv' /\ UNCHANGED Mkt!phaseOf
  <2>1. Mkt!Read(p, "publish", {l}, "pending_review") /\ v1[l] \in {"draft", "archived"}
    BY <1>2 DEF Mkt!publish_listing
  <2>2. \A r : r.op = "publish" /\ r.on = {l} /\ r.to = "pending_review" => StillSo(r)
    BY <2>1 DEF StillSo
  <2> QED
    BY <2>1, <2>2, ReadStep
<1>3. ASSUME NEW l \in Items, Mkt!delete_listing(p, l) PROVE MarketInv' /\ UNCHANGED Mkt!phaseOf
  <2>1. Mkt!Read(p, "delete", {l}, "archived") /\ v1[l] \notin {"gone", "reserved"}
    BY <1>3 DEF Mkt!delete_listing, Mkt!MayDelete
  <2>2. \A r : r.op = "delete" /\ r.on = {l} /\ r.to = "archived" => StillSo(r)
    BY <2>1, <1>t DEF StillSo
  <2> QED
    BY <2>1, <2>2, ReadStep
<1>4. ASSUME NEW l \in Items, Mkt!approve_listing(p, l) PROVE MarketInv' /\ UNCHANGED Mkt!phaseOf
  <2>1. Mkt!Read(p, "approve", {l}, "active") /\ v1[l] = "pending_review"
    BY <1>4 DEF Mkt!approve_listing
  <2>2. \A r : r.op = "approve" /\ r.on = {l} /\ r.to = "active" => StillSo(r)
    BY <2>1 DEF StillSo
  <2> QED
    BY <2>1, <2>2, ReadStep
<1>5. ASSUME NEW l \in Items, Mkt!reject_listing(p, l) PROVE MarketInv' /\ UNCHANGED Mkt!phaseOf
  <2>1. Mkt!Read(p, "reject", {l}, "archived") /\ v1[l] = "pending_review"
    BY <1>5 DEF Mkt!reject_listing
  <2>2. \A r : r.op = "reject" /\ r.on = {l} /\ r.to = "archived" => StillSo(r)
    BY <2>1 DEF StillSo, Mkt!Statuses
  <2> QED
    BY <2>1, <2>2, ReadStep
<1>6. ASSUME NEW l \in Items, Mkt!delete_listing_admin(p,
l) PROVE MarketInv' /\ UNCHANGED Mkt!phaseOf
  <2>1. Mkt!Read(p, "remove", {l}, "gone") /\ v1[l] # "gone"
    BY <1>6 DEF Mkt!delete_listing_admin
  <2>2. \A r : r.op = "remove" /\ r.on = {l} /\ r.to = "gone" => StillSo(r)
    BY <2>1, <1>t DEF StillSo
  <2> QED
    BY <2>1, <2>2, ReadStep
<1>7. ASSUME NEW l \in Items, NEW s \in Mkt!Statuses, Mkt!set_listing_status(p, l, s) PROVE FALSE
  BY <1>7 DEF Mkt!set_listing_status, Mkt!Read, Mkt!SerialAssumption
<1> QED
  BY <1>1, <1>2, <1>3, <1>4, <1>5, <1>6, <1>7

-----------------------------------------------------------------------------
\* A commit writes what its handler read a moment ago.
LEMMA CommitStep ==
  ASSUME Mkt!SerialAssumption, MarketInv, NEW p \in Procs, Mkt!Commit(p)
  PROVE  MarketInv' /\ [MLife!Next]_Mkt!phaseOf
<1> DEFINE r == v4[p]
           W == Mkt!Written(r)
<1>1. /\ v1' = [l \in Items |-> IF l \in W THEN r.to ELSE v1[l]]
      /\ v2' = [l \in Items |-> IF l \in W /\ r.to = "gone" /\ v2[l] = "open"
                                     THEN "lost" ELSE v2[l]]
      /\ v3' = [l \in Items |-> IF l \in W THEN Mkt!TermAfter(l, r) ELSE v3[l]]
      /\ v4' = [v4 EXCEPT ![p] = Mkt!Idle]
      /\ r.op # "idle"
  BY DEF Mkt!Commit
<1>2. v4[p] # Mkt!Idle /\ StillSo(r)
  BY <1>1 DEF MarketInv, Reads, Mkt!Idle
<1>3. W \in {{}, r.on}
  BY DEF Mkt!Written
<1> HIDE DEF W
<1>4. W \in SUBSET Items /\ r.on \in SUBSET Items
  BY <1>2, <1>3 DEF StillSo
<1>t. /\ v1 \in [Items -> Mkt!Statuses \cup {"gone"}]
      /\ v2 \in [Items -> {"none", "open", "lost"}]
      /\ v3 \in [Items -> {"none", "later", "past"}]
      /\ Lasting /\ Mkt!ReservedIffDeal
  BY DEF MarketInv, MarketTyped
<1>5. \A q \in Procs : v4'[q] = Mkt!Idle
  BY <1>1, <1>2 DEF MarketInv, MarketTyped, Sole
<1>6. Sole' /\ Reads' /\ DOMAIN v4' = Procs
  BY <1>1, <1>5 DEF MarketInv, MarketTyped, Sole, Reads
<1>7. /\ r.to \in {"pending_review", "archived", "active", "gone"}
      /\ r.to = "active" <=> r.op = "approve"
      /\ r.to # "gone" => \A l \in r.on : v1[l] \in Mkt!Statuses \ {"reserved"}
      /\ r.to = "gone" => \A l \in r.on : v1[l] \in Mkt!Statuses
  BY <1>2 DEF StillSo, Mkt!Statuses, Mkt!SerialAssumption
<1>8. MarketTyped'
  BY <1>1, <1>4, <1>6, <1>7, <1>t DEF MarketTyped, Mkt!Statuses, Mkt!TermAfter
<1>9. Lasting' /\ Mkt!ReservedIffDeal'
  <2>1. ASSUME NEW l \in Items, l \notin W
        PROVE  v1'[l] = v1[l] /\ v2'[l] = v2[l] /\ v3'[l] = v3[l]
    BY <1>1, <2>1
  <2>2. ASSUME NEW l \in Items, l \in W
        PROVE  /\ v1'[l] = r.to /\ v2'[l] # "open"
               /\ v2'[l] = "lost" => r.to = "gone"
               /\ r.to = "active" => v3'[l] = "later"
    <3>1. /\ v1[l] \in Mkt!Statuses /\ (r.to # "gone" => v1[l] # "reserved")
          /\ v1'[l] = r.to
      BY <1>1, <1>3, <1>7, <2>2
    <3>2. v2[l] # "lost" /\ (v2[l] = "open" => r.to = "gone")
      BY <3>1, <1>t DEF Lasting, Mkt!ReservedIffDeal, Mkt!Statuses
    <3>3. v2'[l] = IF r.to = "gone" /\ v2[l] = "open" THEN "lost" ELSE v2[l]
      BY <1>1, <2>2
    <3>4. r.to = "active" => v3'[l] = "later"
      BY <1>1, <1>7, <2>2 DEF Mkt!TermAfter
    <3> QED
      BY <3>1, <3>2, <3>3, <3>4
  <2> QED
    BY <1>7, <1>t, <2>1, <2>2 DEF Lasting, Mkt!ReservedIffDeal
<1>10. Mkt!phaseOf' = [l \in Items |-> IF l \in W THEN r.to ELSE Mkt!phaseOf[l]]
  BY <1>1, <1>3, <1>4, <1>7, <1>t DEF Mkt!phaseOf, Mkt!ReservedIffDeal, Mkt!Statuses
<1>11. \A l \in Items : Mkt!phaseOf[l] = IF v1[l] = "reserved" THEN "held" ELSE v1[l]
  BY <1>t DEF Mkt!phaseOf, Mkt!ReservedIffDeal
<1>12. CASE W = {}
  <2>1. Mkt!phaseOf' = Mkt!phaseOf
    BY <1>10, <1>12 DEF Mkt!phaseOf
  <2> QED
    BY <2>1, <1>6, <1>8, <1>9 DEF MarketInv
<1>13. CASE W = r.on
  <2> USE DEF MLife!Next, MLife!Move
  <2>1. CASE r.to = "archived"
    <3>1. MLife!Withdraw(W)
      <4>1. \A l \in W : Mkt!phaseOf[l] \notin {"held", "gone"}
        BY <1>4, <1>11, <1>13, <1>7, <2>1 DEF Mkt!Statuses
      <4>2. Mkt!phaseOf' = [l \in Items |-> IF l \in W THEN "archived" ELSE Mkt!phaseOf[l]]
        BY <1>10, <2>1
      <4> QED
        BY <4>1, <4>2 DEF MLife!Withdraw
    <3> QED
      BY <3>1, <1>4, <1>6, <1>8, <1>9 DEF MarketInv
  <2>2. CASE r.to # "archived"
    <3>1. PICK l \in Items : r.on = {l}
      BY <1>2, <2>2 DEF StillSo
    <3>2. Mkt!phaseOf' = [Mkt!phaseOf EXCEPT ![l] = r.to]
      BY <3>1, <1>10, <1>13 DEF Mkt!phaseOf
    <3>3. CASE r.to = "pending_review"
      <4>1. MLife!Submit(l)
        BY <3>1, <3>2, <3>3, <1>7, <1>11 DEF MLife!Submit, Mkt!Statuses
      <4> QED
        BY <4>1, <1>6, <1>8, <1>9 DEF MarketInv
    <3>4. CASE r.to = "active"
      <4>1. v1[l] = "pending_review"
        BY <3>1, <3>4, <1>2 DEF StillSo
      <4>2. MLife!Approve(l)
        BY <3>2, <3>4, <4>1, <1>11 DEF MLife!Approve
      <4> QED
        BY <4>2, <1>6, <1>8, <1>9 DEF MarketInv
    <3>5. CASE r.to = "gone"
      <4>1. MLife!Remove(l)
        BY <3>1, <3>2, <3>5, <1>7, <1>11 DEF MLife!Remove, Mkt!Statuses
      <4> QED
        BY <4>1, <1>6, <1>8, <1>9 DEF MarketInv
    <3> QED
      BY <1>7, <2>2, <3>3, <3>4, <3>5
  <2> QED
    BY <2>1, <2>2
<1> QED
  BY <1>3, <1>12, <1>13

\* While all are idle a deal is made or ends, or time passes.
LEMMA DealStep ==
  ASSUME Mkt!SerialAssumption, MarketInv, \A q \in Procs : v4[q] = Mkt!Idle, NEW l \in Items,
         Mkt!reserve(l) \/ Mkt!DealEnds(l, "active") \/ Mkt!DealEnds(l, "sold") \/ Mkt!TimePasses(l)
  PROVE  MarketInv' /\ [MLife!Next]_Mkt!phaseOf
<1>t. /\ v1 \in [Items -> Mkt!Statuses \cup {"gone"}]
      /\ v2 \in [Items -> {"none", "open", "lost"}]
      /\ v3 \in [Items -> {"none", "later", "past"}]
      /\ Lasting /\ Mkt!ReservedIffDeal /\ Sole /\ DOMAIN v4 = Procs
  BY DEF MarketInv, MarketTyped
<1>i. ASSUME UNCHANGED v4 PROVE Sole' /\ Reads' /\ DOMAIN v4' = Procs
  BY <1>i, <1>t DEF Sole, Reads
<1>p. \A x \in Items : Mkt!phaseOf[x] = IF v1[x] = "reserved" THEN "held" ELSE v1[x]
  BY <1>t DEF Mkt!phaseOf, Mkt!ReservedIffDeal
<1>1. CASE Mkt!reserve(l)
  <2>1. /\ v1[l] = "active" /\ v2[l] = "none" /\ UNCHANGED <<v3, v4>>
        /\ v1' = [v1 EXCEPT ![l] = "reserved"] /\ v2' = [v2 EXCEPT ![l] = "open"]
    BY <1>1 DEF Mkt!reserve
  <2>2. MarketTyped' /\ Lasting' /\ Mkt!ReservedIffDeal'
    BY <2>1, <1>t DEF MarketTyped, Lasting, Mkt!ReservedIffDeal, Mkt!Statuses
  <2>3. Mkt!phaseOf' = [Mkt!phaseOf EXCEPT ![l] = "held"]
    BY <2>1, <1>t DEF Mkt!phaseOf
  <2>4. MLife!Hold(l)
    BY <2>1, <2>3, <1>p DEF MLife!Hold, MLife!Move
  <2> QED
    BY <2>1, <2>2, <2>4, <1>i DEF MarketInv, MLife!Next
<1>2. ASSUME NEW to \in {"active", "sold"}, Mkt!DealEnds(l, to)
      PROVE  MarketInv' /\ [MLife!Next]_Mkt!phaseOf
  <2>1. /\ v2[l] = "open" /\ UNCHANGED <<v3, v4>>
        /\ v1' = [v1 EXCEPT ![l] = to] /\ v2' = [v2 EXCEPT ![l] = "none"]
    BY <1>2 DEF Mkt!DealEnds
  <2>2. v1[l] = "reserved"
    BY <2>1, <1>t DEF Mkt!ReservedIffDeal
  <2>3. MarketTyped' /\ Lasting' /\ Mkt!ReservedIffDeal'
    BY <2>1, <2>2, <1>t DEF MarketTyped, Lasting, Mkt!ReservedIffDeal, Mkt!Statuses
  <2>4. Mkt!phaseOf' = [Mkt!phaseOf EXCEPT ![l] = to]
    BY <2>1, <1>t DEF Mkt!phaseOf
  <2>5. MLife!Free(l) \/ MLife!Sell(l)
    BY <2>2, <2>4, <1>p DEF MLife!Free, MLife!Sell, MLife!Move
  <2> QED
    BY <2>1, <2>3, <2>5, <1>i DEF MarketInv, MLife!Next
<1>3. CASE Mkt!TimePasses(l)
  <2>1. v3' = [v3 EXCEPT ![l] = "past"] /\ UNCHANGED <<v1, v2, v4>>
    BY <1>3 DEF Mkt!TimePasses
  <2>2. MarketTyped' /\ Lasting' /\ Mkt!ReservedIffDeal' /\ UNCHANGED Mkt!phaseOf
    BY <2>1, <1>t DEF MarketTyped, Lasting, Mkt!ReservedIffDeal, Mkt!phaseOf
  <2> QED
    BY <2>1, <2>2, <1>i DEF MarketInv
<1> QED
  BY <1>1, <1>2, <1>3

-----------------------------------------------------------------------------
SerialNext == Mkt!Next /\ Mkt!OneAtATime

LEMMA MarketMoves ==
  Mkt!SerialAssumption /\ MarketInv /\ [SerialNext]_Mkt!vars
    => MarketInv' /\ [MLife!Next]_Mkt!phaseOf
<1> SUFFICES ASSUME Mkt!SerialAssumption, MarketInv, [SerialNext]_Mkt!vars
             PROVE  MarketInv' /\ [MLife!Next]_Mkt!phaseOf
  OBVIOUS
<1>1. CASE UNCHANGED Mkt!vars
  BY <1>1 DEF Mkt!vars, MarketInv, MarketTyped, Sole, Reads, StillSo, Lasting,
              Mkt!ReservedIffDeal, Mkt!phaseOf
<1>2. CASE \E p \in Procs : Mkt!Commit(p)
  BY <1>2, CommitStep
<1>3. CASE Mkt!Next /\ \A p \in Procs : v4[p] = Mkt!Idle
  BY <1>2, <1>3, Reading, DealStep DEF Mkt!Next
<1> QED
  BY <1>1, <1>2, <1>3 DEF SerialNext, Mkt!OneAtATime

HIDE DEF MarketOps

LEMMA MarketOffers == Mkt!SerialAssumption
BY DEF Mkt!SerialAssumption, Mkt!Statuses

Market == open = "market" => MarketInv

LEMMA MarketStep ==
  /\ Init => Market
  /\ Market /\ [Next]_shell => Market'
  /\ Market /\ [Next]_shell /\ open = "market" => [MLife!Next]_Mkt!phaseOf
<1>1. Init => Market
  BY MarketInit DEF Init, Market
<1>2. ASSUME Market, [Next]_shell, open = "market" PROVE MarketInv' /\ [MLife!Next]_Mkt!phaseOf
  <2>1. [SerialNext]_Mkt!vars
    BY <1>2 DEF Next, shell, Mkt!vars, SerialNext
  <2> QED
    BY <1>2, <2>1, MarketOffers, MarketMoves DEF Market
<1> QED
  BY <1>1, <1>2, Stays DEF Market

LEMMA MarketKept == Market => (open = "market" => Mkt!TypeOK /\ Mkt!ReservedIffDeal)
BY MarketTypes DEF Market, MarketInv

-----------------------------------------------------------------------------
(* check_rate_limit: v1[m] is the step a request is at, v2[m] its age, v3 the members of the key *)
(* and v4 what is left of its life.  A request's commands arrive within Delay, the key outlives  *)
(* every request of the last window, and no command takes one of these out of the set.           *)
Asking == Items \cup {"m"}

Remembered ==
  \A m \in Asking : v1[m] = "admitted" /\ v2[m] < Window =>
    m \in v3 /\ v4 + v2[m] >= Window + Slack

Prompt == \A m \in Asking : v1[m] = "stamped" => v2[m] <= Delay

Waiting == Rat!TypeOK /\ Prompt /\ Remembered /\ Rat!WindowKept

USE DEF Asking

LEMMA RateCounts == \A S : Rat!Cardinality(S) = Cardinality(S) /\ Rat!IsFiniteSet(S) = IsFiniteSet(S)
BY DEF Rat!Cardinality, Cardinality, Rat!IsFiniteSet, IsFiniteSet

LEMMA RateSizes ==
  ASSUME Rat!RateAssumption
  PROVE  /\ Limit \in Nat /\ Window \in Nat /\ Slack \in Nat /\ Delay \in Nat /\ Window > Delay
         /\ Rat!Old \in Nat /\ Rat!Old = Window + Delay /\ Limit > 0
         /\ \A S : S \subseteq Asking => IsFiniteSet(S) /\ Cardinality(S) \in Nat
         /\ \A S : Rat!Cardinality(S) = Cardinality(S)
BY RateCounts, FS_Subset, FS_CardinalityType DEF Rat!RateAssumption, Rat!Old

\* Fewer requests of a stretch that keeps the limit keep it.
LEMMA Fewer ==
  ASSUME Rat!RateAssumption, NEW S \in SUBSET Asking, NEW T \in SUBSET S, Cardinality(S) <= Limit
  PROVE  Cardinality(T) <= Limit
<1>1. /\ IsFiniteSet(S) /\ Cardinality(S) \in Nat /\ Limit \in Nat
      /\ Cardinality(T) \in Nat /\ T \subseteq Asking
  BY RateSizes
<1>2. Cardinality(T) <= Cardinality(S)
  BY <1>1, FS_Subset
<1> QED
  BY <1>1, <1>2

LEMMA RateInit == ASSUME Rat!RateAssumption, Rat!Init PROVE Waiting
<1>1. \A a, b \in Int : Rat!Admitted(a, b) = {}
  BY DEF Rat!Admitted, Rat!Init
<1> QED
  BY <1>1, RateSizes, FS_EmptySet DEF Rat!Init, Waiting, Rat!TypeOK, Prompt, Remembered,
                                      Rat!WindowKept

LEMMA RateTypes == ASSUME Rat!RateAssumption, Waiting, [Rat!Next]_Rat!vars PROVE Rat!TypeOK'
<1> USE RateSizes DEF Waiting, Rat!TypeOK
<1>1. ASSUME NEW m \in Asking, Rat!Stamp(m) \/ Rat!Zrem(m) \/ Rat!Crash(m) PROVE Rat!TypeOK'
  BY <1>1 DEF Rat!Stamp, Rat!Zrem, Rat!TakenOut, Rat!Crash
<1>2. ASSUME NEW m \in Asking, Rat!Execute(m) PROVE Rat!TypeOK'
  BY <1>2 DEF Rat!Execute, Rat!Recent
<1>3. CASE Rat!get_remaining_requests
  BY <1>3 DEF Rat!get_remaining_requests, Rat!Recent
<1>4. CASE Rat!Tick
  BY <1>4 DEF Rat!Tick, Rat!Left
<1>5. CASE UNCHANGED Rat!vars
  BY <1>5 DEF Rat!vars
<1> QED
  BY <1>1, <1>2, <1>3, <1>4, <1>5 DEF Rat!Next

LEMMA RateMemory == ASSUME Rat!RateAssumption, Waiting,
[Rat!Next]_Rat!vars PROVE Prompt' /\ Remembered'
<1> USE RateSizes DEF Waiting, Rat!TypeOK, Prompt, Remembered
<1>1. ASSUME NEW m \in Asking,
Rat!Stamp(m) \/ Rat!Zrem(m) \/ Rat!Crash(m) PROVE Prompt' /\ Remembered'
  BY <1>1 DEF Rat!Stamp, Rat!Zrem, Rat!TakenOut, Rat!Crash
<1>2. ASSUME NEW m \in Asking, Rat!Execute(m) PROVE Prompt' /\ Remembered'
  BY <1>2 DEF Rat!Execute, Rat!Recent
<1>3. CASE Rat!get_remaining_requests
  BY <1>3 DEF Rat!get_remaining_requests, Rat!Recent
<1>4. CASE Rat!Tick
  BY <1>4 DEF Rat!Tick, Rat!Left
<1>5. CASE UNCHANGED Rat!vars
  BY <1>5 DEF Rat!vars
<1> QED
  BY <1>1, <1>2, <1>3, <1>4, <1>5 DEF Rat!Next

\* The stretch of ages that WindowKept bounds.
Stretch(a) == Rat!Admitted(a, a + Window - Delay)

LEMMA RateWindow == ASSUME Rat!RateAssumption, Waiting, [Rat!Next]_Rat!vars PROVE Rat!WindowKept'
<1> USE RateSizes DEF Waiting, Rat!TypeOK
<1> SUFFICES ASSUME NEW a \in 0..Delay PROVE Cardinality(Stretch(a)') <= Limit
  BY DEF Rat!WindowKept, Stretch
<1>1. \A b \in 0..Delay : Stretch(b) \in SUBSET Asking /\ Cardinality(Stretch(b)) <= Limit
  BY DEF Rat!WindowKept, Stretch, Rat!Admitted
<1>2. ASSUME NEW m \in Asking, Rat!Stamp(m) \/ Rat!Zrem(m) \/ Rat!Crash(m)
      PROVE  Cardinality(Stretch(a)') <= Limit
  <2>1. Stretch(a)' \subseteq Stretch(a)
    BY <1>2 DEF Stretch, Rat!Admitted, Rat!Stamp, Rat!Zrem, Rat!Crash
  <2> QED
    BY <1>1, <2>1, Fewer
<1>3. ASSUME NEW m \in Asking, Rat!Execute(m)
      PROVE  Cardinality(Stretch(a)') <= Limit
  <2>1. /\ \A x \in Asking \ {m} : v1'[x] = v1[x]
        /\ v2' = v2 /\ v2[m] <= Delay
        /\ v1'[m] = "admitted" => Cardinality(Rat!Executed(m)) <= Limit
        /\ Rat!Executed(m) \in SUBSET Asking
    BY <1>3 DEF Rat!Execute, Rat!Executed, Rat!Recent, Prompt
  <2>2. CASE m \in Stretch(a)'
    <3>1. Stretch(a)' \subseteq Rat!Executed(m)
      BY <2>1, <2>2 DEF Stretch, Rat!Admitted, Rat!Executed, Rat!Recent, Remembered
    <3>2. v1'[m] = "admitted"
      BY <2>2 DEF Stretch, Rat!Admitted
    <3> QED
      BY <2>1, <3>1, <3>2, Fewer
  <2>3. CASE m \notin Stretch(a)'
    <3>1. Stretch(a)' \subseteq Stretch(a)
      BY <2>1, <2>3 DEF Stretch, Rat!Admitted
    <3> QED
      BY <1>1, <3>1, Fewer
  <2> QED
    BY <2>2, <2>3
<1>4. CASE Rat!get_remaining_requests \/ UNCHANGED Rat!vars
  BY <1>1, <1>4 DEF Rat!get_remaining_requests, Rat!vars, Stretch, Rat!Admitted
<1>5. CASE Rat!Tick
  <2>1. /\ v1' = v1
        /\ v2' = [m \in Asking |-> IF v2[m] < Rat!Old THEN v2[m] + 1 ELSE Rat!Old]
    BY <1>5 DEF Rat!Tick
  <2>2. CASE a = 0
    <3>1. Stretch(a)' \subseteq Stretch(a)
      BY <2>1, <2>2 DEF Stretch, Rat!Admitted
    <3> QED
      BY <1>1, <3>1, Fewer
  <2>3. CASE a # 0
    <3>1. a - 1 \in 0..Delay /\ Stretch(a)' \subseteq Stretch(a - 1)
      BY <2>1, <2>3 DEF Stretch, Rat!Admitted
    <3> QED
      BY <1>1, <3>1, Fewer
  <2> QED
    BY <2>2, <2>3
<1> QED
  BY <1>2, <1>3, <1>4, <1>5 DEF Rat!Next

HIDE DEF Asking

Rate == open = "rate" => Waiting

LEMMA RateStep == (Init => Rate) /\ (Rate /\ [Next]_shell => Rate')
<1>1. Init => Rate
  BY RateIsSet, RateInit DEF Init, Rate
<1>2. ASSUME Rate, [Next]_shell, open' = "rate" PROVE Waiting'
  <2>1. open = "rate" /\ [Rat!Next]_Rat!vars
    BY <1>2, Stays DEF Next, shell, Rat!vars
  <2> QED
    BY <1>2, <2>1, RateIsSet, RateTypes, RateMemory, RateWindow DEF Rate, Waiting
<1> QED
  BY <1>1, <1>2 DEF Rate

-----------------------------------------------------------------------------
(* The services together: the invariant of the one that is open holds.     *)
IInv == Deposit /\ Viewings /\ Sessions /\ Logout /\ Market /\ Rate

LEMMA Invariant == Spec => []IInv
<1>1. Init => IInv
  BY DepositStep, ViewingsStep, SessionsStep, LogoutStep, MarketStep, RateStep DEF IInv
<1>2. IInv /\ [Next]_shell => IInv'
  BY DepositStep, ViewingsStep, SessionsStep, LogoutStep, MarketStep, RateStep DEF IInv
<1> QED
  BY <1>1, <1>2, PTL DEF Spec

(* The columns, rows, caches and keys of the services hold what the code stores in them. *)
THEOREM ServicesTyped == Spec => []TypeOK
<1>1. IInv => TypeOK
  BY DepositKept, ViewingsKept, SessionsKept, LogoutKept, MarketKept DEF IInv, Rate, Waiting, TypeOK
<1> QED
  BY <1>1, Invariant, PTL

(* reserve of api/routes/reservations.py: whatever requests are repeated or lose their answer,
for  *)
(* any number of them,
one reservation of the car is open and no deposit is held that its row does  *)
(* not know of; and a listing is reserved exactly while it has a deal.                              *)
THEOREM DepositAlwaysKept == Spec => []DepositIsKept
<1>1. IInv => DepositIsKept
  BY DepositKept, MarketKept DEF IInv, DepositIsKept
<1> QED
  BY <1>1, Invariant, PTL

(* book_viewing and delete_viewing_window: a window has one live booking and is not deleted under   *)
(* it,
for any number of sessions that move bookings without a lock.                                *)
THEOREM WindowsAlwaysKept == Spec => []WindowsAreKept
<1>1. IInv => WindowsAreKept
  BY ViewingsKept DEF IInv, WindowsAreKept
<1> QED
  BY <1>1, Invariant, PTL

(* cancel, decline and the jobs: a cancelled reservation has given its window back,
unless two      *)
(* sessions worked on it at a time.                                                                 *)
THEOREM CancelledAlwaysFrees == Spec => []CancelledFreesWindow
<1>1. IInv => CancelledFreesWindow
  BY ViewingsKept DEF IInv, CancelledFreesWindow
<1> QED
  BY <1>1, Invariant, PTL

(* get_current_user: a cached row that is not the committed one was read before a change and cached *)
(* after it, or its deletion is under way,
for any number of requests in flight.                    *)
THEOREM StaleAlwaysHasCause == Spec => []StaleHasCause
<1>1. IInv => StaleHasCause
  BY SessionsKept DEF IInv, StaleHasCause
<1> QED
  BY <1>1, Invariant, PTL

(* logout: once it answered, neither token of the pair is let through, unless Redis failed,
for any *)
(* number of requests in flight.                                                                    *)
THEOREM LogoutAlwaysHolds == Spec => []LogoutHolds
<1>1. IInv => LogoutHolds
  BY LogoutKept DEF IInv, LogoutHolds
<1> QED
  BY <1>1, Invariant, PTL

(* check_rate_limit: however the requests of an identity interleave,
crash between the pipeline and *)
(* zrem, or arrive late,
no stretch of a window less the longest delay holds more that were let     *)
(* through than the limit, whatever the limit,
the window and the delay.                            *)
THEOREM WindowAlwaysKept == Spec => []WindowKept
<1>1. IInv => WindowKept
  BY DEF IInv, Rate, Waiting, WindowKept
<1> QED
  BY <1>1, Invariant, PTL

-----------------------------------------------------------------------------
(* The life of the listings. *)
Phase == [l \in Items |-> IF open = "market" THEN Mkt!phaseOf[l] ELSE "draft"]

LEMMA PhaseOf ==
  ASSUME open = "market", open' = "market"
  PROVE  Phase = Mkt!phaseOf /\ Phase' = Mkt!phaseOf'
BY DEF Phase, Mkt!phaseOf

\* A move of the phases is one of Phase, which they are.
LEMMA SameMove ==
  ASSUME open = "market", open' = "market"
  PROVE  /\ \A l, From, to : MLife!Move(l, From, to) => Life!Move(l, From, to)
         /\ \A S : MLife!Withdraw(S) => Life!Withdraw(S)
<1>1. /\ \A l, From, to : Life!Move(l, From, to) <=>
           Phase[l] \in From /\ Phase' = [Phase EXCEPT ![l] = to]
      /\ \A S : Life!Withdraw(S) <=>
           /\ \A l \in S : Phase[l] \notin {"held", "gone"}
           /\ Phase' = [l \in Items |-> IF l \in S THEN "archived" ELSE Phase[l]]
  BY DEF Life!Move, Life!Withdraw, Phase
<1> QED
  BY <1>1, PhaseOf DEF MLife!Move, MLife!Withdraw

(* Marketplace implements ListingLifecycle: while its handlers run one after the other,
every step  *)
(* of the seller, the moderators, the job and the deals is a move of it,
for any number of listings. *)
THEOREM LifecycleIsKept == Spec => Lifecycle
<1>1. Init => Life!Init
  BY DEF Init, Mkt!Init, Mkt!phaseOf, Life!Init
<1>2. ASSUME IInv, [Next]_shell
      PROVE  [Life!Next]_[l \in Items |-> IF open = "market" THEN Mkt!phaseOf[l] ELSE "draft"]
  <2>1. CASE open # "market"
    BY <1>2, <2>1, Stays
  <2>2. CASE open = "market"
    <3>1. [MLife!Next]_Mkt!phaseOf
      BY <1>2, <2>2, MarketStep DEF IInv
    <3>2. open' = "market"
      BY <1>2, <2>2, Stays
    <3>3. CASE MLife!Next
      BY <2>2, <3>2, <3>3, SameMove
      DEF Life!Next, Life!Submit, Life!Approve, Life!Hold, Life!Free, Life!Sell, Life!Remove,
          MLife!Next, MLife!Submit, MLife!Approve, MLife!Hold, MLife!Free,
          MLife!Sell, MLife!Remove
    <3>4. CASE Mkt!phaseOf' = Mkt!phaseOf
      BY <2>2, <3>2, <3>4, PhaseOf DEF Phase
    <3> QED
      BY <3>1, <3>3, <3>4
  <2> QED
    BY <2>1, <2>2
<1> QED
  BY <1>1, <1>2, Invariant, PTL DEF Spec, Lifecycle, Life!Spec
===============================================================================
