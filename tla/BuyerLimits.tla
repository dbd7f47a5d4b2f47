---------------------------- MODULE BuyerLimits ----------------------------
(***************************************************************************)
(* What keeps one buyer from holding too many cars: the limit on           *)
(* unfinished reservations, the pause after an early cancellation, and the *)
(* delay of the refund that grows with the cancellations of a month        *)
(* (api/routes/reservations.py).  Every process serves one request of the  *)
(* buyer at a time; a request reads and writes in steps of its own         *)
(* transaction.  What a deal does besides is module Reservations.          *)
(***************************************************************************)
EXTENDS Naturals, FiniteSets

CONSTANTS
  Procs,    \* requests of the buyer the server handles at once
  Listings, \* cars on sale
  Res,      \* rows of reservations that may come to be: the bound of a run
  Max,      \* MAX_ACTIVE_RESERVATIONS_PER_BUYER
  Top,      \* the last index of REFUND_DELAY_TIERS_SECONDS
  None

ASSUME LimitAssumption ==
  /\ IsFiniteSet(Procs) /\ Procs # {}
  /\ IsFiniteSet(Res)
  /\ Max \in Nat /\ Top \in Nat

VARIABLES
  row,      \* the buyer's reservations
  cooldown, \* the key reserve_cooldown of the buyer is in Redis
  cooling,  \* what the key stands for: a deal was cancelled early, within the day
  at        \* what each process is at

vars == <<row, cooldown, cooling, at>>

Unfinished == {"pending", "active", "settling"}
Confirmed == {"active", "settling"}
Statuses == Unfinished \cup {"free", "completed", "cancelled"}

NoRow == [status |-> "free", listing |-> None, reason |-> "none", tier |-> 0,
          fresh |-> FALSE]
Idle == [step |-> "idle", listing |-> None, res |-> None, was |-> FALSE,
         early |-> FALSE, tier |-> 0]

Open == {r \in Res : row[r].status \in Unfinished}
Admitted == {p \in Procs : at[p].step = "insert"}

TypeOK ==
  /\ row \in [Res -> [status : Statuses, listing : Listings \cup {None},
                      reason : {"none", "buyer", "abandoned", "other"},
                      tier : 0..Top, fresh : BOOLEAN]]
  /\ cooldown \in BOOLEAN /\ cooling \in BOOLEAN
  /\ at \in [Procs -> [step : {"idle", "cooldown", "count", "insert", "hold",
                               "tier", "write", "cool"},
                       listing : Listings \cup {None}, res : Res \cup {None},
                       was : BOOLEAN, early : BOOLEAN, tier : 0..Top]]

Init ==
  /\ row = [r \in Res |-> NoRow]
  /\ cooldown = FALSE /\ cooling = FALSE
  /\ at = [p \in Procs |-> Idle]

-----------------------------------------------------------------------------
(* reserve. The row of the listing is locked until the request commits or ends. *)

Locked(l) == \E p \in Procs : /\ at[p].listing = l
                              /\ at[p].step \in {"cooldown", "count", "insert"}
Taken(l) == \E r \in Open : row[r].listing = l

Lock(p, l) ==
  /\ at[p].step = "idle"
  /\ ~Locked(l) /\ ~Taken(l)
  /\ at' = [at EXCEPT ![p] = [Idle EXCEPT !.step = "cooldown", !.listing = l]]
  /\ UNCHANGED <<row, cooldown, cooling>>

CheckCooldown(p) ==
  /\ at[p].step = "cooldown"
  /\ at' = [at EXCEPT ![p] = IF cooldown THEN Idle ELSE [@ EXCEPT !.step = "count"]]
  /\ UNCHANGED <<row, cooldown, cooling>>

\* Counted: the rows count_active_for_buyer sees: all that are committed and not terminal.
CountedBug == {r \in Res : row[r].status \in Confirmed}
Counted == Open

MayReserveBug(n) == n <= Max
MayReserve(n) == n < Max

CountActive(p) ==
  /\ at[p].step = "count"
  /\ at' = [at EXCEPT ![p] = IF MayReserve(Cardinality(Counted))
                             THEN [@ EXCEPT !.step = "insert"] ELSE Idle]
  /\ UNCHANGED <<row, cooldown, cooling>>

Insert(p, r) ==
  /\ at[p].step = "insert"
  /\ row[r].status = "free"
  /\ row' = [row EXCEPT ![r] = [NoRow EXCEPT !.status = "pending", !.fresh = TRUE,
                                             !.listing = at[p].listing]]
  /\ at' = [at EXCEPT ![p] = [Idle EXCEPT !.step = "hold", !.res = r]]
  /\ UNCHANGED <<cooldown, cooling>>

HoldMade(p) ==
  /\ at[p].step = "hold"
  /\ at' = [at EXCEPT ![p] = Idle]
  /\ UNCHANGED <<row, cooldown, cooling>>

\* HoldFails: the row as this request knows it is pending, and is written so.
HoldFails(p) ==
  /\ at[p].step = "hold"
  /\ row' = [row EXCEPT ![at[p].res].status = "cancelled",
                        ![at[p].res].reason = "abandoned"]
  /\ at' = [at EXCEPT ![p] = Idle]
  /\ UNCHANGED <<cooldown, cooling>>

-----------------------------------------------------------------------------
(* cancel_reservation, by the buyer. *)

CancelRead(p, r) ==
  /\ at[p].step = "idle"
  /\ row[r].status \in Unfinished
  /\ LET was == row[r].status \in Confirmed IN
     at' = [at EXCEPT ![p] = [Idle EXCEPT !.res = r, !.was = was,
                                          !.early = was /\ row[r].fresh,
                                          !.step = IF was THEN "tier" ELSE "write"]]
  /\ UNCHANGED <<row, cooldown, cooling>>

ByBuyer == {r \in Res : row[r].status = "cancelled" /\ row[r].reason = "buyer"}
TierOfLong(n) == n
TierOf(n) == IF n < Top THEN n ELSE Top

CountCancels(p) ==
  /\ at[p].step = "tier"
  /\ at' = [at EXCEPT ![p].tier = TierOf(Cardinality(ByBuyer)), ![p].step = "write"]
  /\ UNCHANGED <<row, cooldown, cooling>>

AfterCancelBug(p) == Idle
AfterCancel(p) == IF at[p].early THEN [at[p] EXCEPT !.step = "cool"] ELSE Idle

\* WriteCancel: the commit; the listing is free from here on.
WriteCancel(p) ==
  /\ at[p].step = "write"
  /\ LET r == at[p].res IN
     /\ row' = [row EXCEPT ![r].status = "cancelled", ![r].reason = "buyer",
                           ![r].tier = IF at[p].tier > 0 THEN at[p].tier ELSE @]
     /\ cooling' = (cooling \/ (row[r].status \in Confirmed /\ row[r].fresh))
  /\ at' = [at EXCEPT ![p] = AfterCancel(p)]
  /\ UNCHANGED cooldown

SetCooldown(p) ==
  /\ at[p].step = "cool"
  /\ cooldown' = TRUE
  /\ at' = [at EXCEPT ![p] = Idle]
  /\ UNCHANGED <<row, cooling>>

\* Crash: the process ends, or Redis or the database refuses: nothing more is written.
Crash(p) ==
  /\ at[p].step # "idle"
  /\ at' = [at EXCEPT ![p] = Idle]
  /\ UNCHANGED <<row, cooldown, cooling>>

-----------------------------------------------------------------------------
(* What others do to the buyer's reservations. *)

Becomes(r, from, to, why) ==
  /\ row[r].status \in from
  /\ row' = [row EXCEPT ![r].status = to, ![r].reason = why]
  /\ UNCHANGED <<cooldown, cooling, at>>

\* A hold whose payment is not known yet cannot be confirmed.
Confirm(r) == /\ \A p \in Procs : ~(at[p].step = "hold" /\ at[p].res = r)
              /\ Becomes(r, {"pending"}, "active", "none")
Settle(r) == Becomes(r, {"active"}, "settling", "none")
Finalize(r) == Becomes(r, {"settling"}, "completed", "none")
EndedByOther(r) == Becomes(r, {"pending", "active"}, "cancelled", "other")

\* Ages: EARLY_CANCEL_WINDOW_SECONDS have passed since the reservation was made.
Ages(r) ==
  /\ row[r].fresh
  /\ row' = [row EXCEPT ![r].fresh = FALSE]
  /\ UNCHANGED <<cooldown, cooling, at>>

\* DayPasses: EARLY_CANCEL_COOLDOWN_SECONDS, longer than any request.
DayPasses ==
  /\ cooldown \/ cooling
  /\ \A p \in Procs : at[p].step = "idle"
  /\ cooldown' = FALSE /\ cooling' = FALSE
  /\ row' = [r \in Res |-> [row[r] EXCEPT !.fresh = FALSE]]
  /\ UNCHANGED at

Request(p) ==
  \/ \E l \in Listings : Lock(p, l)
  \/ CheckCooldown(p)
  \/ CountActive(p)
  \/ \E r \in Res : Insert(p, r)
  \/ HoldMade(p)
  \/ HoldFails(p)
  \/ \E r \in Res : CancelRead(p, r)
  \/ CountCancels(p)
  \/ WriteCancel(p)
  \/ SetCooldown(p)
  \/ Crash(p)

World(r) == Confirm(r) \/ Settle(r) \/ Finalize(r) \/ EndedByOther(r) \/ Ages(r)

Next ==
  \/ \E p \in Procs : Request(p)
  \/ \E r \in Res : World(r)
  \/ DayPasses

Spec == Init /\ [][Next]_vars

\* One request at a time, to its end, and nothing changes under it.
Whole ==
  /\ Cardinality({p \in Procs : at'[p].step # "idle"}) <= 1
  /\ at' = at => \A p \in Procs : at[p].step = "idle"
  /\ \A p \in Procs : (at[p].step = "cool" /\ at'[p].step = "idle") => cooldown'

-----------------------------------------------------------------------------
(* Properties. *)

(* Of requests that overlap every one but the first may slip past the limit, *)
(* and no more: count_active_for_buyer sees all that is committed.           *)
SlipsAreBounded ==
  Cardinality(Open) + Cardinality(Admitted) <= Max + Cardinality(Procs) - 1

-----------------------------------------------------------------------------
(* What holds of a buyer whose requests come one at a time, and is refuted    *)
(* when they overlap: see the README.                                         *)

(* A buyer holds at most MAX_ACTIVE_RESERVATIONS_PER_BUYER reservations that *)
(* are not finished (the check of reserve).                                  *)
LimitKept == Cardinality(Open) <= Max

(* No reservation is made within a day of a deal cancelled early (the key    *)
(* reserve_cooldown that cancel_reservation sets and reserve looks for).     *)
CooldownKept ==
  [][\A r \in Res : (row[r].status = "free" /\ row'[r].status = "pending") => ~cooling]_vars

(* No two deals that a buyer cancels share a delay, but for the longest: every *)
(* cancellation counts towards the next (_refund_delay_seconds over              *)
(* count_buyer_cancels_in_window).                                               *)
DelaysDiffer ==
  \A r, s \in ByBuyer :
    (row[r].tier = row[s].tier /\ row[r].tier \in 1..(Top - 1)) => r = s
=============================================================================
