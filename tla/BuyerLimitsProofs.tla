------------------------- MODULE BuyerLimitsProofs -------------------------
(***************************************************************************)
(* For any number of processes, cars, rows and any limit: how far the      *)
(* reservations of a buyer can go past MAX_ACTIVE_RESERVATIONS_PER_BUYER.  *)
(***************************************************************************)
EXTENDS MCBuyerLimits, FiniteSetTheorems, TLAPS

Slots == [status : Statuses, listing : Listings \cup {None},
          reason : {"none", "buyer", "abandoned", "other"},
          tier : 0..Top, fresh : BOOLEAN]
Sessions == [step : {"idle", "cooldown", "count", "insert", "hold", "tier", "write", "cool"},
             listing : Listings \cup {None}, res : Res \cup {None},
             was : BOOLEAN, early : BOOLEAN, tier : 0..Top]

-----------------------------------------------------------------------------
(* The types. *)

(* Statuses of the rows counted are statuses: what is open is finite. *)
LEMMA Finite ==
  /\ IsFiniteSet(Open) /\ Cardinality(Open) \in Nat
  /\ IsFiniteSet(Admitted) /\ Cardinality(Admitted) \in Nat
  /\ Cardinality(Admitted) <= Cardinality(Procs)
  /\ IsFiniteSet(ByBuyer) /\ Cardinality(ByBuyer) \in Nat
  /\ Cardinality(Procs) \in Nat \ {0}
<1>1. Open \subseteq Res /\ Admitted \subseteq Procs /\ ByBuyer \subseteq Res
  BY DEF Open, Admitted, ByBuyer
<1>2. IsFiniteSet(Res) /\ IsFiniteSet(Procs) /\ Procs # {}
  BY LimitAssumption
<1>3. IsFiniteSet(Open) /\ IsFiniteSet(Admitted) /\ IsFiniteSet(ByBuyer)
  BY <1>1, <1>2, FS_Subset
<1>4. Cardinality(Admitted) <= Cardinality(Procs)
  BY <1>1, <1>2, FS_Subset
<1>5. Cardinality(Procs) # 0
  BY <1>2, FS_EmptySet
<1> QED
  BY <1>2, <1>3, <1>4, <1>5, FS_CardinalityType

(* A tier is an index of the list. *)
LEMMA TierIsIndex == ASSUME NEW n \in Nat PROVE TierOf(n) \in 0..Top
BY LimitAssumption DEF TierOf

(* A row or a process is changed to another of its type. *)
LEMMA TypeStep == TypeOK /\ [Next]_vars => TypeOK'
<1> SUFFICES ASSUME TypeOK, [Next]_vars PROVE TypeOK'
  OBVIOUS
<1>t. /\ row \in [Res -> Slots] /\ at \in [Procs -> Sessions]
      /\ cooldown \in BOOLEAN /\ cooling \in BOOLEAN /\ Top \in Nat
  BY LimitAssumption DEF TypeOK, Slots, Sessions
<1>i. Idle \in Sessions /\ NoRow \in Slots
  BY <1>t DEF Idle, NoRow, Sessions, Slots, Statuses
<1>s. SUFFICES /\ row' \in [Res -> Slots] /\ at' \in [Procs -> Sessions]
               /\ cooldown' \in BOOLEAN /\ cooling' \in BOOLEAN
  BY DEF TypeOK, Slots, Sessions
<1>1. CASE UNCHANGED vars
  BY <1>1, <1>t DEF vars
<1>2. ASSUME NEW p \in Procs, NEW l \in Listings, Lock(p, l) PROVE <1>s!1
  <2>1. [Idle EXCEPT !.step = "cooldown", !.listing = l] \in Sessions
    BY <1>i DEF Sessions
  <2> QED BY <1>2, <1>t, <2>1 DEF Lock
<1>3. ASSUME NEW p \in Procs, CheckCooldown(p) PROVE <1>s!1
  <2>1. [at[p] EXCEPT !.step = "count"] \in Sessions
    BY <1>t DEF Sessions
  <2> QED BY <1>3, <1>t, <1>i, <2>1 DEF CheckCooldown
<1>4. ASSUME NEW p \in Procs, CountActive(p) PROVE <1>s!1
  <2>1. [at[p] EXCEPT !.step = "insert"] \in Sessions
    BY <1>t DEF Sessions
  <2> QED BY <1>4, <1>t, <1>i, <2>1 DEF CountActive
<1>5. ASSUME NEW p \in Procs, NEW r \in Res, Insert(p, r) PROVE <1>s!1
  <2>1. [NoRow EXCEPT !.status = "pending", !.fresh = TRUE, !.listing = at[p].listing] \in Slots
    BY <1>i, <1>t DEF Slots, Sessions, Statuses, Unfinished
  <2>2. [Idle EXCEPT !.step = "hold", !.res = r] \in Sessions
    BY <1>i DEF Sessions
  <2> QED BY <1>5, <1>t, <2>1, <2>2 DEF Insert
<1>6. ASSUME NEW p \in Procs, HoldMade(p) \/ Crash(p) PROVE <1>s!1
  BY <1>6, <1>t, <1>i DEF HoldMade, Crash
<1>7. ASSUME NEW p \in Procs, HoldFails(p) PROVE <1>s!1
  <2>1. ASSUME at[p].res \in Res
        PROVE [row[at[p].res] EXCEPT !.status = "cancelled", !.reason = "abandoned"] \in Slots
    BY <1>t, <2>1 DEF Slots, Statuses
  <2>2. row' \in [Res -> Slots]
    BY <1>7, <1>t, <2>1 DEF HoldFails
  <2> QED BY <1>7, <1>t, <1>i, <2>2 DEF HoldFails
<1>8. ASSUME NEW p \in Procs, NEW r \in Res, CancelRead(p, r) PROVE <1>s!1
  <2> DEFINE was == row[r].status \in Confirmed
             s == [Idle EXCEPT !.res = r, !.was = was, !.early = was /\ row[r].fresh,
                               !.step = IF was THEN "tier" ELSE "write"]
  <2>1. was \in BOOLEAN /\ (was /\ row[r].fresh) \in BOOLEAN
    BY <1>t DEF Slots
  <2>2. s \in Sessions
    BY <1>i, <2>1 DEF Sessions
  <2>3. at' = [at EXCEPT ![p] = s]
    BY <1>8 DEF CancelRead
  <2> QED BY <1>8, <1>t, <2>2, <2>3 DEF CancelRead
<1>9. ASSUME NEW p \in Procs, CountCancels(p) PROVE <1>s!1
  <2>1. TierOf(Cardinality(ByBuyer)) \in 0..Top
    BY Finite, TierIsIndex
  <2>2. [at[p] EXCEPT !.tier = TierOf(Cardinality(ByBuyer)), !.step = "write"] \in Sessions
    BY <1>t, <2>1 DEF Sessions
  <2> QED BY <1>9, <1>t, <2>2 DEF CountCancels
<1>10. ASSUME NEW p \in Procs, WriteCancel(p) PROVE <1>s!1
  <2> DEFINE r == at[p].res
             new == [row[r] EXCEPT !.status = "cancelled", !.reason = "buyer",
                                   !.tier = IF at[p].tier > 0 THEN at[p].tier ELSE @]
  <2>1. ASSUME r \in Res PROVE new \in Slots
    <3>1. row[r] \in Slots /\ at[p].tier \in 0..Top
      BY <1>t, <2>1 DEF Sessions
    <3>2. (IF at[p].tier > 0 THEN at[p].tier ELSE row[r].tier) \in 0..Top
      BY <3>1 DEF Slots
    <3> QED BY <3>1, <3>2 DEF Slots, Statuses
  <2>2. row' = [row EXCEPT ![r] = new]
    BY <1>10 DEF WriteCancel
  <2>3. row' \in [Res -> Slots]
    BY <1>t, <2>1, <2>2
  <2>4. AfterCancel(p) \in Sessions
    BY <1>t, <1>i DEF AfterCancel, Sessions
  <2>5. cooling' \in BOOLEAN
    BY <1>10, <1>t DEF WriteCancel
  <2> QED BY <1>10, <1>t, <2>3, <2>4, <2>5 DEF WriteCancel
<1>11. ASSUME NEW p \in Procs, SetCooldown(p) PROVE <1>s!1
  BY <1>11, <1>t, <1>i DEF SetCooldown
<1>12. ASSUME NEW r \in Res, World(r) PROVE <1>s!1
  <2>1. ASSUME NEW to \in Statuses, NEW why \in {"none", "other"}, NEW from, Becomes(r, from, to, why)
        PROVE <1>s!1
    <3>1. [row[r] EXCEPT !.status = to, !.reason = why] \in Slots
      BY <1>t DEF Slots
    <3> QED BY <2>1, <1>t, <3>1 DEF Becomes
  <2>2. CASE Ages(r)
    <3>1. [row[r] EXCEPT !.fresh = FALSE] \in Slots
      BY <1>t DEF Slots
    <3> QED BY <2>2, <1>t, <3>1 DEF Ages
  <2> QED BY <1>12, <2>1, <2>2
        DEF World, Confirm, Settle, Finalize, EndedByOther, Statuses, Unfinished
<1>13. CASE DayPasses
  <2>1. \A r \in Res : [row[r] EXCEPT !.fresh = FALSE] \in Slots
    BY <1>t DEF Slots
  <2> QED BY <1>13, <1>t, <2>1 DEF DayPasses
<1> QED
  BY <1>1, <1>2, <1>3, <1>4, <1>5, <1>6, <1>7, <1>8, <1>9, <1>10, <1>11, <1>12, <1>13
  DEF Next, Request

LEMMA TypeInit == Init => TypeOK
<1>1. 0 \in 0..Top
  BY LimitAssumption
<1>2. Idle \in Sessions /\ NoRow \in Slots
  BY <1>1 DEF Idle, NoRow, Sessions, Slots, Statuses
<1> QED BY <1>2 DEF Init, TypeOK, Sessions, Slots

(* The state of the buyer's requests and reservations is always of its type *)
(* (reserve and cancel_reservation of api/routes/reservations.py).          *)
THEOREM LimitsTypeCorrect == Spec => []TypeOK
BY TypeInit, TypeStep, PTL DEF Spec

-----------------------------------------------------------------------------
(* The limit. *)

(* What leaves both sets no larger leaves the bound. *)
LEMMA NoneEnters ==
  ASSUME SlipsAreBounded, Open' \subseteq Open, Admitted' \subseteq Admitted
  PROVE  SlipsAreBounded'
<1>1. Cardinality(Open') <= Cardinality(Open) /\ Cardinality(Open') \in Nat
  BY Finite, FS_Subset, FS_CardinalityType
<1>2. Cardinality(Admitted') <= Cardinality(Admitted) /\ Cardinality(Admitted') \in Nat
  BY Finite, FS_Subset, FS_CardinalityType
<1> QED BY <1>1, <1>2, Finite, LimitAssumption DEF SlipsAreBounded

(* A request is let through only while there is room; every other request that *)
(* is past the count was let through before.                                    *)
LEMMA BoundStep == TypeOK /\ SlipsAreBounded /\ [Next]_vars => SlipsAreBounded'
<1> SUFFICES ASSUME TypeOK, SlipsAreBounded, [Next]_vars PROVE SlipsAreBounded'
  OBVIOUS
<1>t. /\ row \in [Res -> Slots] /\ at \in [Procs -> Sessions]
  BY DEF TypeOK, Slots, Sessions
<1>1. CASE UNCHANGED vars
  BY <1>1, NoneEnters DEF vars, Open, Admitted
<1>2. ASSUME NEW p \in Procs, row' = row, at' = [at EXCEPT ![p] = at'[p]],
             at'[p].step # "insert"
      PROVE SlipsAreBounded'
  <2>1. Open' = Open /\ Admitted' \subseteq Admitted
    BY <1>2, <1>t DEF Open, Admitted
  <2> QED BY <2>1, NoneEnters
<1>3. ASSUME NEW p \in Procs, CountActive(p) PROVE SlipsAreBounded'
  <2>1. CASE ~MayReserve(Cardinality(Counted))
    BY <1>2, <1>3, <1>t, <2>1 DEF CountActive, Idle
  <2>2. CASE MayReserve(Cardinality(Counted))
    <3>1. Open' = Open /\ Cardinality(Open) < Max
      BY <1>3, <2>2 DEF CountActive, MayReserve, Counted, Open
    <3>2. Cardinality(Admitted') \in Nat /\ Cardinality(Admitted') <= Cardinality(Procs)
      <4>1. Admitted' \subseteq Procs
        BY DEF Admitted
      <4> QED BY <4>1, LimitAssumption, FS_Subset, FS_CardinalityType
    <3>3. Cardinality(Open) \in Nat /\ Cardinality(Procs) \in Nat \ {0} /\ Max \in Nat
      BY Finite, LimitAssumption
    <3> QED BY <3>1, <3>2, <3>3 DEF SlipsAreBounded
  <2> QED BY <2>1, <2>2
<1>4. ASSUME NEW p \in Procs, NEW r \in Res, Insert(p, r) PROVE SlipsAreBounded'
  <2>1. Open' = Open \cup {r} /\ r \notin Open
    <3>1. row' = [row EXCEPT ![r] = row'[r]] /\ row'[r].status = "pending"
      BY <1>4, <1>t DEF Insert, NoRow
    <3> QED BY <3>1, <1>4, <1>t DEF Insert, Open, Unfinished
  <2>2. Admitted' = Admitted \ {p} /\ p \in Admitted
    BY <1>4, <1>t DEF Insert, Admitted, Idle
  <2>3. Cardinality(Open') = Cardinality(Open) + 1
    BY <2>1, Finite, FS_AddElement
  <2>4. Cardinality(Admitted') = Cardinality(Admitted) - 1
    BY <2>2, Finite, FS_RemoveElement
  <2> QED BY <2>3, <2>4, Finite, LimitAssumption DEF SlipsAreBounded
<1>5. ASSUME NEW p \in Procs, HoldFails(p) \/ WriteCancel(p) PROVE SlipsAreBounded'
  <2>1. \A r \in Res : row'[r].status \in {row[r].status, "cancelled"}
    BY <1>5, <1>t DEF HoldFails, WriteCancel, Slots
  <2>2. Open' \subseteq Open
    BY <2>1 DEF Open, Unfinished
  <2>3. at'[p].step # "insert"
    BY <1>5, <1>t DEF HoldFails, WriteCancel, AfterCancel, Idle, Sessions
  <2>4. Admitted' \subseteq Admitted
    BY <1>5, <1>t, <2>3 DEF HoldFails, WriteCancel, Admitted
  <2> QED BY <2>2, <2>4, NoneEnters
<1>6. ASSUME NEW p \in Procs, Request(p) PROVE SlipsAreBounded'
  <2>1. ASSUME NEW l \in Listings, Lock(p, l) PROVE SlipsAreBounded'
    BY <1>2, <2>1, <1>t DEF Lock, Idle
  <2>2. CASE CheckCooldown(p)
    BY <1>2, <2>2, <1>t DEF CheckCooldown, Idle, Sessions
  <2>3. CASE HoldMade(p) \/ Crash(p)
    BY <1>2, <2>3, <1>t DEF HoldMade, Crash, Idle
  <2>4. ASSUME NEW r \in Res, CancelRead(p, r) PROVE SlipsAreBounded'
    <3>1. at'[p].step \in {"tier", "write"}
      BY <2>4, <1>t DEF CancelRead, Idle
    <3> QED BY <1>2, <2>4, <1>t, <3>1 DEF CancelRead
  <2>5. CASE CountCancels(p)
    <3>1. at'[p].step = "write"
      BY <2>5, <1>t DEF CountCancels, Sessions
    <3> QED BY <1>2, <2>5, <1>t, <3>1 DEF CountCancels
  <2>6. CASE SetCooldown(p)
    BY <1>2, <2>6, <1>t DEF SetCooldown, Idle
  <2> QED BY <1>3, <1>4, <1>5, <1>6, <2>1, <2>2, <2>3, <2>4, <2>5, <2>6 DEF Request
<1>7. ASSUME NEW r \in Res, World(r) PROVE SlipsAreBounded'
  <2>1. \A x \in Res : row'[x].status \in Unfinished => row[x].status \in Unfinished
    BY <1>7, <1>t
    DEF World, Confirm, Settle, Finalize, EndedByOther, Becomes, Ages, Slots, Unfinished
  <2>2. at' = at
    BY <1>7 DEF World, Confirm, Settle, Finalize, EndedByOther, Becomes, Ages
  <2>3. Open' \subseteq Open
    BY <2>1 DEF Open
  <2>4. Admitted' = Admitted
    BY <2>2 DEF Admitted
  <2> QED BY <2>3, <2>4, NoneEnters
<1>8. CASE DayPasses
  <2>1. Open' \subseteq Open
    BY <1>8, <1>t DEF DayPasses, Open, Slots
  <2>2. Admitted' = Admitted
    BY <1>8 DEF DayPasses, Admitted
  <2> QED BY <2>1, <2>2, NoneEnters
<1> QED
  BY <1>1, <1>6, <1>7, <1>8 DEF Next

(* However the requests of a buyer interleave, each but one takes him at most  *)
(* one reservation past MAX_ACTIVE_RESERVATIONS_PER_BUYER (reserve).           *)
THEOREM SlipsBounded == Spec => []SlipsAreBounded
<1>1. Init => SlipsAreBounded
  <2>1. ASSUME Init PROVE Open = {} /\ Admitted = {}
    BY <2>1 DEF Init, Open, Admitted, NoRow, Idle, Unfinished
  <2> QED BY <2>1, Finite, FS_EmptySet, LimitAssumption DEF SlipsAreBounded
<1>2. Spec => []TypeOK
  BY LimitsTypeCorrect
<1> QED BY <1>1, <1>2, BoundStep, PTL DEF Spec

(* With one process that serves the buyer the limit is kept. *)
THEOREM AloneLimitKept == ASSUME Cardinality(Procs) = 1 PROVE Spec => []LimitKept
<1>1. SlipsAreBounded => LimitKept
  BY Finite, LimitAssumption DEF SlipsAreBounded, LimitKept
<1> QED BY <1>1, SlipsBounded, PTL

-----------------------------------------------------------------------------
(* A buyer whose requests come one at a time. *)

(* One process is busy, and what it read of the reservations is still so: it *)
(* found room for one more, or the reservation it is about to cancel, or to  *)
(* give up, has not moved.                                                   *)
Single == \A p, q \in Procs : at[p].step # "idle" /\ at[q].step # "idle" => p = q

Room ==
  /\ Cardinality(Open) <= Max
  /\ \A p \in Procs : at[p].step = "insert" => Cardinality(Open) < Max

Worked ==
  \A p \in Procs :
    /\ at[p].step = "hold" => at[p].res \in Res /\ row[at[p].res].status = "pending"
    /\ at[p].step \in {"tier", "write"} =>
         /\ at[p].res \in Res /\ row[at[p].res].status \in Unfinished
         /\ row[at[p].res].status \in Confirmed /\ row[at[p].res].fresh => at[p].early

(* The delay of a cancelled deal is smaller than the number of those that were *)
(* cancelled, so that the next one gets another.                               *)
Tiers ==
  \A r \in Res : row[r].tier # 0 => r \in ByBuyer /\ row[r].tier < Cardinality(ByBuyer)

Counting ==
  \A p \in Procs :
    /\ at[p].step = "tier" => at[p].tier = 0
    /\ at[p].step = "write" => at[p].tier \in {0, TierOf(Cardinality(ByBuyer))}

(* An early cancellation has its key once its request is over, and nobody is *)
(* let past the key while it stands.                                         *)
Cooling ==
  /\ (\A p \in Procs : at[p].step # "cool") => (cooling => cooldown)
  /\ \A p \in Procs : at[p].step \in {"count", "insert"} => ~cooling

AloneInv == Single /\ Room /\ Worked /\ Tiers /\ Counting /\ DelaysDiffer /\ Cooling

(* Either a request moves, and the others are not there, or none is there. *)
LEMMA Turn ==
  ASSUME TypeOK, Next, Whole, Single
  PROVE  /\ Single'
         /\ \/ \E p \in Procs : /\ Request(p)
                                /\ \A q \in Procs \ {p} : at[q].step = "idle" /\ at'[q] = at[q]
            \/ /\ (\E r \in Res : World(r)) \/ DayPasses
               /\ at' = at /\ \A q \in Procs : at[q].step = "idle"
<1>t. at \in [Procs -> Sessions]
  BY DEF TypeOK, Sessions
<1>1. Single'
  <2> DEFINE S == {p \in Procs : at'[p].step # "idle"}
  <2>1. Cardinality(S) <= 1 /\ IsFiniteSet(S) /\ Cardinality(S) \in Nat
    BY LimitAssumption, FS_Subset, FS_CardinalityType DEF Whole
  <2>2. ASSUME NEW p \in S, NEW q \in S, p # q PROVE FALSE
    <3>1. /\ IsFiniteSet({q}) /\ Cardinality({q}) = 1
      BY FS_Singleton
    <3>2. Cardinality({q} \cup {p}) = 2
      BY <2>2, <3>1, FS_AddElement
    <3>3. Cardinality({q} \cup {p}) <= Cardinality(S)
      BY <2>1, FS_Subset
    <3> QED BY <2>1, <3>2, <3>3
  <2> QED BY <2>2 DEF Single
<1>2. ASSUME NEW p \in Procs, Request(p)
      PROVE  \A q \in Procs \ {p} : at[q].step = "idle" /\ at'[q] = at[q]
  <2>1. at' = [at EXCEPT ![p] = at'[p]]
    BY <1>2, <1>t DEF Request, Lock, CheckCooldown, CountActive, Insert, HoldMade, HoldFails,
                      CancelRead, CountCancels, WriteCancel, SetCooldown, Crash
  <2>2. at[p].step # "idle" \/ at'[p].step # "idle"
    BY <1>2, <1>t DEF Request, Lock, CheckCooldown, CountActive, Insert, HoldMade, HoldFails,
                      CancelRead, CountCancels, WriteCancel, SetCooldown, Crash, Idle
  <2> QED BY <2>1, <2>2, <1>1, <1>t DEF Single
<1>3. ASSUME (\E r \in Res : World(r)) \/ DayPasses
      PROVE  at' = at /\ \A q \in Procs : at[q].step = "idle"
  BY <1>3 DEF Whole, World, Confirm, Settle, Finalize, EndedByOther, Becomes, Ages, DayPasses
<1> QED BY <1>1, <1>2, <1>3 DEF Next

(* While nobody is busy the others may do what they do to a reservation. *)
LEMMA WorldStep ==
  ASSUME TypeOK, AloneInv, (\E r \in Res : World(r)) \/ DayPasses,
         at' = at, \A q \in Procs : at[q].step = "idle"
  PROVE  Room' /\ Worked' /\ Tiers' /\ Counting' /\ DelaysDiffer' /\ Cooling'
<1>t. row \in [Res -> Slots]
  BY DEF TypeOK, Slots
<1>1. /\ \A x \in Res : row'[x].tier = row[x].tier
      /\ \A x \in Res : row'[x].status \in Unfinished => row[x].status \in Unfinished
      /\ \A x \in Res : x \in ByBuyer <=> row'[x].status = "cancelled" /\ row'[x].reason = "buyer"
  <2>1. ASSUME NEW r \in Res, NEW from \in SUBSET Unfinished, NEW to, NEW why,
               Becomes(r, from, to, why), to = "cancelled" => why = "other"
        PROVE  <1>1
    BY <2>1, <1>t DEF Becomes, ByBuyer, Slots, Unfinished
  <2>2. ASSUME NEW r \in Res, Ages(r) PROVE <1>1
    BY <2>2, <1>t DEF Ages, ByBuyer, Slots
  <2>3. CASE DayPasses
    BY <2>3, <1>t DEF DayPasses, ByBuyer, Slots
  <2> QED BY <2>1, <2>2, <2>3 DEF World, Confirm, Settle, Finalize, EndedByOther, Unfinished
<1>2. ByBuyer' = ByBuyer /\ Open' \subseteq Open
  BY <1>1 DEF ByBuyer, Open
<1>3. Room'
  <2>1. Cardinality(Open') <= Cardinality(Open) /\ Cardinality(Open') \in Nat
    BY <1>2, Finite, FS_Subset, FS_CardinalityType
  <2> QED BY <2>1, Finite, LimitAssumption DEF AloneInv, Room
<1>4. Tiers' /\ DelaysDiffer'
  BY <1>1, <1>2 DEF AloneInv, Tiers, DelaysDiffer, ByBuyer
<1>5. Worked' /\ Counting'
  BY DEF Worked, Counting
<1>6. Cooling'
  <2>1. UNCHANGED <<cooldown, cooling>> \/ cooling' = FALSE
    BY DEF World, Confirm, Settle, Finalize, EndedByOther, Becomes, Ages, DayPasses
  <2>2. CASE UNCHANGED <<cooldown, cooling>>
    BY <2>2 DEF AloneInv, Cooling
  <2>3. CASE cooling' = FALSE
    BY <2>3 DEF Cooling
  <2> QED BY <2>1, <2>2, <2>3
<1> QED BY <1>3, <1>4, <1>5, <1>6

Kept == Room /\ Worked /\ Tiers /\ Counting /\ DelaysDiffer /\ Cooling

(* Requests that read, and what they leave as it was. *)
LEMMA ReadStep ==
  ASSUME TypeOK, AloneInv, NEW p \in Procs, UNCHANGED <<row, cooling>>,
         \A q \in Procs \ {p} : at[q].step = "idle" /\ at'[q] = at[q],
         \A q \in Procs : at'[q].step # "cool",
         at'[p].step = "insert" => Cardinality(Open) < Max,
         at'[p].step = "hold" => FALSE,
         at'[p].step \in {"tier", "write"} =>
           /\ at'[p].res \in Res /\ row[at'[p].res].status \in Unfinished
           /\ row[at'[p].res].status \in Confirmed /\ row[at'[p].res].fresh => at'[p].early,
         at'[p].step = "tier" => at'[p].tier = 0,
         at'[p].step = "write" => at'[p].tier \in {0, TierOf(Cardinality(ByBuyer))},
         cooling => cooldown',
         at'[p].step \in {"count", "insert"} => ~cooling
  PROVE  Kept'
<1>1. Open' = Open /\ ByBuyer' = ByBuyer
  BY DEF Open, ByBuyer
<1>2. Room'
  BY <1>1 DEF AloneInv, Room
<1>3. Tiers' /\ DelaysDiffer'
  BY <1>1 DEF AloneInv, Tiers, DelaysDiffer
<1>4. Worked'
  BY DEF Worked
<1>5. Counting'
  BY <1>1 DEF Counting
<1>6. Cooling'
  BY DEF Cooling
<1> QED BY <1>2, <1>3, <1>4, <1>5, <1>6 DEF Kept

(* The delays are what they were. *)
LEMMA TiersKept ==
  ASSUME Tiers, DelaysDiffer, ByBuyer' = ByBuyer, \A x \in Res : row'[x].tier = row[x].tier
  PROVE  Tiers' /\ DelaysDiffer'
<1>1. ByBuyer \subseteq Res
  BY DEF ByBuyer
<1>2. Tiers'
  BY DEF Tiers
<1>3. DelaysDiffer'
  BY <1>1 DEF DelaysDiffer
<1> QED BY <1>2, <1>3

(* A request inserts its row, or gives it up. *)
LEMMA RowStep ==
  ASSUME TypeOK, AloneInv, NEW p \in Procs,
         \A q \in Procs \ {p} : at[q].step = "idle" /\ at'[q] = at[q],
         (\E r \in Res : Insert(p, r)) \/ HoldFails(p)
  PROVE  Kept'
<1>t. row \in [Res -> Slots] /\ at \in [Procs -> Sessions]
  BY DEF TypeOK, Slots, Sessions
<1>1. ASSUME NEW r \in Res, Insert(p, r)
      PROVE  Kept'
  <2>1. /\ row' = [row EXCEPT ![r] = row'[r]] /\ row[r].status = "free" /\ at[p].step = "insert"
        /\ row'[r].status = "pending" /\ row'[r].tier = 0
        /\ at'[p].step = "hold" /\ at'[p].res = r /\ UNCHANGED <<cooldown, cooling>>
    BY <1>1, <1>t DEF Insert, NoRow, Idle
  <2>2. Open' = Open \cup {r} /\ r \notin Open /\ ByBuyer' = ByBuyer
    BY <2>1, <1>t DEF Open, ByBuyer, Unfinished
  <2>3. Cardinality(Open') = Cardinality(Open) + 1 /\ Cardinality(Open) < Max
    <3>1. IsFiniteSet(Open)
      BY Finite
    <3>2. Cardinality(Open \cup {r}) = Cardinality(Open) + 1
      BY <2>2, <3>1, FS_AddElement
    <3> QED BY <2>1, <2>2, <3>2 DEF AloneInv, Room
  <2>4. Room'
    BY <2>1, <2>3, Finite, LimitAssumption DEF Room
  <2>5. Tiers' /\ DelaysDiffer'
    <3>1. r \notin ByBuyer
      BY <2>1 DEF ByBuyer
    <3>2. row[r].tier = 0
      BY <3>1 DEF AloneInv, Tiers
    <3>3. \A x \in Res : row'[x].tier = row[x].tier
      BY <2>1, <3>2, <1>t
    <3> QED BY <2>2, <3>3, TiersKept DEF AloneInv
  <2>6. Worked' /\ Counting'
    BY <2>1 DEF Worked, Counting
  <2>7. Cooling'
    BY <2>1 DEF AloneInv, Cooling
  <2> QED BY <2>4, <2>5, <2>6, <2>7 DEF Kept
<1>2. CASE HoldFails(p)
  <2>1. PICK r \in Res : r = at[p].res /\ row[r].status = "pending"
    BY <1>2 DEF HoldFails, AloneInv, Worked
  <2>2. /\ row' = [row EXCEPT ![r] = row'[r]] /\ row'[r].status = "cancelled"
        /\ row'[r].reason = "abandoned" /\ row'[r].tier = row[r].tier
        /\ at'[p].step = "idle" /\ at[p].step = "hold" /\ UNCHANGED <<cooldown, cooling>>
    BY <1>2, <2>1, <1>t DEF HoldFails, Idle, Slots
  <2>3. Open' \subseteq Open /\ ByBuyer' = ByBuyer
    BY <2>1, <2>2, <1>t DEF Open, ByBuyer, Unfinished
  <2>4. Room'
    <3>1. Cardinality(Open') <= Cardinality(Open) /\ Cardinality(Open') \in Nat
      BY <2>3, Finite, FS_Subset, FS_CardinalityType
    <3> QED BY <3>1, <2>2, Finite, LimitAssumption DEF AloneInv, Room
  <2>5. Tiers' /\ DelaysDiffer'
    BY <2>1, <2>2, <2>3, <1>t DEF AloneInv, Tiers, DelaysDiffer, ByBuyer
  <2>6. Worked' /\ Counting'
    BY <2>2 DEF Worked, Counting
  <2>7. Cooling'
    BY <2>2 DEF AloneInv, Cooling
  <2> QED BY <2>4, <2>5, <2>6, <2>7 DEF Kept
<1> QED BY <1>1, <1>2

(* The cancellation commits. *)
LEMMA CancelStep ==
  ASSUME TypeOK, AloneInv, NEW p \in Procs, WriteCancel(p),
         \A q \in Procs \ {p} : at[q].step = "idle" /\ at'[q] = at[q]
  PROVE  Kept'
<1>t. row \in [Res -> Slots] /\ at \in [Procs -> Sessions]
  BY DEF TypeOK, Slots, Sessions
<1> DEFINE n == Cardinality(ByBuyer)
<1>n. n \in Nat /\ IsFiniteSet(ByBuyer) /\ Top \in Nat
  BY Finite, LimitAssumption
<1>1. PICK r \in Res : /\ r = at[p].res /\ row[r].status \in Unfinished
                       /\ row[r].status \in Confirmed /\ row[r].fresh => at[p].early
                       /\ at[p].tier \in {0, TierOf(n)}
  BY DEF WriteCancel, AloneInv, Worked, Counting
<1>2. row[r].tier = 0 /\ r \notin ByBuyer
  <2>1. r \notin ByBuyer
    BY <1>1 DEF ByBuyer, Unfinished
  <2> QED BY <2>1 DEF AloneInv, Tiers
<1>3. /\ row' = [row EXCEPT ![r] = row'[r]] /\ row'[r].status = "cancelled"
      /\ row'[r].reason = "buyer"
      /\ row'[r].tier = IF at[p].tier > 0 THEN at[p].tier ELSE row[r].tier
  <2> DEFINE t == IF at[p].tier > 0 THEN at[p].tier ELSE row[r].tier
             new == [row[r] EXCEPT !.status = "cancelled", !.reason = "buyer", !.tier = t]
  <2>1. row' = [row EXCEPT ![r] = new]
    BY <1>1 DEF WriteCancel
  <2>2. new.status = "cancelled" /\ new.reason = "buyer" /\ new.tier = t
    <3> HIDE DEF t
    <3> QED BY <1>t DEF Slots
  <2> HIDE DEF new
  <2>3. row'[r] = new /\ row' = [row EXCEPT ![r] = row'[r]]
    BY <2>1, <1>t
  <2> QED BY <2>2, <2>3
<1>4. row'[r].tier \in {0, TierOf(n)}
  <2>1. row'[r].tier = at[p].tier \/ row'[r].tier = 0
    BY <1>2, <1>3
  <2> QED BY <2>1, <1>1
<1>5. /\ at' = [at EXCEPT ![p] = AfterCancel(p)] /\ at[p].step = "write"
      /\ cooling' = (cooling \/ (row[r].status \in Confirmed /\ row[r].fresh)) /\ cooldown' = cooldown
  BY <1>1 DEF WriteCancel
<1>6. at'[p].step = IF at[p].early THEN "cool" ELSE "idle"
  <2>1. [at[p] EXCEPT !.step = "cool"].step = "cool"
    BY <1>t DEF Sessions
  <2> QED BY <2>1, <1>5, <1>t DEF AfterCancel, Idle
<1>7. ByBuyer' = ByBuyer \cup {r} /\ Open' \subseteq Open
  BY <1>1, <1>3, <1>t DEF ByBuyer, Open, Unfinished
<1>8. Cardinality(ByBuyer') = n + 1
  BY <1>2, <1>7, <1>n, FS_AddElement
<1>9. Room'
  <2>1. Cardinality(Open') <= Cardinality(Open) /\ Cardinality(Open') \in Nat
    BY <1>7, Finite, FS_Subset, FS_CardinalityType
  <2>2. \A q \in Procs : at'[q].step # "insert"
    BY <1>6
  <2> QED BY <2>1, <2>2, Finite, LimitAssumption DEF AloneInv, Room
<1>10. \A x \in Res \ {r} : row'[x] = row[x] /\ (x \in ByBuyer' <=> x \in ByBuyer)
  BY <1>3, <1>7, <1>t
<1>11. \A x \in Res : row[x].tier \in 0..Top /\ row'[x].tier \in 0..Top
  <2>1. 0 \in 0..Top /\ TierOf(n) \in 0..Top
    BY <1>n DEF TierOf
  <2> QED BY <1>4, <1>10, <1>t, <2>1 DEF Slots
<1>12. Tiers'
  <2>1. \A x \in Res \ {r} : row[x].tier # 0 => x \in ByBuyer /\ row[x].tier < n
    BY DEF AloneInv, Tiers
  <2>2. \A x \in Res \ {r} : row'[x].tier # 0 => x \in ByBuyer' /\ row'[x].tier < n + 1
    BY <2>1, <1>10, <1>11, <1>n
  <2>3. r \in ByBuyer' /\ row'[r].tier < n + 1
    BY <1>4, <1>7, <1>n DEF TierOf
  <2> QED BY <2>2, <2>3, <1>8 DEF Tiers
<1>13. DelaysDiffer'
  <2>1. \A x \in ByBuyer : x \in Res /\ x # r /\ (row[x].tier # 0 => row[x].tier < n)
    BY <1>2 DEF AloneInv, Tiers, ByBuyer
  <2>2. row'[r].tier \in 1..(Top - 1) => row'[r].tier = n
    BY <1>4, <1>n DEF TierOf
  <2>3. \A x \in ByBuyer : row'[x].tier = row[x].tier
    BY <2>1, <1>10
  <2>4. \A x \in ByBuyer : row'[x].tier \in 1..(Top - 1) => row'[x].tier # row'[r].tier
    BY <2>1, <2>2, <2>3, <1>n, <1>11
  <2>5. \A x, y \in ByBuyer : row'[x].tier = row'[y].tier /\ row'[x].tier \in 1..(Top - 1) => x = y
    BY <2>3 DEF AloneInv, DelaysDiffer
  <2> QED BY <2>4, <2>5, <1>7 DEF DelaysDiffer
<1>14. Worked' /\ Counting'
  BY <1>6 DEF Worked, Counting
<1>15. Cooling'
  <2>1. at[p].step = "write" => (cooling => cooldown)
    BY <1>5 DEF AloneInv, Cooling
  <2>2. (\A q \in Procs : at'[q].step # "cool") => (cooling' => cooldown')
    BY <1>1, <1>5, <1>6, <2>1
  <2>3. \A q \in Procs : at'[q].step \notin {"count", "insert"}
    BY <1>6
  <2> QED BY <2>2, <2>3 DEF Cooling
<1> QED BY <1>9, <1>12, <1>13, <1>14, <1>15 DEF Kept

LEMMA RequestStep ==
  ASSUME TypeOK, AloneInv, Whole, NEW p \in Procs, Request(p),
         \A q \in Procs \ {p} : at[q].step = "idle" /\ at'[q] = at[q]
  PROVE  Kept'
<1>t. row \in [Res -> Slots] /\ at \in [Procs -> Sessions] /\ cooldown \in BOOLEAN /\ cooling \in BOOLEAN
  BY DEF TypeOK, Slots, Sessions
<1>c. /\ at[p].step # "cool" => (cooling => cooldown)
      /\ at[p].step \in {"count", "insert"} => ~cooling
      /\ \A q \in Procs \ {p} : at'[q].step # "cool"
  BY DEF AloneInv, Cooling
<1>i. ASSUME UNCHANGED <<row, cooling>>, at'[p].step \in {"idle", "cooldown"}, cooling => cooldown'
      PROVE  Kept'
  BY <1>c, <1>i, ReadStep
<1>1. ASSUME NEW l \in Listings, Lock(p, l) PROVE Kept'
  <2>1. at'[p].step = "cooldown" /\ at[p].step = "idle" /\ UNCHANGED <<row, cooldown, cooling>>
    BY <1>1, <1>t DEF Lock, Idle
  <2> QED BY <1>c, <1>i, <2>1
<1>2. CASE CheckCooldown(p)
  <2>1. /\ at[p].step = "cooldown" /\ UNCHANGED <<row, cooldown, cooling>>
        /\ IF cooldown THEN at'[p].step = "idle" ELSE at'[p].step = "count"
    BY <1>2, <1>t DEF CheckCooldown, Idle, Sessions
  <2>2. CASE cooldown
    BY <1>c, <1>i, <2>1, <2>2
  <2>3. CASE ~cooldown
    BY <1>c, <2>1, <2>3, ReadStep
  <2> QED BY <2>2, <2>3
<1>3. CASE CountActive(p)
  <2>1. /\ at[p].step = "count" /\ UNCHANGED <<row, cooldown, cooling>>
        /\ at'[p].step = "idle" \/ (at'[p].step = "insert" /\ Cardinality(Open) < Max)
    BY <1>3, <1>t DEF CountActive, Idle, Sessions, MayReserve, Counted
  <2>2. CASE at'[p].step = "idle"
    BY <1>c, <1>i, <2>1, <2>2
  <2>3. CASE at'[p].step = "insert" /\ Cardinality(Open) < Max
    BY <1>c, <2>1, <2>3, ReadStep
  <2> QED BY <2>1, <2>2, <2>3
<1>4. CASE HoldMade(p)
  <2>1. at'[p].step = "idle" /\ at[p].step = "hold" /\ UNCHANGED <<row, cooldown, cooling>>
    BY <1>4, <1>t DEF HoldMade, Idle
  <2> QED BY <1>c, <1>i, <2>1
<1>5. ASSUME NEW r \in Res, CancelRead(p, r) PROVE Kept'
  <2> DEFINE was == row[r].status \in Confirmed
  <2>1. /\ at[p].step = "idle" /\ row[r].status \in Unfinished /\ UNCHANGED <<row, cooldown, cooling>>
        /\ at'[p].res = r /\ at'[p].tier = 0 /\ at'[p].early = (was /\ row[r].fresh)
        /\ at'[p].step = IF was THEN "tier" ELSE "write"
    BY <1>5, <1>t DEF CancelRead, Idle
  <2> QED BY <1>c, <2>1, ReadStep
<1>6. CASE CountCancels(p)
  <2>1. /\ at[p].step = "tier" /\ UNCHANGED <<row, cooldown, cooling>>
        /\ at'[p].res = at[p].res /\ at'[p].early = at[p].early /\ at'[p].step = "write"
        /\ at'[p].tier = TierOf(Cardinality(ByBuyer))
    BY <1>6, <1>t DEF CountCancels, Sessions
  <2>2. /\ at[p].res \in Res /\ row[at[p].res].status \in Unfinished
        /\ row[at[p].res].status \in Confirmed /\ row[at[p].res].fresh => at[p].early
    BY <2>1 DEF AloneInv, Worked
  <2> QED BY <1>c, <2>1, <2>2, ReadStep
<1>7. CASE SetCooldown(p)
  <2>1. at'[p].step = "idle" /\ UNCHANGED <<row, cooling>> /\ cooldown' = TRUE
    BY <1>7, <1>t DEF SetCooldown, Idle
  <2> QED BY <1>i, <2>1
<1>8. CASE Crash(p)
  <2>1. at'[p].step = "idle" /\ UNCHANGED <<row, cooldown, cooling>>
    BY <1>8, <1>t DEF Crash, Idle
  <2>2. at[p].step = "cool" => cooldown'
    BY <2>1 DEF Whole
  <2> QED BY <1>c, <1>i, <2>1, <2>2
<1> QED BY <1>1, <1>2, <1>3, <1>4, <1>5, <1>6, <1>7, <1>8, RowStep, CancelStep DEF Request

LEMMA AloneStep == TypeOK /\ (alone => AloneInv) /\ [MCNext]_<<vars, alone>> => (alone => AloneInv)'
<1> SUFFICES ASSUME TypeOK, AloneInv, alone, [MCNext]_<<vars, alone>> PROVE AloneInv'
  BY DEF MCNext
<1>1. CASE UNCHANGED vars
  BY <1>1 DEF vars, AloneInv, Single, Room, Worked, Tiers, Counting, DelaysDiffer, Cooling, Open, ByBuyer
<1>2. CASE Next /\ Whole
  <2>1. Single' /\ Kept'
    BY <1>2, Turn, RequestStep, WorldStep DEF AloneInv, Kept
  <2> QED BY <2>1 DEF AloneInv, Kept
<1> QED BY <1>1, <1>2 DEF MCNext

LEMMA Alone == MCSpec => [](TypeOK /\ (alone => AloneInv))
<1>1. MCInit => TypeOK /\ (alone => AloneInv)
  <2> SUFFICES ASSUME MCInit PROVE TypeOK /\ AloneInv
    OBVIOUS
  <2>1. Open = {} /\ ByBuyer = {} /\ \A p \in Procs : at[p].step = "idle"
    BY DEF MCInit, Init, Open, ByBuyer, NoRow, Idle, Unfinished
  <2>2. Room /\ Tiers /\ DelaysDiffer
    BY <2>1, FS_EmptySet, LimitAssumption DEF MCInit, Init, NoRow, Room, Tiers, DelaysDiffer
  <2>3. Single /\ Worked /\ Counting
    BY <2>1 DEF Single, Worked, Counting
  <2>4. Cooling
    BY <2>1 DEF MCInit, Init, Cooling
  <2> QED BY <2>2, <2>3, <2>4, TypeInit DEF MCInit, AloneInv
<1>2. TypeOK /\ [MCNext]_<<vars, alone>> => TypeOK'
  BY TypeStep DEF MCNext, vars
<1> QED BY <1>1, <1>2, AloneStep, PTL DEF MCSpec

(* A buyer whose requests do not overlap holds no more than                      *)
(* MAX_ACTIVE_RESERVATIONS_PER_BUYER unfinished reservations, and no two of his   *)
(* cancelled deals share a delay of the refund, but for the longest (reserve,     *)
(* _refund_delay_seconds), for any number of cars, rows and processes.            *)
THEOREM AloneAlwaysLimited == MCSpec => []AloneIsLimited
<1>1. TypeOK /\ (alone => AloneInv) => AloneIsLimited
  BY DEF AloneInv, Room, LimitKept, AloneIsLimited
<1> QED BY <1>1, Alone, PTL

(* Nor reserves within a day of a deal cancelled early, when each of his requests *)
(* comes to its end (the key reserve_cooldown).                                   *)
THEOREM AloneAlwaysCoolsDown == MCSpec => AloneCoolsDown
<1>1. ASSUME TypeOK, alone => AloneInv, [MCNext]_<<vars, alone>>
      PROVE  [\A r \in Res :
                (alone /\ row[r].status = "free" /\ row'[r].status = "pending") => ~cooling]_vars
  <2> SUFFICES ASSUME alone, Next, NEW r \in Res, row[r].status = "free", row'[r].status = "pending"
               PROVE  ~cooling
    BY <1>1 DEF MCNext
  <2>t. row \in [Res -> Slots]
    BY <1>1 DEF TypeOK, Slots
  <2>1. PICK p \in Procs : Insert(p, r)
    <3>1. ASSUME NEW p \in Procs, HoldFails(p) \/ WriteCancel(p)
          PROVE  row'[r].status \in {row[r].status, "cancelled"}
      BY <3>1, <2>t DEF HoldFails, WriteCancel, Slots
    <3>2. ASSUME NEW x \in Res, World(x) PROVE row'[r].status # "pending" \/ row[r].status = "pending"
      BY <3>2, <2>t DEF World, Confirm, Settle, Finalize, EndedByOther, Becomes, Ages, Slots
    <3>3. ASSUME DayPasses PROVE row'[r].status = row[r].status
      BY <3>3, <2>t DEF DayPasses, Slots
    <3>4. ASSUME NEW p \in Procs, NEW x \in Res, Insert(p, x) PROVE x = r
      BY <3>4, <2>t DEF Insert
    <3> QED BY <3>1, <3>2, <3>3, <3>4
            DEF Next, Request, Lock, CheckCooldown, CountActive, HoldMade, CancelRead, CountCancels,
                SetCooldown, Crash
  <2> QED BY <1>1, <2>1 DEF Insert, AloneInv, Cooling
<1> QED BY <1>1, Alone, PTL DEF MCSpec, AloneCoolsDown
=============================================================================
