----------------------------- MODULE Marketplace -----------------------------
(***************************************************************************)
(* The life of a listing on the server: drafts, publication, moderation,    *)
(* expiry, deletion and deals.  A handler loads the row without a lock and  *)
(* writes its status at its commit; a reservation locks the row first.  A   *)
(* deal stands for the open reservation of a listing (module Reservations   *)
(* has its states).                                                         *)
(***************************************************************************)
EXTENDS Naturals, FiniteSets

CONSTANTS
  Listings, Procs,
  Ops,         \* the handlers of the instance
  Offered      \* the statuses in which a page, up to date or not, offers to publish

VARIABLES
  status,   \* listings.status, or "gone"
  deal,     \* deal[l]: "none", "open", or "lost" with the deposit still held
  term,     \* term[l]: expires_at: "none", "later" or "past"
  proc      \* proc[p]: a handler between its read and its commit

vars == <<status, deal, term, proc>>

Statuses == {"draft", "pending_review", "active", "reserved", "sold", "archived"}
Idle == [op |-> "idle", on |-> {}, seen |-> "none", to |-> "none"]

Init ==
  /\ status = [l \in Listings |-> "draft"]
  /\ deal = [l \in Listings |-> "none"]
  /\ term = [l \in Listings |-> "none"]
  /\ proc = [p \in Procs |-> Idle]

\* The rows p loaded, and what it will write to them at its commit.
Read(p, op, L, to) ==
  /\ op \in Ops /\ proc[p] = Idle
  /\ proc' = [proc EXCEPT ![p] = [op |-> op, on |-> L, to |-> to,
               seen |-> IF Cardinality(L) = 1 THEN status[CHOOSE l \in L : TRUE] ELSE "active"]]
  /\ UNCHANGED <<status, deal, term>>

\* The status of the row is not looked at.
publish_listing(p, l) ==
  /\ status[l] \in Offered
  /\ Read(p, "publish", {l}, "pending_review")

\* Refused while the listing is reserved or has an unfinished reservation.
MayDeleteBug(l) == deal[l] # "lost"
MayDelete(l) == status[l] # "reserved" /\ deal[l] # "open"
delete_listing(p, l) ==
  /\ status[l] # "gone" /\ MayDelete(l)
  /\ Read(p, "delete", {l}, "archived")

approve_listing(p, l) == status[l] = "pending_review" /\ Read(p, "approve", {l}, "active")
reject_listing(p, l) == status[l] = "pending_review" /\ Read(p, "reject", {l}, "archived")
set_listing_status(p, l, s) == status[l] # "gone" /\ Read(p, "set", {l}, s)
delete_listing_admin(p, l) == status[l] # "gone" /\ Read(p, "remove", {l}, "gone")

Expired == {l \in Listings : status[l] = "active" /\ term[l] = "past"}
run_expire_listings(p) == Expired # {} /\ Read(p, "expire", Expired, "archived")

\* The commit writes a status that differs from the one loaded; a row deleted
\* meanwhile fails the whole transaction.
Written(r) ==
  IF r.to = r.seen \/ \E l \in r.on : status[l] = "gone" THEN {} ELSE r.on

\* An approval sets the day the listing ends.
TermAfter(l, r) == IF r.op = "approve" THEN "later" ELSE term[l]

Commit(p) ==
  LET r == proc[p]
      W == Written(r)
  IN /\ r.op # "idle"
     /\ status' = [l \in Listings |-> IF l \in W THEN r.to ELSE status[l]]
     /\ deal' = [l \in Listings |-> IF l \in W /\ r.to = "gone" /\ deal[l] = "open"
                                    THEN "lost" ELSE deal[l]]
     /\ term' = [l \in Listings |-> IF l \in W THEN TermAfter(l, r) ELSE term[l]]
     /\ proc' = [proc EXCEPT ![p] = Idle]

\* The row is locked from the read to the commit of reserve.
reserve(l) ==
  /\ "reserve" \in Ops /\ status[l] = "active" /\ deal[l] = "none"
  /\ status' = [status EXCEPT ![l] = "reserved"]
  /\ deal' = [deal EXCEPT ![l] = "open"]
  /\ UNCHANGED <<term, proc>>

\* cancel and finalize: the status they write does not depend on the row's.
DealEnds(l, to) ==
  /\ deal[l] = "open"
  /\ status' = [status EXCEPT ![l] = to]
  /\ deal' = [deal EXCEPT ![l] = "none"]
  /\ UNCHANGED <<term, proc>>

TimePasses(l) ==
  /\ term[l] = "later"
  /\ term' = [term EXCEPT ![l] = "past"]
  /\ UNCHANGED <<status, deal, proc>>

Next ==
  \/ \E p \in Procs :
       \/ Commit(p) \/ run_expire_listings(p)
       \/ \E l \in Listings :
            \/ publish_listing(p, l) \/ delete_listing(p, l) \/ approve_listing(p, l)
            \/ reject_listing(p, l) \/ delete_listing_admin(p, l)
            \/ \E s \in Statuses : set_listing_status(p, l, s)
  \/ \E l \in Listings :
       reserve(l) \/ DealEnds(l, "active") \/ DealEnds(l, "sold") \/ TimePasses(l)

Spec == Init /\ [][Next]_vars

\* One handler at a time: nothing happens between the read and the commit of another.
OneAtATime == (\A p \in Procs : proc[p] = Idle) \/ \E p \in Procs : Commit(p)

\* The pages are up to date then and offer to publish no listing that is reserved; an
\* administrator's choice of a status is left out.
SerialAssumption == Offered \subseteq Statuses \ {"reserved"} /\ "set" \notin Ops

-----------------------------------------------------------------------------
\* A listing on sale has a day on which it ends, and a deal is lost with its listing.
TypeOK ==
  /\ status \in [Listings -> Statuses \cup {"gone"}]
  /\ deal \in [Listings -> {"none", "open", "lost"}]
  /\ \A p \in Procs : proc[p] # Idle => proc[p].on # {} /\ proc[p].op \in Ops
  /\ \A l \in Listings :
       /\ deal[l] = "lost" => status[l] = "gone"
       /\ status[l] \in {"active", "reserved"} => term[l] # "none"

\* A listing is reserved exactly while it has a deal, whatever the seller, the
\* moderators and the job do one after the other: the handlers leave no listing
\* locked without a buyer and sell none under a buyer.
ReservedIffDeal == \A l \in Listings : deal[l] = "open" <=> status[l] = "reserved"

\* The moves of a listing are those of ListingLifecycle: it goes on sale only from
\* review or from a deal that ended, and no one withdraws it under a buyer.
phaseOf == [l \in Listings |->
  IF deal[l] = "open" /\ status[l] = "reserved" THEN "held" ELSE status[l]]

-----------------------------------------------------------------------------
\* What the code, its texts or its tests say and a behaviour refutes: see the README.

\* A deal keeps its listing reserved to its end.
DealKeepsListing ==
  [][\A l \in Listings : deal[l] = "open" /\ deal'[l] = "open" => status'[l] = status[l]]_vars

\* A held deposit has its reservation: nothing else can release it.
DepositHasItsRow == \A l \in Listings : deal[l] # "lost"
=============================================================================
