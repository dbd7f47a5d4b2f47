-------------------------- MODULE ListingLifecycle --------------------------
(***************************************************************************)
(* What a listing may go through, seen from outside: the moves between its  *)
(* phases.  "held" is a listing with a deal under way.  Marketplace is      *)
(* shown to implement it while its handlers run one at a time.              *)
(***************************************************************************)
CONSTANTS Listings

VARIABLE phase

Init == phase = [l \in Listings |-> "draft"]

Move(l, From, to) == phase[l] \in From /\ phase' = [phase EXCEPT ![l] = to]

Submit(l)   == Move(l, {"draft", "pending_review", "active", "archived", "sold"}, "pending_review")
Approve(l)  == Move(l, {"pending_review"}, "active")
Hold(l)     == Move(l, {"active"}, "held")
Free(l)     == Move(l, {"held"}, "active")
Sell(l)     == Move(l, {"held"}, "sold")
Remove(l)   == Move(l, {"draft", "pending_review", "active", "held", "sold", "archived"}, "gone")

\* Withdrawn by its seller, refused, or expired with others: never while it is held.
Withdraw(S) ==
  /\ \A l \in S : phase[l] \notin {"held", "gone"}
  /\ phase' = [l \in Listings |-> IF l \in S THEN "archived" ELSE phase[l]]

Next ==
  \/ \E l \in Listings :
       Submit(l) \/ Approve(l) \/ Hold(l) \/ Free(l) \/ Sell(l) \/ Remove(l)
  \/ \E S \in SUBSET Listings : Withdraw(S)

Spec == Init /\ [][Next]_phase
=============================================================================
