--------------------------- MODULE MCBuyerLimits ---------------------------
(* Small instances of BuyerLimits for TLC. *)
EXTENDS BuyerLimits, TLC

VARIABLE alone   \* whether the buyer's requests come one at a time in this behaviour

Symmetry == Permutations(Procs) \cup Permutations(Listings) \cup Permutations(Res)

MCInit == Init /\ alone \in BOOLEAN
MCNext == Next /\ (alone => Whole) /\ UNCHANGED alone
MCSpec == MCInit /\ [][MCNext]_<<vars, alone>>

(* A buyer whose requests do not overlap holds no more than MAX_ACTIVE_RESERVATIONS_PER_BUYER      *)
(* unfinished reservations, and no two deals that are cancelled share a delay of the refund, but    *)
(* for the longest (the checks of reserve, _refund_delay_seconds).                                  *)
AloneIsLimited == alone => LimitKept /\ DelaysDiffer

(* Nor reserves within a day of a deal cancelled early (the key reserve_cooldown).                 *)
AloneCoolsDown ==
  [][\A r \in Res : (alone /\ row[r].status = "free" /\ row'[r].status = "pending") => ~cooling]_vars
=============================================================================
