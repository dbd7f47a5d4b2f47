-------------------------- MODULE MCListingImages --------------------------
(* Small instances of ListingImages for TLC. *)
EXTENDS ListingImages, TLC

VARIABLE growing   \* whether photos are only added in this behaviour

Symmetry == Permutations(Photos)

MCInit == Init /\ growing \in BOOLEAN
MCNext == Next /\ (growing => rows \subseteq rows') /\ UNCHANGED growing
MCSpec == MCInit /\ [][MCNext]_<<vars, growing>>

(* While photos are only added one of them is the main one, though uploads decide it by a count    *)
(* they read long before (is_primary=existing == 0).                                               *)
GrownHasOneMain == growing => OneMain
=============================================================================
