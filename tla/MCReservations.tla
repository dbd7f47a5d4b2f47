--------------------------- MODULE MCReservations ---------------------------
(* Small instances of Reservations for TLC. *)
EXTENDS Reservations, TLC

CONSTANTS l1, r1, r2

OneListing == [r \in {r1} |-> l1]
SameListing == [r \in {r1, r2} |-> l1]

Processes == Permutations(Requests) \cup Permutations(Workers)

\* With every reservation on one listing, reservations are interchangeable too.
SymmetryOneListing == Processes \cup Permutations(Res)
=============================================================================
