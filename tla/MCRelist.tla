------------------------------ MODULE MCRelist ------------------------------
(* Two reservations of one car by two requests, or of a car each by a request while a job visits *)
(* both rows in one batch: behaviours of Reservations in which only the processes and reservations *)
(* of a cast act.  Beside the job the event of one hold arrives, and only there faults happen     *)
(* (bounds).                                                                                       *)
EXTENDS MCReservations

CONSTANTS l2, r3, w

VARIABLE cast   \* the processes and the reservations of this behaviour

Cars == [r \in {r1, r2, r3} |-> IF r = r3 THEN l2 ELSE l1]

Casts ==
  {Requests \cup {r1, r2}} \cup {{p, w, r, r3} : p \in Requests, r \in {r1, r2}}

\* Requests are interchangeable, and so are the two reservations of one car.
Symmetry == Permutations(Requests) \cup Permutations({r1, r2})

OthersRest ==
  /\ \A q \in Procs \ cast : sess[q] = Idle
  /\ \A q \in Procs, r \in Res \ cast : sess[q].at # r
  /\ w \notin cast => faults = 0
  /\ w \in cast => seen \subseteq {r3} \X Events

MCInit == Init /\ cast \in Casts
MCNext == Next /\ UNCHANGED cast /\ OthersRest'
MCSpec == MCInit /\ [][MCNext]_<<vars, cast>>
=============================================================================
