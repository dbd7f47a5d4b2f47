-------------------------------- MODULE Shell --------------------------------
(***************************************************************************)
(* The parts of the system that share no state are checked side by side:    *)
(* every behaviour is of one part, a page of the client (App.tsx draws one   *)
(* route at a time) with the handlers it calls, or a service no page        *)
(* reaches.  v1 to v13 hold its variables, the INSTANCE of its module says  *)
(* which is which; a part that has fewer leaves the rest unused.            *)
(***************************************************************************)
EXTENDS Naturals

CONSTANT Parts   \* the parts a run opens

VARIABLES open, v1, v2, v3, v4, v5, v6, v7, v8, v9, v10, v11, v12, v13

shell == <<open, v1, v2, v3, v4, v5, v6, v7, v8, v9, v10, v11, v12, v13>>

\* How many variables a part has
Width ==
  [reservations |-> 8, car |-> 9, deposit |-> 9, favorites |-> 8, catalog |-> 4,
   chat |-> 9, account |-> 8, phone |-> 13, bell |-> 5, tickets |-> 6, support |-> 6,
   mylistings |-> 5, moderation |-> 5, users |-> 5, cars |-> 4, choice |-> 3, new |-> 4,
   edit |-> 5, form |-> 6, viewings |-> 5, sessions |-> 12, logout |-> 12, market |-> 4,
   rate |-> 4]

Unused == "unused"

\* The unused variables have no value,
Blank ==
  /\ open \in Parts
  /\ Width[open] < 4 => v4 = Unused
  /\ Width[open] < 5 => v5 = Unused
  /\ Width[open] < 6 => v6 = Unused
  /\ Width[open] < 7 => v7 = Unused
  /\ Width[open] < 8 => v8 = Unused
  /\ Width[open] < 9 => v9 = Unused
  /\ Width[open] < 10 => v10 = Unused
  /\ Width[open] < 11 => v11 = Unused
  /\ Width[open] < 12 => v12 = Unused
  /\ Width[open] < 13 => v13 = Unused

\* and get none, and the part that is open stays open.
Keeps ==
  /\ UNCHANGED open
  /\ Width[open] < 4 => UNCHANGED v4
  /\ Width[open] < 5 => UNCHANGED v5
  /\ Width[open] < 6 => UNCHANGED v6
  /\ Width[open] < 7 => UNCHANGED v7
  /\ Width[open] < 8 => UNCHANGED v8
  /\ Width[open] < 9 => UNCHANGED v9
  /\ Width[open] < 10 => UNCHANGED v10
  /\ Width[open] < 11 => UNCHANGED v11
  /\ Width[open] < 12 => UNCHANGED v12
  /\ Width[open] < 13 => UNCHANGED v13
=============================================================================
