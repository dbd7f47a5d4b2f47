----------------------------- MODULE CarChoice ------------------------------
(***************************************************************************)
(* The first step of CreateListingPage, new listing and edit: a brand, a    *)
(* model of it, a generation, a configuration and a modification, each      *)
(* select filled by a request that the choice above it sends.  An entry of  *)
(* the catalog is the path of choices that leads to it.                     *)
(***************************************************************************)
EXTENDS Naturals, Sequences

CONSTANTS
  Widths,   \* how many entries an entry of each level has; its length is the number of levels
  Calls,
  Acts      \* "fail": requests fail

VARIABLES
  form,   \* per level: the entry chosen, whose entries the select offers, its spinner
  call,   \* call[c]: a request for the entries of one level
  mixed   \* history: levels asked for again while a request for them was under way

vars == <<form, call, mixed>>

Levels == 1..Len(Widths)
Last == Len(Widths)
Root == <<>>
None == <<0>>
Under(entry) == {Append(entry, i) : i \in 1..Widths[Len(entry) + 1]}
Parent(entry) == SubSeq(entry, 1, Len(entry) - 1)
NoCall == [level |-> 0, of |-> None, step |-> "idle"]
Ask(k, entry) == [level |-> k, of |-> entry, step |-> "sent"]

\* The brands are loaded at once; an edit also loaded what it could of the listing's car.
Init ==
  /\ \E edit \in BOOLEAN, car \in (1..Widths[1]) \X (1..Widths[2]), n \in 1..3 :
       LET known == IF edit THEN n ELSE 0
       IN form = [sel |-> [k \in Levels |-> IF k = 1 /\ known > 0 THEN Parent(car)
                                            ELSE IF k = 2 /\ known > 1 THEN car ELSE None],
                  offer |-> [k \in Levels |-> IF k = 2 /\ known > 1 THEN Parent(car)
                                              ELSE IF k = 3 /\ known > 2 THEN car ELSE None],
                  loading |-> [k \in Levels |-> k = 1],
                  original |-> edit]
  /\ \E c \in Calls : call = [d \in Calls |-> IF d = c THEN Ask(1, Root) ELSE NoCall]
  /\ mixed = {}

\* The select of a level is open to the user.
Enabled(k) == ~form.loading[k] /\ (k > 1 => form.sel[k - 1] # None)
Offered(k) == IF form.offer[k] = None THEN {} ELSE Under(form.offer[k])

\* handleMarkChange, handleModelChange, handleGenChange, handleConfChange: all below is
\* cleared, with the car the listing had, and the next level is asked for.
ClearedBug(k, j) == j > k + 1
Cleared(k, j) == j > k
handleChange(c, k, entry) ==
  /\ k < Last /\ Enabled(k) /\ entry \in Offered(k) /\ call[c] = NoCall
  /\ form' = [sel |-> [j \in Levels |-> IF j = k THEN entry ELSE IF Cleared(k, j) THEN None ELSE form.sel[j]],
              offer |-> [j \in Levels |-> IF Cleared(k, j) THEN None ELSE form.offer[j]],
              loading |-> [form.loading EXCEPT ![k + 1] = TRUE],
              original |-> FALSE]
  /\ call' = [call EXCEPT ![c] = Ask(k + 1, entry)]
  /\ mixed' = mixed \cup {j \in {k + 1} : \E d \in Calls : call[d].level = j}

setSelectedMod(entry) ==
  /\ Enabled(Last) /\ entry \in Offered(Last)
  /\ form' = [form EXCEPT !.sel[Last] = entry]
  /\ UNCHANGED <<call, mixed>>

\* Whatever request is answered fills the select and ends its spinner.
Answered(f, r) == [f EXCEPT !.offer[r.level] = IF r.step = "ok" THEN r.of ELSE None,
                            !.loading[r.level] = FALSE]
answered(c) ==
  /\ call[c].step \in {"ok", "failed"}
  /\ form' = Answered(form, call[c])
  /\ call' = [call EXCEPT ![c] = NoCall]
  /\ UNCHANGED mixed

\* The catalog answers with the entries under the one it was asked for.
getEntries(c) ==
  /\ call[c].step = "sent"
  /\ call' = [call EXCEPT ![c].step = "ok"]
  /\ UNCHANGED <<form, mixed>>

Fails(c) ==
  /\ "fail" \in Acts /\ call[c].step = "sent"
  /\ call' = [call EXCEPT ![c].step = "failed"]
  /\ UNCHANGED <<form, mixed>>

Next ==
  \/ \E c \in Calls : getEntries(c) \/ Fails(c) \/ answered(c)
                        \/ \E k \in Levels : \E entry \in Offered(k) : handleChange(c, k, entry)
  \/ \E entry \in Offered(Last) : setSelectedMod(entry)

Spec == Init /\ [][Next]_vars

-----------------------------------------------------------------------------
\* A spinner has a request that ends it, nothing is chosen under an empty choice, and a
\* modification chosen replaces the car the listing had.
TypeOK ==
  /\ \A k \in Levels : form.loading[k] => \E c \in Calls : call[c].level = k
  /\ \A k \in Levels \ {1} : form.sel[k] # None => form.sel[k - 1] # None
  /\ form.sel[Last] # None => ~form.original

\* While no level was asked for twice at once, the choices are those of one car, and what
\* a select offers is under the choice above it.
OneCar ==
  mixed = {} => \A k \in Levels \ {1} :
    /\ form.sel[k] # None => Parent(form.sel[k]) = form.sel[k - 1]
    /\ form.offer[k] # None /\ Enabled(k) => form.offer[k] = form.sel[k - 1]

-----------------------------------------------------------------------------
\* What the code, its texts or its tests say and a behaviour refutes: see the README.

\* The choices are those of one car, whatever order the catalog answers in.
ChosenOfBrand == \A k \in Levels \ {1} : form.sel[k] # None => Parent(form.sel[k]) = form.sel[k - 1]
=============================================================================
