--------------------------- MODULE CarDetailProofs ---------------------------
(***************************************************************************)
(* Proofs about CarDetail for any number of buyers, tabs, requests and rows: *)
(* the deposit of a car is held for one reservation, which knows of it.     *)
(***************************************************************************)
EXTENDS CarDetail, FiniteSetTheorems, TLAPS

RowSet == [status : Open \cup {"absent", "cancelled", "completed"},
           b : Buyers \cup {None}, w : Windows \cup {None}, yk : BOOLEAN]
PageSet == [view : {"loading", "not found", "available", "reserved", "sold", "inactive"},
            wins : SUBSET Windows, winsLoading : BOOLEAN, panel : BOOLEAN,
            sel : Windows \cup {None}, reserving : BOOLEAN,
            url : Rids \cup {None}, done : BOOLEAN]
CallSet == [b : Buyers \cup {None}, heard : BOOLEAN,
            w : Windows \cup {None}, r : Rids \cup {None},
            step : Answers \cup {"idle", "sent", "hold", "resume", "lookup", "created", "giveup"}]
RetSet == [r : Rids \cup {None}, step : Shows \cup {"away", "lookup", "confirm"}]

ServerTyped ==
  /\ listing \in {"active", "reserved", "sold", "archived"}
  /\ enabled \in BOOLEAN /\ offered \subseteq Windows
  /\ resv \in [Rids -> RowSet]
  /\ pay \in [Rids -> {"none", "pending", "held", "canceled"}]
ClientTyped ==
  /\ page \in [Buyers -> PageSet] /\ call \in [Calls -> CallSet] /\ linked \subseteq Rids
  /\ ret \in [Buyers -> RetSet]

-----------------------------------------------------------------------------
(* The inductive invariant. *)

\* uniq_active_reservation and the lock of the car's row
Single == \A r, q \in OpenRows : r = q

\* a request that is at work on a payment has its row, and the row of a link that is
\* on its way, or was shown, has the payment's id
Working ==
  \A c \in Calls :
    /\ call[c].step \in {"hold", "resume", "created", "giveup", "lookup", "url"} => call[c].r \in Rids
    /\ call[c].step \in {"lookup", "url"} => resv[call[c].r].yk
Shown == \A r \in linked : resv[r].yk

Safe == Single /\ Working /\ Shown /\ PaidIsRecorded
IInv == ServerTyped /\ ClientTyped /\ Safe

LEMMA Types == TypeOK <=> ServerTyped /\ ClientTyped
BY DEF TypeOK, ServerTyped, ClientTyped, RowSet, PageSet, CallSet, RetSet

LEMMA InitIInv == Init => IInv
<1> SUFFICES ASSUME Init PROVE IInv
  OBVIOUS
<1>1. NoRow \in RowSet /\ Mounted \in PageSet /\ NoCall \in CallSet /\ Away \in RetSet
  BY DEF NoRow, RowSet, Mounted, PageSet, NoCall, CallSet, Away, RetSet
<1>2. ServerTyped /\ ClientTyped
  BY <1>1 DEF Init, ServerTyped, ClientTyped
<1>3. Safe
  BY DEF Init, Safe, Single, OpenRows, Open, NoRow, Working, NoCall, Shown, PaidIsRecorded
<1> QED
  BY <1>2, <1>3 DEF IInv

-----------------------------------------------------------------------------
\* A page after a field or two changed.
LEMMA PageFields ==
  ASSUME NEW p \in PageSet, NEW x \in BOOLEAN
  PROVE  /\ \A v \in {"loading", "not found", "available", "reserved", "sold", "inactive"} :
              [p EXCEPT !.view = v] \in PageSet
         /\ \A ws \in SUBSET Windows : [p EXCEPT !.wins = ws, !.winsLoading = x] \in PageSet
         /\ [p EXCEPT !.panel = x] \in PageSet
         /\ [p EXCEPT !.reserving = x] \in PageSet
         /\ \A y \in BOOLEAN : [p EXCEPT !.done = y, !.reserving = x] \in PageSet
         /\ \A u \in Rids \cup {None} : /\ [p EXCEPT !.url = u, !.reserving = x] \in PageSet
                                       /\ [p EXCEPT !.url = u, !.panel = x] \in PageSet
         /\ \A w \in Windows \cup {None} : [p EXCEPT !.sel = w] \in PageSet
<1> USE DEF PageSet
<1>1. \A v \in {"loading", "not found", "available", "reserved", "sold", "inactive"} :
        [p EXCEPT !.view = v] \in PageSet
  OBVIOUS
<1>2. \A ws \in SUBSET Windows : [p EXCEPT !.wins = ws, !.winsLoading = x] \in PageSet
  OBVIOUS
<1>3. [p EXCEPT !.panel = x] \in PageSet
  OBVIOUS
<1>4. [p EXCEPT !.reserving = x] \in PageSet
  OBVIOUS
<1>5. \A y \in BOOLEAN : [p EXCEPT !.done = y, !.reserving = x] \in PageSet
  OBVIOUS
<1>6. \A u \in Rids \cup {None} : [p EXCEPT !.url = u, !.reserving = x] \in PageSet
  OBVIOUS
<1>7. \A u \in Rids \cup {None} : [p EXCEPT !.url = u, !.panel = x] \in PageSet
  OBVIOUS
<1>8. \A w \in Windows \cup {None} : [p EXCEPT !.sel = w] \in PageSet
  OBVIOUS
<1> HIDE DEF PageSet
<1> QED
  BY <1>1, <1>2, <1>3, <1>4, <1>5, <1>6, <1>7, <1>8

LEMMA Answering ==
  ASSUME ClientTyped, NEW c \in Calls, NEW r \in Rids \cup {None},
         NEW step \in Answers \cup {"idle", "sent", "hold", "resume", "lookup", "created", "giveup"},
         Answer(c, r, step)
  PROVE  /\ call' \in [Calls -> CallSet] /\ call'[c].r = r /\ call'[c].step = step
         /\ \A d \in Calls \ {c} : call'[d] = call[d]
<1>1. [call[c] EXCEPT !.r = r, !.step = step] \in CallSet
  BY DEF ClientTyped, CallSet
<1>2. /\ [call[c] EXCEPT !.r = r, !.step = step].r = r
      /\ [call[c] EXCEPT !.r = r, !.step = step].step = step
  BY DEF ClientTyped, CallSet
<1>3. call' = [call EXCEPT ![c] = [call[c] EXCEPT !.r = r, !.step = step]]
  BY DEF Answer
<1> QED
  BY <1>1, <1>2, <1>3 DEF ClientTyped

-----------------------------------------------------------------------------
\* The server's part of the invariant survives what leaves the server alone and gives no
\* request work to do.
LEMMA ServerKept ==
  ASSUME IInv, UNCHANGED server,
         \A c \in Calls : \/ call'[c].step = call[c].step /\ call'[c].r = call[c].r
                         \/ call'[c].step \in {"idle", "sent", "null", "refused", "no window",
                                               "failed"},
         \A r \in linked' : r \in linked \/ resv[r].yk
  PROVE  ServerTyped' /\ Safe'
<1>1. UNCHANGED <<listing, enabled, offered, resv, pay>>
  BY DEF server
<1>2. ServerTyped' /\ Single' /\ PaidIsRecorded'
  BY <1>1 DEF IInv, ServerTyped, Safe, Single, OpenRows, PaidIsRecorded
<1>3. Working'
  BY <1>1 DEF IInv, Safe, Working
<1>4. Shown'
  BY <1>1 DEF IInv, Safe, Shown
<1> QED
  BY <1>2, <1>3, <1>4 DEF Safe

LEMMA BuyerStep ==
  ASSUME IInv, NEW b \in Buyers,
         \/ Reload(b) \/ LoadCar(b) \/ LoadWindows(b) \/ TogglePanel(b) \/ payLater(b)
         \/ \E w \in Windows : SelectWindow(b, w)
  PROVE  IInv'
<1>t. /\ page \in [Buyers -> PageSet] /\ page[b] \in PageSet /\ call \in [Calls -> CallSet]
      /\ linked \subseteq Rids /\ ret \in [Buyers -> RetSet]
      /\ listing \in {"active", "reserved", "sold", "archived"} /\ offered \subseteq Windows
  BY DEF IInv, ClientTyped, ServerTyped
<1>s. SUFFICES ASSUME UNCHANGED <<server, linked, ret>>
      PROVE  /\ page' \in [Buyers -> PageSet] /\ call' \in [Calls -> CallSet]
             /\ \A c \in Calls : call'[c].step = call[c].step /\ call'[c].r = call[c].r
  <2>1. UNCHANGED <<server, linked, ret>>
    BY DEF Reload, LoadCar, LoadWindows, TogglePanel, payLater, SelectWindow
  <2> QED
    BY <2>1, <1>t, ServerKept DEF IInv, ClientTyped
<1>1. CASE Reload(b)
  <2>1. page' = [page EXCEPT ![b] = Mounted]
    BY <1>1 DEF Reload
  <2>2. Mounted \in PageSet
    BY DEF Mounted, PageSet
  <2>3. call' = [c \in Calls |-> IF call[c].b = b THEN [call[c] EXCEPT !.heard = FALSE] ELSE call[c]]
    BY <1>1 DEF Reload
  <2>4. \A c \in Calls : /\ [call[c] EXCEPT !.heard = FALSE] \in CallSet
                        /\ [call[c] EXCEPT !.heard = FALSE].step = call[c].step
                        /\ [call[c] EXCEPT !.heard = FALSE].r = call[c].r
    BY <1>t DEF CallSet
  <2> QED
    BY <2>1, <2>2, <2>3, <2>4, <1>t
<1>2. CASE LoadCar(b)
  <2>1. PICK v \in {mapStatus(listing), "not found"} : page' = [page EXCEPT ![b].view = v]
    BY <1>2 DEF LoadCar
  <2>2. v \in {"loading", "not found", "available", "reserved", "sold", "inactive"}
    BY <1>t, <2>1 DEF mapStatus
  <2>3. [page[b] EXCEPT !.view = v] \in PageSet
    BY <1>t, <2>2, PageFields
  <2> QED
    BY <1>2, <1>t, <2>1, <2>3 DEF LoadCar
<1>3. CASE LoadWindows(b)
  <2>1. PICK ws \in {offered, {}} :
          page' = [page EXCEPT ![b] = [page[b] EXCEPT !.wins = ws, !.winsLoading = FALSE]]
    BY <1>3 DEF LoadWindows
  <2>2. [page[b] EXCEPT !.wins = ws, !.winsLoading = FALSE] \in PageSet
    BY <1>t, <2>1, PageFields
  <2> QED
    BY <1>3, <1>t, <2>1, <2>2 DEF LoadWindows
<1>4. CASE TogglePanel(b)
  <2>1. page' = [page EXCEPT ![b] = [page[b] EXCEPT !.panel = ~page[b].panel]]
    BY <1>4 DEF TogglePanel
  <2>2. (~page[b].panel) \in BOOLEAN
    BY <1>t DEF PageSet
  <2>3. [page[b] EXCEPT !.panel = ~page[b].panel] \in PageSet
    BY <1>t, <2>2, PageFields
  <2> QED
    BY <1>4, <1>t, <2>1, <2>3 DEF TogglePanel
<1>5. CASE payLater(b)
  <2>1. page' = [page EXCEPT ![b] = [page[b] EXCEPT !.url = None, !.panel = FALSE]]
    BY <1>5 DEF payLater
  <2>2. [page[b] EXCEPT !.url = None, !.panel = FALSE] \in PageSet
    BY <1>t, PageFields
  <2> QED
    BY <1>5, <1>t, <2>1, <2>2 DEF payLater
<1>6. ASSUME NEW w \in Windows, SelectWindow(b, w)
      PROVE  /\ page' \in [Buyers -> PageSet] /\ call' \in [Calls -> CallSet]
             /\ \A c \in Calls : call'[c].step = call[c].step /\ call'[c].r = call[c].r
  <2> DEFINE v == IF page[b].sel = w THEN None ELSE w
  <2>1. page' = [page EXCEPT ![b] = [page[b] EXCEPT !.sel = v]] /\ UNCHANGED call
    BY <1>6 DEF SelectWindow
  <2>2. v \in Windows \cup {None}
    OBVIOUS
  <2> HIDE DEF v
  <2>3. [page[b] EXCEPT !.sel = v] \in PageSet
    BY <1>t, <2>2, PageFields
  <2> QED
    BY <1>t, <2>1, <2>3
<1> QED
  BY <1>1, <1>2, <1>3, <1>4, <1>5, <1>6

\* A request is sent, and its answer is drawn.
LEMMA RequestStep ==
  ASSUME IInv, NEW c \in Calls,
         ReserveAnswered(c) \/ \E b \in Buyers : handleReserve(b, c)
  PROVE  IInv'
<1>t. /\ page \in [Buyers -> PageSet] /\ call \in [Calls -> CallSet] /\ call[c] \in CallSet
      /\ linked \subseteq Rids /\ ret \in [Buyers -> RetSet]
  BY DEF IInv, ClientTyped
<1>1. CASE ReserveAnswered(c)
  <2>1. /\ call' = [call EXCEPT ![c] = NoCall] /\ UNCHANGED <<server, ret>>
        /\ \/ UNCHANGED <<page, linked>>
           \/ /\ page' = [page EXCEPT ![call[c].b] = AfterReserve(page[call[c].b], call[c])]
              /\ linked' = linked \cup (IF call[c].step = "url" THEN {call[c].r} ELSE {})
    BY <1>1 DEF ReserveAnswered
  <2>2. \A p \in PageSet : AfterReserve(p, call[c]) \in PageSet
    <3>1. SUFFICES ASSUME NEW p \in PageSet PROVE AfterReserve(p, call[c]) \in PageSet
      OBVIOUS
    <3>2. call[c].r \in Rids \cup {None}
      BY <1>t DEF CallSet
    <3>3. /\ [p EXCEPT !.url = call[c].r, !.reserving = FALSE] \in PageSet
          /\ [p EXCEPT !.done = TRUE, !.reserving = FALSE] \in PageSet
          /\ [p EXCEPT !.reserving = FALSE] \in PageSet
      BY <3>2, PageFields
    <3> QED
      BY <3>3 DEF AfterReserve
  <2>3. page' \in [Buyers -> PageSet]
    BY <1>t, <2>1, <2>2
  <2>4. call[c].step = "url" => call[c].r \in Rids /\ resv[call[c].r].yk
    BY DEF IInv, Safe, Working
  <2>5. linked' \subseteq Rids /\ \A r \in linked' : r \in linked \/ resv[r].yk
    BY <1>t, <2>1, <2>4
  <2>6. /\ call' \in [Calls -> CallSet] /\ call'[c].step = "idle"
        /\ \A d \in Calls \ {c} : call'[d] = call[d]
    BY <1>t, <2>1 DEF NoCall, CallSet
  <2>7. ServerTyped' /\ Safe'
    <3>1. \A d \in Calls : \/ call'[d].step = call[d].step /\ call'[d].r = call[d].r
                           \/ call'[d].step \in {"idle", "sent"}
      BY <2>6
    <3> QED
      BY <2>1, <2>5, <3>1, ServerKept
  <2> QED
    BY <1>t, <2>1, <2>3, <2>5, <2>6, <2>7 DEF IInv, ClientTyped
<1>2. ASSUME NEW b \in Buyers, handleReserve(b, c)
      PROVE  IInv'
  <2> DEFINE k == [b |-> b, heard |-> TRUE, w |-> page[b].sel, r |-> None, step |-> "sent"]
  <2>1. /\ call' = [call EXCEPT ![c] = k]
        /\ page' = [page EXCEPT ![b] = [page[b] EXCEPT !.reserving = TRUE]]
        /\ UNCHANGED <<server, linked, ret>>
    BY <1>2 DEF handleReserve
  <2>2. page[b] \in PageSet /\ page[b].sel \in Windows \cup {None}
    BY <1>t DEF PageSet
  <2>3. k \in CallSet /\ k.step = "sent"
    BY <2>2 DEF CallSet
  <2> HIDE DEF k
  <2>4. page' \in [Buyers -> PageSet]
    BY <1>t, <2>1, <2>2, PageFields
  <2>5. /\ call' \in [Calls -> CallSet] /\ call'[c].step = "sent"
        /\ \A d \in Calls \ {c} : call'[d] = call[d]
    BY <1>t, <2>1, <2>3
  <2>6. ServerTyped' /\ Safe'
    <3>1. \A d \in Calls : \/ call'[d].step = call[d].step /\ call'[d].r = call[d].r
                           \/ call'[d].step \in {"idle", "sent"}
      BY <2>5
    <3> QED
      BY <2>1, <3>1, ServerKept
  <2> QED
    BY <1>t, <2>1, <2>4, <2>5, <2>6 DEF IInv, ClientTyped
<1> QED
  BY <1>1, <1>2

-----------------------------------------------------------------------------
\* What a step of the server owes the invariant: it forgets the id of no payment, opens no
\* second reservation, and answers with a link only when the row has its id.
LEMMA ServerStep ==
  ASSUME IInv, ServerTyped', ClientTyped', Single', UNCHANGED linked,
         \A r \in Rids : resv[r].yk => resv'[r].yk,
         \A r \in Rids : pay'[r] = "held" => pay[r] = "held" \/ r \in linked,
         \A c \in Calls :
           \/ call'[c].step = call[c].step /\ call'[c].r = call[c].r
           \/ call'[c].step \in {"idle", "sent", "null", "refused", "no window", "failed"}
           \/ call'[c].r \in Rids /\ (call'[c].step \in {"lookup", "url"} => resv'[call'[c].r].yk)
  PROVE  IInv'
<1>1. Working'
  BY DEF IInv, Safe, Working
<1>2. Shown'
  BY DEF IInv, Safe, Shown, ClientTyped
<1>3. PaidIsRecorded'
  BY DEF IInv, Safe, Shown, PaidIsRecorded
<1> QED
  BY <1>1, <1>2, <1>3 DEF IInv, Safe

\* A row is rewritten: what that means for the open ones and the ids.
LEMMA RowWritten ==
  ASSUME resv \in [Rids -> RowSet], Single, NEW r \in Rids, NEW row \in RowSet,
         resv' = [resv EXCEPT ![r] = row],
         row.status \in Open => r \in OpenRows \/ OpenRows = {},
         resv[r].yk => row.yk
  PROVE  /\ resv' \in [Rids -> RowSet] /\ Single' /\ resv'[r] = row
         /\ \A q \in Rids : resv[q].yk => resv'[q].yk
BY DEF Single, OpenRows

LEMMA RowFields ==
  ASSUME NEW row \in RowSet
  PROVE  /\ \A s \in Open \cup {"absent", "cancelled", "completed"} :
              /\ [row EXCEPT !.status = s] \in RowSet /\ [row EXCEPT !.status = s].status = s
              /\ [row EXCEPT !.status = s].yk = row.yk
         /\ [row EXCEPT !.yk = TRUE] \in RowSet /\ [row EXCEPT !.yk = TRUE].yk = TRUE
         /\ [row EXCEPT !.yk = TRUE].status = row.status
BY DEF RowSet

\* The status of a row changes: it opens none.
LEMMA StatusWritten ==
  ASSUME resv \in [Rids -> RowSet], Single, NEW r \in Rids,
         NEW s \in Open \cup {"absent", "cancelled", "completed"},
         s \in Open => r \in OpenRows, resv' = [resv EXCEPT ![r].status = s]
  PROVE  /\ resv' \in [Rids -> RowSet] /\ Single'
         /\ \A q \in Rids : resv[q].yk => resv'[q].yk
<1>1. resv[r] \in RowSet /\ resv' = [resv EXCEPT ![r] = [resv[r] EXCEPT !.status = s]]
  OBVIOUS
<1>2. /\ [resv[r] EXCEPT !.status = s] \in RowSet
      /\ [resv[r] EXCEPT !.status = s].status = s
      /\ [resv[r] EXCEPT !.status = s].yk = resv[r].yk
  BY <1>1, RowFields
<1> DEFINE row == [resv[r] EXCEPT !.status = s]
<1>3. row \in RowSet /\ resv' = [resv EXCEPT ![r] = row] /\ row.status = s /\ row.yk = resv[r].yk
  BY <1>1, <1>2
<1> HIDE DEF row
<1> QED
  BY <1>3, RowWritten

\* What a request gets or does next leaves every other request alone.
LEMMA AnswerStep ==
  ASSUME IInv, ServerTyped', Single', UNCHANGED <<page, linked, ret>>,
         NEW c \in Calls, NEW r \in Rids \cup {None},
         NEW step \in Answers \cup {"idle", "sent", "hold", "resume", "lookup", "created", "giveup"},
         Answer(c, r, step),
         \A q \in Rids : resv[q].yk => resv'[q].yk,
         \A q \in Rids : pay'[q] = "held" => pay[q] = "held",
         \/ step \in {"null", "refused", "no window", "failed"}
         \/ r \in Rids /\ (step \in {"lookup", "url"} => resv'[r].yk)
  PROVE  IInv'
<1>1. /\ call' \in [Calls -> CallSet] /\ call'[c].r = r /\ call'[c].step = step
      /\ \A d \in Calls \ {c} : call'[d] = call[d]
  BY Answering DEF IInv
<1>2. ClientTyped'
  BY <1>1 DEF IInv, ClientTyped
<1>3. \A d \in Calls :
        \/ call'[d].step = call[d].step /\ call'[d].r = call[d].r
        \/ call'[d].step \in {"idle", "sent", "null", "refused", "no window", "failed"}
        \/ call'[d].r \in Rids /\ (call'[d].step \in {"lookup", "url"} => resv'[call'[d].r].yk)
  BY <1>1
<1> QED
  BY <1>2, <1>3, ServerStep

\* A step that answers nobody.
LEMMA RowStep ==
  ASSUME IInv, ServerTyped', Single', UNCHANGED <<page, call, linked>>, ret' \in [Buyers -> RetSet],
         \A r \in Rids : resv[r].yk => resv'[r].yk,
         \A r \in Rids : pay'[r] = "held" => pay[r] = "held" \/ r \in linked
  PROVE  IInv'
<1>1. ClientTyped'
  BY DEF IInv, ClientTyped
<1>2. \A d \in Calls : call'[d].step = call[d].step /\ call'[d].r = call[d].r
  OBVIOUS
<1> QED
  BY <1>1, <1>2, ServerStep

LEMMA InsertStep ==
  ASSUME IInv, NEW c \in Calls, ReserveInsert(c)
  PROVE  IInv'
<1>t. /\ resv \in [Rids -> RowSet] /\ call[c] \in CallSet /\ Single /\ ServerTyped
  BY DEF IInv, ClientTyped, ServerTyped, Safe
<1>u. UNCHANGED <<enabled, offered, pay, page, linked, ret>>
  BY DEF ReserveInsert
<1>k. ASSUME UNCHANGED <<listing, resv>>
      PROVE  ServerTyped' /\ Single' /\ \A q \in Rids : resv[q].yk => resv'[q].yk
  BY <1>k, <1>t, <1>u DEF ServerTyped, Single, OpenRows
<1>1. ASSUME NEW step \in {"no window", "refused"}, Answer(c, None, step), UNCHANGED <<listing, resv>>
      PROVE  IInv'
  <2>1. step \in Answers \cup {"idle", "sent", "hold", "resume", "lookup", "created", "giveup"}
    BY DEF Answers
  <2>2. step \in {"null", "refused", "no window", "failed"} /\ None \in Rids \cup {None}
    OBVIOUS
  <2> QED
    BY <1>1, <1>k, <1>u, <2>1, <2>2, AnswerStep
<1>2. ASSUME NEW r \in OpenRows, UNCHANGED <<listing, resv>>,
             Answer(c, r, IF ~Resumable(r, call[c].b) THEN "refused"
                          ELSE IF resv[r].yk THEN "lookup" ELSE "resume")
      PROVE  IInv'
  <2> DEFINE step == IF ~Resumable(r, call[c].b) THEN "refused"
                     ELSE IF resv[r].yk THEN "lookup" ELSE "resume"
  <2>1. /\ step \in Answers \cup {"idle", "sent", "hold", "resume", "lookup", "created", "giveup"}
        /\ step \in {"lookup", "url"} => resv'[r].yk
    BY <1>2 DEF Answers
  <2>2. r \in Rids /\ Answer(c, r, step)
    BY <1>2 DEF OpenRows
  <2> HIDE DEF step
  <2> QED
    BY <1>2, <1>k, <1>u, <2>1, <2>2, AnswerStep
<1>3. ASSUME NEW r \in Inserted, Answer(c, r, "hold"), listing' = "reserved",
             resv' = [resv EXCEPT ![r] = [status |-> "pending_payment", b |-> call[c].b,
                                          w |-> call[c].w, yk |-> FALSE]]
      PROVE  IInv'
  <2> DEFINE row == [status |-> "pending_payment", b |-> call[c].b, w |-> call[c].w, yk |-> FALSE]
  <2>1. r \in Rids /\ OpenRows = {} /\ resv[r] = NoRow
    BY DEF Inserted
  <2>2. row \in RowSet
    BY <1>t DEF RowSet, CallSet, Open
  <2>3. ~resv[r].yk /\ resv' = [resv EXCEPT ![r] = row]
    BY <1>3, <2>1 DEF NoRow
  <2> HIDE DEF row
  <2>4. /\ resv' \in [Rids -> RowSet] /\ Single'
        /\ \A q \in Rids : resv[q].yk => resv'[q].yk
    BY <1>t, <2>1, <2>2, <2>3, RowWritten
  <2>5. ServerTyped'
    BY <1>3, <1>t, <1>u, <2>4 DEF ServerTyped
  <2>6. "hold" \in Answers \cup {"idle", "sent", "hold", "resume", "lookup", "created", "giveup"}
    OBVIOUS
  <2> QED
    BY <1>3, <1>u, <2>1, <2>4, <2>5, <2>6, AnswerStep
<1> QED
  BY <1>1, <1>2, <1>3 DEF ReserveInsert

\* The other steps of reserve: the request works on a row.
LEMMA HandlerStep ==
  ASSUME IInv, NEW c \in Calls,
         CreateHold(c) \/ GiveUp(c) \/ SaveHold(c) \/ FindPayment(c) \/ CallLost(c)
  PROVE  IInv'
<1> DEFINE r == call[c].r
<1>t. /\ resv \in [Rids -> RowSet] /\ Single /\ ServerTyped
      /\ r \in Rids \cup {None}
      /\ pay \in [Rids -> {"none", "pending", "held", "canceled"}]
      /\ call[c].step \in {"hold", "resume", "created", "giveup", "lookup", "url"} => r \in Rids
      /\ call[c].step \in {"lookup", "url"} => resv[r].yk
  BY DEF IInv, ClientTyped, ServerTyped, Safe, Working, CallSet
<1>u. UNCHANGED <<page, linked, ret>>
  BY DEF CreateHold, GiveUp, SaveHold, FindPayment, CallLost
<1>k. ASSUME UNCHANGED <<listing, enabled, offered, resv>>, pay' \in [Rids -> {"none", "pending", "held", "canceled"}]
      PROVE  ServerTyped' /\ Single' /\ \A q \in Rids : resv[q].yk => resv'[q].yk
  BY <1>k, <1>t, <1>u DEF ServerTyped, Single, OpenRows
<1>s. {"hold", "resume", "lookup", "created", "giveup", "url", "null", "failed"}
        \subseteq Answers \cup {"idle", "sent", "hold", "resume", "lookup", "created", "giveup"}
  BY DEF Answers
<1>1. CASE CreateHold(c)
  <2>1. /\ r \in Rids /\ UNCHANGED <<listing, enabled, offered, resv>>
        /\ pay' \in [Rids -> {"none", "pending", "held", "canceled"}]
        /\ \A q \in Rids : pay'[q] = "held" => pay[q] = "held"
    BY <1>1, <1>t DEF CreateHold
  <2>2. PICK step \in {"created", "giveup", "failed"} : Answer(c, r, step)
    BY <1>1 DEF CreateHold
  <2> QED
    BY <1>k, <1>s, <1>u, <2>1, <2>2, AnswerStep
<1>2. CASE GiveUp(c)
  <2>1. /\ r \in Rids /\ resv' = [resv EXCEPT ![r].status = "cancelled"] /\ listing' = "active"
        /\ UNCHANGED <<enabled, offered, pay>> /\ Answer(c, r, "failed")
    BY <1>2, <1>t DEF GiveUp
  <2>2. "cancelled" \notin Open
    BY DEF Open
  <2>3. /\ resv' \in [Rids -> RowSet] /\ Single'
        /\ \A q \in Rids : resv[q].yk => resv'[q].yk
    <3> HIDE DEF r
    <3> QED
      BY <1>t, <2>1, <2>2, StatusWritten
  <2>4. ServerTyped'
    BY <1>t, <2>1, <2>3 DEF ServerTyped
  <2> QED
    BY <1>s, <1>t, <1>u, <2>1, <2>3, <2>4, AnswerStep
<1>3. CASE SaveHold(c)
  <2> DEFINE row == [resv[r] EXCEPT !.yk = TRUE]
  <2>1. /\ r \in Rids /\ resv' = [resv EXCEPT ![r] = row]
        /\ UNCHANGED <<listing, enabled, offered, pay>>
    BY <1>3, <1>t DEF SaveHold
  <2>2. row \in RowSet /\ row.yk /\ row.status = resv[r].status
    BY <1>t, <2>1, RowFields
  <2>3. row.status \in Open => r \in OpenRows
    BY <2>1, <2>2 DEF OpenRows
  <2>4. /\ resv' \in [Rids -> RowSet] /\ Single' /\ resv'[r] = row
        /\ \A q \in Rids : resv[q].yk => resv'[q].yk
    <3> HIDE DEF row, r
    <3> QED
      BY <1>t, <2>1, <2>2, <2>3, RowWritten
  <2>5. ServerTyped' /\ resv'[r].yk
    <3> HIDE DEF row
    <3> QED
      BY <1>t, <2>1, <2>2, <2>4 DEF ServerTyped
  <2>6. PICK step \in {"url", "null"} : Answer(c, r, step)
    BY <1>3 DEF SaveHold
  <2> HIDE DEF row
  <2> QED
    BY <1>s, <1>u, <2>1, <2>4, <2>5, <2>6, AnswerStep
<1>4. CASE FindPayment(c)
  <2>1. r \in Rids /\ resv[r].yk /\ UNCHANGED <<listing, enabled, offered, resv, pay>>
    BY <1>4, <1>t DEF FindPayment, server
  <2>2. PICK step \in {"url", "null", "failed"} : Answer(c, r, step)
    BY <1>4 DEF FindPayment
  <2> QED
    BY <1>k, <1>s, <1>t, <1>u, <2>1, <2>2, AnswerStep
<1>5. CASE CallLost(c)
  <2>1. Answer(c, r, "failed") /\ UNCHANGED <<listing, enabled, offered, resv, pay>>
    BY <1>5 DEF CallLost, server
  <2> QED
    BY <1>k, <1>s, <1>t, <1>u, <2>1, AnswerStep
<1> QED
  BY <1>1, <1>2, <1>3, <1>4, <1>5

\* The provider, the webhook, the jobs and the other pages.
LEMMA OutsideStep ==
  ASSUME IInv, NEW r \in Rids,
         \/ Pay(r) \/ PaymentExpires(r) \/ on_hold_confirmed(r) \/ Close(r) \/ Outcome(r)
  PROVE  IInv'
<1>t. /\ resv \in [Rids -> RowSet] /\ resv[r] \in RowSet /\ Single /\ ServerTyped
      /\ listing \in {"active", "reserved", "sold", "archived"}
      /\ pay \in [Rids -> {"none", "pending", "held", "canceled"}]
  BY DEF IInv, ServerTyped, Safe
<1>u. UNCHANGED <<enabled, offered, page, call, linked>> /\ ret' \in [Buyers -> RetSet]
  BY DEF Pay, PaymentExpires, on_hold_confirmed, Close, Outcome, IInv, ClientTyped
<1>p. CASE Pay(r) \/ PaymentExpires(r)
  <2>1. /\ UNCHANGED resv /\ listing' \in {"active", "reserved", "sold", "archived"}
        /\ pay' \in [Rids -> {"none", "pending", "held", "canceled"}]
        /\ \A q \in Rids : pay'[q] = "held" => pay[q] = "held" \/ q \in linked
    BY <1>p, <1>t DEF Pay, PaymentExpires
  <2>2. ServerTyped' /\ Single' /\ \A q \in Rids : resv[q].yk => resv'[q].yk
    BY <1>t, <1>u, <2>1 DEF ServerTyped, Single, OpenRows
  <2> QED
    BY <1>u, <2>1, <2>2, RowStep
<1>s. ASSUME NEW s \in Open \cup {"absent", "cancelled", "completed"}, s \in Open => r \in OpenRows,
             resv' = [resv EXCEPT ![r].status = s], listing' \in {"active", "reserved", "sold", "archived"},
             pay' \in {pay, [pay EXCEPT ![r] = IF @ = "held" THEN "canceled" ELSE @]}
      PROVE  IInv'
  <2>1. /\ resv' \in [Rids -> RowSet] /\ Single'
        /\ \A q \in Rids : resv[q].yk => resv'[q].yk
    BY <1>t, <1>s, StatusWritten
  <2>2. /\ pay' \in [Rids -> {"none", "pending", "held", "canceled"}]
        /\ \A q \in Rids : pay'[q] = "held" => pay[q] = "held"
    BY <1>t, <1>s
  <2>3. ServerTyped'
    BY <1>t, <1>u, <1>s, <2>1, <2>2 DEF ServerTyped
  <2> QED
    BY <1>u, <2>1, <2>2, <2>3, RowStep
<1>1. CASE on_hold_confirmed(r)
  <2>1. "active" \in Open /\ r \in OpenRows
    BY <1>1 DEF on_hold_confirmed, OpenRows, Open
  <2> QED
    BY <1>1, <1>s, <1>t, <2>1 DEF on_hold_confirmed
<1>2. CASE Close(r)
  <2>1. "cancelled" \notin Open
    BY DEF Open
  <2> QED
    BY <1>2, <1>s, <2>1 DEF Close
<1>3. CASE Outcome(r)
  <2>1. /\ "settling" \in Open /\ "completed" \notin Open
        /\ resv[r].status \in {"active", "settling"} => r \in OpenRows
    BY DEF Open, OpenRows
  <2>2. /\ pay' = pay
        /\ \/ /\ resv[r].status = "active" /\ resv' = [resv EXCEPT ![r].status = "settling"]
              /\ listing' = listing
           \/ resv' = [resv EXCEPT ![r].status = "completed"] /\ listing' \in {"sold", "active"}
    BY <1>3 DEF Outcome
  <2>3. CASE resv' = [resv EXCEPT ![r].status = "completed"] /\ listing' \in {"sold", "active"}
    BY <1>s, <2>1, <2>2, <2>3
  <2>4. CASE /\ resv[r].status = "active" /\ resv' = [resv EXCEPT ![r].status = "settling"]
             /\ listing' = listing
    BY <1>s, <1>t, <2>1, <2>2, <2>4
  <2> QED
    BY <2>2, <2>3, <2>4
<1> QED
  BY <1>p, <1>1, <1>2, <1>3

LEMMA ArchiveStep ==
  ASSUME IInv, Archive
  PROVE  IInv'
<1>1. UNCHANGED <<enabled, offered, resv, pay, page, call, linked, ret>> /\ listing' = "archived"
  BY DEF Archive
<1>2. ServerTyped' /\ Single'
  BY <1>1 DEF IInv, ServerTyped, Safe, Single, OpenRows
<1>3. /\ ret' \in [Buyers -> RetSet] /\ \A r \in Rids : resv[r].yk => resv'[r].yk
      /\ \A r \in Rids : pay'[r] = "held" => pay[r] = "held"
  BY <1>1 DEF IInv, ClientTyped
<1> QED
  BY <1>1, <1>2, <1>3, RowStep

\* The page a buyer comes back to.
LEMMA ReturnStep ==
  ASSUME IInv, NEW b \in Buyers,
         \/ \E r \in Rids : ReturnRead(b, r)
         \/ ReturnLookup(b) \/ ReturnConfirm(b) \/ LeaveReturn(b)
  PROVE  IInv'
<1>t. /\ resv \in [Rids -> RowSet] /\ Single /\ ServerTyped /\ ret \in [Buyers -> RetSet]
      /\ ret[b] \in RetSet
  BY DEF IInv, ClientTyped, ServerTyped, Safe
<1>k. ASSUME UNCHANGED <<server, page, call, linked>>, ret' \in [Buyers -> RetSet]
      PROVE  IInv'
  <2>1. ServerTyped' /\ Single' /\ (\A r \in Rids : resv[r].yk => resv'[r].yk)
        /\ UNCHANGED pay
    BY <1>k, <1>t DEF server, ServerTyped, Single, OpenRows
  <2> QED
    BY <1>k, <2>1, RowStep
<1>1. ASSUME NEW r \in Rids, ReturnRead(b, r)
      PROVE  IInv'
  <2> DEFINE s == CASE resv[r].status = "active" -> "ok"
                    [] resv[r].status = "cancelled" -> "cancelled"
                    [] resv[r].status # "pending_payment" -> "failed"
                    [] OTHER -> IF resv[r].yk THEN "lookup" ELSE "pending"
  <2>1. /\ ret' = [ret EXCEPT ![b] = [r |-> r, step |-> s]]
        /\ UNCHANGED <<server, page, call, linked>>
    BY <1>1 DEF ReturnRead
  <2>2. s \in {"ok", "cancelled", "failed", "lookup", "pending"}
    OBVIOUS
  <2> HIDE DEF s
  <2>3. [r |-> r, step |-> s] \in RetSet
    BY <2>2 DEF RetSet, Shows
  <2> QED
    BY <1>t, <1>k, <2>1, <2>3
<1>2. CASE ReturnLookup(b)
  <2>1. PICK a \in {"confirm", "pending"} : ret' = [ret EXCEPT ![b] = [ret[b] EXCEPT !.step = a]]
    BY <1>2 DEF ReturnLookup
  <2>2. [ret[b] EXCEPT !.step = a] \in RetSet
    BY <1>t DEF RetSet, Shows
  <2> QED
    BY <1>2, <1>t, <1>k, <2>1, <2>2 DEF ReturnLookup
<1>3. CASE ReturnConfirm(b)
  <2>1. /\ ret' = [ret EXCEPT ![b] = [ret[b] EXCEPT !.step = "ok"]]
        /\ UNCHANGED <<listing, enabled, offered, pay, page, call, linked>>
    BY <1>3 DEF ReturnConfirm
  <2>2. [ret[b] EXCEPT !.step = "ok"] \in RetSet
    BY <1>t DEF RetSet, Shows
  <2>3. ret' \in [Buyers -> RetSet]
    BY <1>t, <2>1, <2>2
  <2>4. CASE UNCHANGED resv
    BY <1>k, <2>1, <2>3, <2>4 DEF server
  <2>5. ASSUME NEW r \in Rids, resv[r].status = "pending_payment",
               resv' = [resv EXCEPT ![r].status = "active"]
        PROVE  IInv'
    <3>1. "active" \in Open /\ r \in OpenRows
      BY <2>5 DEF OpenRows, Open
    <3>2. /\ resv' \in [Rids -> RowSet] /\ Single'
          /\ \A q \in Rids : resv[q].yk => resv'[q].yk
      BY <1>t, <2>5, <3>1, StatusWritten
    <3>3. ServerTyped'
      BY <1>t, <2>1, <3>2 DEF ServerTyped
    <3> QED
      BY <2>1, <2>3, <3>2, <3>3, RowStep
  <2>6. ret[b].r \in Rids \/ UNCHANGED resv \/ ret[b].r = None
    BY <1>t DEF RetSet
  <2>7. CASE ret[b].r \in Rids
    BY <1>3, <2>4, <2>5, <2>7 DEF ReturnConfirm
  <2>8. CASE ret[b].r = None /\ None \notin Rids
    <3>1. [resv EXCEPT ![None].status = "active"] = resv
      BY <1>t, <2>8
    <3>2. UNCHANGED resv
      BY <1>3, <2>8, <3>1 DEF ReturnConfirm
    <3> QED
      BY <3>2, <2>4
  <2> QED
    BY <2>4, <2>6, <2>7, <2>8
<1>4. CASE LeaveReturn(b)
  <2>1. Away \in RetSet
    BY DEF Away, RetSet
  <2> QED
    BY <1>4, <1>t, <1>k, <2>1 DEF LeaveReturn
<1> QED
  BY <1>1, <1>2, <1>3, <1>4

-----------------------------------------------------------------------------
LEMMA Step == IInv /\ [Next]_vars => IInv'
<1> SUFFICES ASSUME IInv, [Next]_vars PROVE IInv'
  OBVIOUS
<1>1. CASE UNCHANGED vars
  <2>1. UNCHANGED <<listing, enabled, offered, resv, pay, page, call, linked, ret>>
    BY <1>1 DEF vars, server
  <2> QED
    BY <2>1 DEF IInv, ServerTyped, ClientTyped, Safe, Single, OpenRows, Working, Shown, PaidIsRecorded
<1>2. ASSUME Next PROVE IInv'
  BY <1>2, BuyerStep, RequestStep, InsertStep, HandlerStep, OutsideStep, ArchiveStep, ReturnStep
  DEF Next, Handle
<1> QED
  BY <1>1, <1>2

LEMMA Kept == IInv => TypeOK /\ OneOpenPerCar /\ PaidIsRecorded
<1> SUFFICES ASSUME IInv PROVE TypeOK /\ OneOpenPerCar /\ PaidIsRecorded
  OBVIOUS
<1>1. TypeOK /\ PaidIsRecorded /\ \A r, q \in OpenRows : r = q
  BY Types DEF IInv, Safe, Single
<1>2. Cardinality(OpenRows) <= 1
  <2>1. CASE OpenRows = {}
    BY <2>1, FS_EmptySet
  <2>2. ASSUME NEW r \in OpenRows PROVE Cardinality(OpenRows) <= 1
    <3>1. OpenRows = {r}
      BY <1>1
    <3>2. Cardinality(OpenRows) = 1
      BY <3>1, FS_Singleton
    <3> QED
      BY <3>2
  <2> QED
    BY <2>1, <2>2
<1> QED
  BY <1>1, <1>2 DEF OneOpenPerCar

(* reserve of api/routes/reservations.py: retries, other tabs, other buyers and lost answers of the *)
(* provider leave one open reservation of a car, and no deposit is held that its row does not       *)
(* know of, whatever the pages still show.                                                          *)
THEOREM DepositIsRecorded == Spec => [](TypeOK /\ OneOpenPerCar /\ PaidIsRecorded)
<1>1. Init => IInv
  BY InitIInv
<1>2. IInv /\ [Next]_vars => IInv'
  BY Step
<1>3. IInv => TypeOK /\ OneOpenPerCar /\ PaidIsRecorded
  BY Kept
<1> QED
  BY <1>1, <1>2, <1>3, PTL DEF Spec
-----------------------------------------------------------------------------
(* Whose reservation a request is at work on, and whose link a page shows. *)

AtWork == {"hold", "resume", "created", "giveup", "lookup", "url"}
Holds(r, b) == r \in Rids /\ resv[r].b = b /\ resv[r].status # "absent"
Owned ==
  /\ \A c \in Calls : call[c].step \in AtWork => Holds(call[c].r, call[c].b)
  /\ \A b \in Buyers : page[b].url # None => Holds(page[b].url, b)

\* A row once inserted keeps its buyer.
LEMMA RowsStay ==
  ASSUME IInv, [Next]_vars
  PROVE  \A r \in Rids : resv[r].status # "absent"
           => resv'[r].b = resv[r].b /\ resv'[r].status # "absent"
<1> SUFFICES ASSUME NEW r \in Rids, resv[r].status # "absent"
             PROVE  resv'[r].b = resv[r].b /\ resv'[r].status # "absent"
  OBVIOUS
<1>t. resv \in [Rids -> RowSet] /\ resv[r] \in RowSet
  BY DEF IInv, ServerTyped
<1>1. CASE UNCHANGED vars
  BY <1>1 DEF vars, server
<1>2. ASSUME NEW c \in Calls, ReserveInsert(c) PROVE resv'[r].b = resv[r].b /\ resv'[r].status # "absent"
  <2>1. CASE UNCHANGED resv
    BY <2>1
  <2>2. ASSUME NEW q \in Inserted, NEW row, resv' = [resv EXCEPT ![q] = row]
        PROVE  resv'[r].b = resv[r].b /\ resv'[r].status # "absent"
    BY <2>2, <1>t DEF Inserted, NoRow
  <2> QED
    BY <1>2, <2>1, <2>2 DEF ReserveInsert
<1>3. ASSUME NEW c \in Calls, SaveHold(c) PROVE resv'[r].b = resv[r].b /\ resv'[r].status # "absent"
  BY <1>3, <1>t DEF SaveHold, RowSet
<1>4. ASSUME NEW q, NEW s \in {"cancelled", "active", "settling", "completed"},
             resv' = [resv EXCEPT ![q].status = s]
      PROVE  resv'[r].b = resv[r].b /\ resv'[r].status # "absent"
  BY <1>4, <1>t DEF RowSet
<1>5. CASE \E c \in Calls : GiveUp(c)
  BY <1>5, <1>4 DEF GiveUp
<1>6. CASE \E q \in Rids : on_hold_confirmed(q) \/ Close(q) \/ Outcome(q)
  BY <1>6, <1>4 DEF on_hold_confirmed, Close, Outcome
<1>7. CASE \E b \in Buyers : ReturnConfirm(b)
  <2>1. UNCHANGED resv \/ \E q : resv' = [resv EXCEPT ![q].status = "active"]
    BY <1>7 DEF ReturnConfirm
  <2> QED
    BY <2>1, <1>4
<1>8. CASE UNCHANGED resv
  BY <1>8
<1>9. CASE \E b \in Buyers :
             \/ Reload(b) \/ LoadCar(b) \/ LoadWindows(b) \/ TogglePanel(b) \/ payLater(b)
             \/ \E w \in Windows : SelectWindow(b, w)
             \/ \E c \in Calls : handleReserve(b, c)
             \/ \E q \in Rids : ReturnRead(b, q)
             \/ ReturnLookup(b) \/ LeaveReturn(b)
  BY <1>9, <1>8 DEF Reload, LoadCar, LoadWindows, TogglePanel, payLater, SelectWindow, handleReserve,
    ReturnRead, ReturnLookup, LeaveReturn, server
<1>10. CASE \E c \in Calls : CreateHold(c) \/ FindPayment(c) \/ ReserveAnswered(c) \/ CallLost(c)
  BY <1>10, <1>8 DEF CreateHold, FindPayment, ReserveAnswered, CallLost, server
<1>11. CASE Archive \/ \E q \in Rids : Pay(q) \/ PaymentExpires(q)
  BY <1>11, <1>8 DEF Archive, Pay, PaymentExpires
<1> QED
  BY <1>1, <1>2, <1>3, <1>5, <1>6, <1>7, <1>9, <1>10, <1>11 DEF Next, Handle

LEMMA OwnedKept ==
  ASSUME IInv, Owned, [Next]_vars,
         \A c \in Calls :
           \/ call'[c].b = call[c].b /\ call'[c].r = call[c].r
              /\ (call'[c].step \in AtWork => call[c].step \in AtWork)
           \/ call'[c].step \notin AtWork
           \/ call'[c].r \in Rids /\ resv'[call'[c].r].b = call'[c].b
              /\ resv'[call'[c].r].status # "absent",
         \A b \in Buyers :
           \/ page'[b].url \in {None, page[b].url}
           \/ \E c \in Calls : /\ call[c].step \in AtWork
                              /\ page'[b].url = call[c].r /\ call[c].b = b
  PROVE  Owned'
BY RowsStay DEF Owned, Holds

LEMMA OwnedCalls ==
  ASSUME IInv, Owned, Next, NEW d \in Calls
  PROVE  \/ call'[d].b = call[d].b /\ call'[d].r = call[d].r
            /\ (call'[d].step \in AtWork => call[d].step \in AtWork)
         \/ call'[d].step \notin AtWork
         \/ call'[d].r \in Rids /\ resv'[call'[d].r].b = call'[d].b
            /\ resv'[call'[d].r].status # "absent"
<1> DEFINE Good ==
      \/ call'[d].b = call[d].b /\ call'[d].r = call[d].r
         /\ (call'[d].step \in AtWork => call[d].step \in AtWork)
      \/ call'[d].step \notin AtWork
      \/ call'[d].r \in Rids /\ resv'[call'[d].r].b = call'[d].b
         /\ resv'[call'[d].r].status # "absent"
<1>t. /\ resv \in [Rids -> RowSet] /\ call \in [Calls -> CallSet] /\ call[d] \in CallSet
      /\ page \in [Buyers -> PageSet]
  BY DEF IInv, ServerTyped, ClientTyped
<1>1. ASSUME NEW c \in Calls, NEW r, NEW step, Answer(c, r, step),
             \/ step \notin AtWork
             \/ r = call[c].r /\ call[c].step \in AtWork
             \/ r \in Rids /\ resv'[r].b = call[c].b /\ resv'[r].status # "absent"
      PROVE  Good
  <2>1. call' = [call EXCEPT ![c] = [call[c] EXCEPT !.r = r, !.step = step]]
    BY <1>1 DEF Answer
  <2>2. /\ [call[c] EXCEPT !.r = r, !.step = step].r = r
        /\ [call[c] EXCEPT !.r = r, !.step = step].step = step
        /\ [call[c] EXCEPT !.r = r, !.step = step].b = call[c].b
    BY <1>t DEF CallSet
  <2> DEFINE k == [call[c] EXCEPT !.r = r, !.step = step]
  <2>3. call'[d] = IF d = c THEN k ELSE call[d]
    BY <2>1, <1>t
  <2> HIDE DEF k
  <2> QED
    BY <1>1, <2>2, <2>3, <1>t DEF k
<1>2. ASSUME NEW c \in Calls, ReserveInsert(c) PROVE Good
  <2>1. ASSUME NEW step \in {"refused", "no window"}, NEW r, Answer(c, r, step) PROVE Good
    BY <2>1, <1>1 DEF AtWork
  <2>2. ASSUME NEW r \in OpenRows, UNCHANGED resv,
               Answer(c, r, IF ~Resumable(r, call[c].b) THEN "refused"
                            ELSE IF resv[r].yk THEN "lookup" ELSE "resume")
        PROVE  Good
    <3>1. CASE ~Resumable(r, call[c].b)
      BY <2>2, <3>1, <2>1
    <3>2. CASE Resumable(r, call[c].b)
      <4>1. PICK step \in {"lookup", "resume"} : Answer(c, r, step)
        BY <2>2, <3>2
      <4>2. r \in Rids /\ resv'[r].b = call[c].b /\ resv'[r].status # "absent"
        BY <2>2, <3>2 DEF Resumable, OpenRows
      <4> QED
        BY <4>1, <4>2, <1>1
    <3> QED
      BY <3>1, <3>2
  <2>3. ASSUME NEW r \in Inserted, Answer(c, r, "hold"),
               resv' = [resv EXCEPT ![r] = [status |-> "pending_payment", b |-> call[c].b,
                                            w |-> call[c].w, yk |-> FALSE]]
        PROVE  Good
    <3>1. r \in Rids /\ resv'[r].b = call[c].b /\ resv'[r].status # "absent"
      BY <2>3, <1>t DEF Inserted
    <3> QED
      BY <2>3, <3>1, <1>1
  <2> QED
    BY <1>2, <2>1, <2>2, <2>3 DEF ReserveInsert
<1>3. ASSUME NEW c \in Calls, CreateHold(c) \/ GiveUp(c) \/ SaveHold(c) \/ FindPayment(c) \/ CallLost(c)
      PROVE  Good
  <2>1. PICK step : Answer(c, call[c].r, step) /\ (step \notin AtWork \/ call[c].step \in AtWork)
    <3>1. CASE CallLost(c)
      BY <3>1 DEF CallLost, AtWork
    <3>2. CASE CreateHold(c)
      <4>1. call[c].step \in AtWork
        BY <3>2 DEF CreateHold, AtWork
      <4> QED
        BY <4>1, <3>2 DEF CreateHold
    <3>3. CASE GiveUp(c) \/ SaveHold(c) \/ FindPayment(c)
      <4>1. call[c].step \in AtWork
        BY <3>3 DEF GiveUp, SaveHold, FindPayment, AtWork
      <4> QED
        BY <4>1, <3>3 DEF GiveUp, SaveHold, FindPayment
    <3> QED
      BY <1>3, <3>1, <3>2, <3>3
  <2> QED
    BY <2>1, <1>1
<1>4. ASSUME NEW c \in Calls, call' = [call EXCEPT ![c] = NoCall] PROVE Good
  BY <1>4, <1>t DEF NoCall, AtWork
<1>5. ASSUME NEW b \in Buyers, NEW c \in Calls, handleReserve(b, c) PROVE Good
  <2> DEFINE k == [b |-> b, heard |-> TRUE, w |-> page[b].sel, r |-> None, step |-> "sent"]
  <2>1. call' = [call EXCEPT ![c] = k] /\ k.step = "sent"
    BY <1>5 DEF handleReserve
  <2> HIDE DEF k
  <2>2. "sent" \notin AtWork
    BY DEF AtWork
  <2> QED
    BY <2>1, <2>2, <1>t
<1>6. ASSUME NEW b \in Buyers, Reload(b) PROVE Good
  <2>1. call'[d] = IF call[d].b = b THEN [call[d] EXCEPT !.heard = FALSE] ELSE call[d]
    BY <1>6 DEF Reload
  <2>2. /\ [call[d] EXCEPT !.heard = FALSE].b = call[d].b /\ [call[d] EXCEPT !.heard = FALSE].r = call[d].r
        /\ [call[d] EXCEPT !.heard = FALSE].step = call[d].step
    BY <1>t DEF CallSet
  <2> QED
    BY <2>1, <2>2
<1>7. CASE UNCHANGED call
  BY <1>7
<1>8. CASE \E b \in Buyers :
             \/ LoadCar(b) \/ LoadWindows(b) \/ TogglePanel(b) \/ payLater(b)
             \/ \E w \in Windows : SelectWindow(b, w)
             \/ \E q \in Rids : ReturnRead(b, q)
             \/ ReturnLookup(b) \/ ReturnConfirm(b) \/ LeaveReturn(b)
  <2>1. UNCHANGED call
    BY <1>8 DEF LoadCar, LoadWindows, TogglePanel, payLater, SelectWindow,
      ReturnRead, ReturnLookup, ReturnConfirm, LeaveReturn
  <2> QED
    BY <2>1, <1>7
<1>9. CASE Archive \/ \E q \in Rids : Pay(q) \/ PaymentExpires(q) \/ on_hold_confirmed(q) \/ Close(q) \/ Outcome(q)
  <2>1. UNCHANGED call
    BY <1>9 DEF Archive, Pay, PaymentExpires, on_hold_confirmed, Close, Outcome
  <2> QED
    BY <2>1, <1>7
<1>10. ASSUME NEW c \in Calls, ReserveAnswered(c) PROVE Good
  BY <1>10, <1>4 DEF ReserveAnswered
<1>11. ASSUME NEW c \in Calls, Handle(c) \/ CallLost(c) PROVE Good
  BY <1>11, <1>2, <1>3, <1>10 DEF Handle
<1>12. ASSUME NEW b \in Buyers,
              \/ Reload(b) \/ LoadCar(b) \/ LoadWindows(b) \/ TogglePanel(b) \/ payLater(b)
              \/ \E w \in Windows : SelectWindow(b, w)
              \/ \E c \in Calls : handleReserve(b, c)
              \/ \E q \in Rids : ReturnRead(b, q)
              \/ ReturnLookup(b) \/ ReturnConfirm(b) \/ LeaveReturn(b)
       PROVE  Good
  BY <1>12, <1>5, <1>6, <1>8
<1>13. Good
  BY <1>9, <1>11, <1>12 DEF Next
<1> QED
  BY <1>13 DEF Good

LEMMA OwnedPages ==
  ASSUME IInv, Next, NEW b \in Buyers
  PROVE  \/ page'[b].url \in {None, page[b].url}
         \/ \E c \in Calls : /\ call[c].step \in AtWork
                            /\ page'[b].url = call[c].r /\ call[c].b = b
<1> DEFINE Good ==
      \/ page'[b].url \in {None, page[b].url}
      \/ \E c \in Calls : /\ call[c].step \in AtWork
                         /\ page'[b].url = call[c].r /\ call[c].b = b
<1>t. page \in [Buyers -> PageSet] /\ page[b] \in PageSet /\ call \in [Calls -> CallSet]
  BY DEF IInv, ClientTyped
<1>1. CASE UNCHANGED page
  BY <1>1
<1>2. ASSUME NEW a \in Buyers, Reload(a) PROVE Good
  BY <1>2, <1>t DEF Reload, Mounted
<1>3. ASSUME NEW a \in Buyers, LoadCar(a) PROVE Good
  <2>1. PICK v : page' = [page EXCEPT ![a].view = v]
    BY <1>3 DEF LoadCar
  <2> QED
    BY <2>1, <1>t DEF PageSet
<1>4. ASSUME NEW a \in Buyers, LoadWindows(a) PROVE Good
  <2>1. PICK ws : page' = [page EXCEPT ![a].wins = ws, ![a].winsLoading = FALSE]
    BY <1>4 DEF LoadWindows
  <2> QED
    BY <2>1, <1>t DEF PageSet
<1>5. ASSUME NEW a \in Buyers, TogglePanel(a) PROVE Good
  BY <1>5, <1>t DEF TogglePanel, PageSet
<1>6. ASSUME NEW a \in Buyers, payLater(a) PROVE Good
  BY <1>6, <1>t DEF payLater, PageSet
<1>7. ASSUME NEW a \in Buyers, NEW w \in Windows, SelectWindow(a, w) PROVE Good
  BY <1>7, <1>t DEF SelectWindow, PageSet
<1>8. ASSUME NEW a \in Buyers, NEW c \in Calls, handleReserve(a, c) PROVE Good
  BY <1>8, <1>t DEF handleReserve, PageSet
<1>9. ASSUME NEW c \in Calls, ReserveAnswered(c) PROVE Good
  <2>1. CASE UNCHANGED page
    BY <2>1
  <2>2. ASSUME page' = [page EXCEPT ![call[c].b] = AfterReserve(@, call[c])], call[c].b = b PROVE Good
    <3>1. page'[b] = AfterReserve(page[b], call[c])
      BY <2>2, <1>t
    <3>2. CASE call[c].step = "url"
      <4>1. page'[b].url = call[c].r
        BY <3>1, <3>2, <1>t DEF AfterReserve, PageSet
      <4> QED
        BY <4>1, <2>2, <3>2 DEF AtWork
    <3>3. CASE call[c].step # "url"
      BY <3>1, <3>3, <1>t DEF AfterReserve, PageSet
    <3> QED
      BY <3>2, <3>3
  <2>3. ASSUME page' = [page EXCEPT ![call[c].b] = AfterReserve(@, call[c])], call[c].b # b PROVE Good
    BY <2>3, <1>t
  <2> HIDE DEF Good
  <2> QED
    BY <1>9, <2>1, <2>2, <2>3 DEF ReserveAnswered
<1>10. CASE \E a \in Buyers :
             \/ \E q \in Rids : ReturnRead(a, q)
             \/ ReturnLookup(a) \/ ReturnConfirm(a) \/ LeaveReturn(a)
  <2>1. UNCHANGED page
    BY <1>10 DEF ReturnRead, ReturnLookup, ReturnConfirm, LeaveReturn
  <2> QED
    BY <2>1, <1>1
<1>11. CASE Archive \/ \E q \in Rids : Pay(q) \/ PaymentExpires(q) \/ on_hold_confirmed(q) \/ Close(q) \/ Outcome(q)
  <2>1. UNCHANGED page
    BY <1>11 DEF Archive, Pay, PaymentExpires, on_hold_confirmed, Close, Outcome
  <2> QED
    BY <2>1, <1>1
<1>12. CASE \E c \in Calls : ReserveInsert(c) \/ CreateHold(c) \/ GiveUp(c) \/ SaveHold(c)
                            \/ FindPayment(c) \/ CallLost(c)
  <2>1. UNCHANGED page
    BY <1>12 DEF ReserveInsert, CreateHold, GiveUp, SaveHold, FindPayment, CallLost
  <2> QED
    BY <2>1, <1>1
<1>13. ASSUME NEW c \in Calls, Handle(c) \/ CallLost(c) PROVE Good
  BY <1>13, <1>9, <1>12 DEF Handle
<1>14. ASSUME NEW a \in Buyers,
              \/ Reload(a) \/ LoadCar(a) \/ LoadWindows(a) \/ TogglePanel(a) \/ payLater(a)
              \/ \E w \in Windows : SelectWindow(a, w)
              \/ \E c \in Calls : handleReserve(a, c)
              \/ \E q \in Rids : ReturnRead(a, q)
              \/ ReturnLookup(a) \/ ReturnConfirm(a) \/ LeaveReturn(a)
       PROVE  Good
  BY <1>14, <1>2, <1>3, <1>4, <1>5, <1>6, <1>7, <1>8, <1>10
<1>15. Good
  BY <1>11, <1>13, <1>14 DEF Next
<1> QED
  BY <1>15 DEF Good

LEMMA OwnedInit == Init => Owned
BY DEF Init, Owned, NoCall, AtWork, Mounted

LEMMA OwnedStep == IInv /\ Owned /\ [Next]_vars => Owned'
<1> SUFFICES ASSUME IInv, Owned, [Next]_vars PROVE Owned'
  OBVIOUS
<1>1. CASE UNCHANGED vars
  BY <1>1 DEF vars, server, Owned, Holds
<1>2. CASE Next
  <2>1. \A c \in Calls :
           \/ call'[c].b = call[c].b /\ call'[c].r = call[c].r
              /\ (call'[c].step \in AtWork => call[c].step \in AtWork)
           \/ call'[c].step \notin AtWork
           \/ call'[c].r \in Rids /\ resv'[call'[c].r].b = call'[c].b
              /\ resv'[call'[c].r].status # "absent"
    BY <1>2, OwnedCalls
  <2>2. \A b \in Buyers :
           \/ page'[b].url \in {None, page[b].url}
           \/ \E c \in Calls : /\ call[c].step \in AtWork
                              /\ page'[b].url = call[c].r /\ call[c].b = b
    BY <1>2, OwnedPages
  <2> QED
    BY <1>2, <2>1, <2>2, OwnedKept
<1> QED
  BY <1>1, <1>2

(* CarDetailPage and reserve: a page offers the payment link of the reservation made for its own    *)
(* buyer, although reserve answers a repeated request with the link of a reservation it finds.      *)
THEOREM LinksAreOwn == Spec => []LinkIsOwn
<1>1. Init => IInv /\ Owned
  BY InitIInv, OwnedInit
<1>2. IInv /\ Owned /\ [Next]_vars => (IInv /\ Owned)'
  BY Step, OwnedStep
<1>3. Owned => LinkIsOwn
  BY DEF Owned, Holds, LinkIsOwn
<1> QED
  BY <1>1, <1>2, <1>3, PTL DEF Spec
=============================================================================
