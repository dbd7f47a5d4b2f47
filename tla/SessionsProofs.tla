--------------------------- MODULE SessionsProofs ---------------------------
(***************************************************************************)
(* Proofs about Sessions for any number of requests in flight, tokens and   *)
(* changes, whether or not Redis fails: what the cached row of a user may   *)
(* be, and that a logout holds.                                             *)
(***************************************************************************)
EXTENDS Sessions, FiniteSetTheorems, TLAPS

OpSet == [kind : Signed \cup {"idle", "refresh", "login", "admin"},
          step : {"idle", "begun", "checked", "miss", "fill", "admitted",
                  "read", "committed", "known"},
          tok : Tokens \cup {NoTok}, read : Rows,
          late : BOOLEAN, must : 0 .. MaxTime]

(* The inductive invariant. *)

Bounded ==
  /\ IsFiniteSet(issued) /\ row.pwd <= changes + 1 /\ pwdDone \in 0 .. MaxTime
  /\ raced \in BOOLEAN /\ failed \in BOOLEAN

\* a request carries the token its kind asks for
Carried ==
  \A p \in Procs : op[p].tok \in IF op[p].kind \in Signed \cup {"refresh"} THEN issued ELSE {NoTok}

\* a token a logout was answered for is on the list, unless a write of it failed
Listed == over \subseteq black \/ failed

Late == \A p \in Procs : op[p].late => op[p].tok \in over

IInv == TypeOK /\ Bounded /\ Carried /\ StaleHasCause /\ Listed /\ Late /\ LogoutHolds

-----------------------------------------------------------------------------
LEMMA Sorts ==
  ASSUME SessionsAssumption
  PROVE  /\ NoRow \in Rows /\ NoTok \notin Tokens
         /\ NoOp \in OpSet /\ NoOp.kind = "idle" /\ NoOp.step = "idle" /\ NoOp.tok = NoTok
         /\ NoOp.late = FALSE /\ NoOp.read = NoRow
         /\ TypeOK <=> /\ now \in 1 .. MaxTime /\ row \in Rows /\ cache \in Rows
                       /\ changes \in 0 .. MaxChanges
                       /\ issued \subseteq Tokens /\ black \subseteq issued /\ over \subseteq issued
                       /\ op \in [Procs -> OpSet]
BY DEF SessionsAssumption, NoRow, Rows, NoTok, Tokens, NoOp, OpSet, Signed, TypeOK

LEMMA InitIInv == ASSUME SessionsAssumption, Init PROVE IInv
<1>1. row \in Rows /\ row.pwd = 1 /\ now \in 1 .. MaxTime /\ 0 \in 0 .. MaxChanges
  BY DEF Init, SessionsAssumption, Rows
<1>2. \A p \in Procs : op[p] = NoOp
  BY DEF Init
<1>3. TypeOK
  <2>1. op \in [Procs -> OpSet] /\ cache \in Rows
    BY Sorts DEF Init
  <2>2. changes \in 0 .. MaxChanges /\ issued = {} /\ black = {} /\ over = {}
    BY <1>1 DEF Init
  <2> QED
    BY <1>1, <2>1, <2>2, Sorts
<1>4. Bounded
  <2>1. issued = {} /\ changes = 0 /\ pwdDone = 0 /\ raced \in BOOLEAN /\ failed \in BOOLEAN
    BY DEF Init
  <2> QED
    BY <1>1, <2>1, FS_EmptySet DEF Bounded, SessionsAssumption
<1>5. Carried /\ StaleHasCause /\ Listed /\ Late /\ LogoutHolds
  BY <1>2, Sorts DEF Init, Carried, StaleHasCause, Listed, Late, LogoutHolds, Signed
<1> QED
  BY <1>3, <1>4, <1>5 DEF IInv

-----------------------------------------------------------------------------
\* A step of a request: where it goes, with what it read.
Record(x, step, r) == [kind |-> x.kind, step |-> step, tok |-> x.tok, read |-> r, late |-> x.late,
                       must |-> x.must]
Moved(p, step, r) == op' = [op EXCEPT ![p] = Record(op[p], step, r)]

LEMMA Moves ==
  ASSUME SessionsAssumption, TypeOK, NEW p \in Procs, NEW step
  PROVE  /\ Goto(p, step) => Moved(p, step, op[p].read)
         /\ \A r : Admit(p, step, r) => Moved(p, step, r)
<1>1. op \in [Procs -> OpSet]
  BY Sorts
<1>2. op[p] = Record(op[p], op[p].step, op[p].read)
  BY <1>1 DEF OpSet, Record
<1>3. ASSUME Goto(p, step) PROVE Moved(p, step, op[p].read)
  <2>1. op' = [op EXCEPT ![p] = [op[p] EXCEPT !.step = step]]
    BY <1>3 DEF Goto
  <2>2. [op[p] EXCEPT !.step = step] = Record(op[p], step, op[p].read)
    BY <1>2 DEF Record
  <2> QED
    BY <2>1, <2>2 DEF Moved
<1>4. ASSUME NEW r, Admit(p, step, r) PROVE Moved(p, step, r)
  <2>1. op' = [op EXCEPT ![p] = [[op[p] EXCEPT !.step = step] EXCEPT !.read = r]]
    BY <1>4 DEF Admit
  <2>2. [op[p] EXCEPT !.step = step] = Record(op[p], step, op[p].read)
    BY <1>2 DEF Record
  <2>3. [Record(op[p], step, op[p].read) EXCEPT !.read = r] = Record(op[p], step, r)
    BY DEF Record
  <2> QED
    BY <2>1, <2>2, <2>3 DEF Moved
<1> QED
  BY <1>3, <1>4

Steps == {"idle", "begun", "checked", "miss", "fill", "admitted", "read", "committed", "known"}

LEMMA Recorded ==
  ASSUME NEW x \in OpSet, NEW step \in Steps, NEW r \in Rows
  PROVE  Record(x, step, r) \in OpSet
BY DEF OpSet, Record, Steps

\* The request ends, or goes on to a step that one with a token of an answered logout only
\* reaches when Redis failed.
Goes(p) ==
  \/ End(p)
  \/ /\ \E step \in Steps \ {"idle", "begun"}, r \in Rows : Moved(p, step, r)
     /\ op[p].late => failed'

LEMMA OpStep ==
  ASSUME SessionsAssumption, IInv, NEW p \in Procs, Goes(p),
         issued \subseteq issued', over \subseteq over', failed => failed'
  PROVE  /\ op' \in [Procs -> OpSet] /\ Carried' /\ Late' /\ LogoutHolds'
         /\ op[p].step # "committed" =>
              \A q \in Procs : op[q].step = "committed" => op'[q].step = "committed"
<1>1. op \in [Procs -> OpSet] /\ over \subseteq Tokens /\ Carried /\ Late /\ LogoutHolds
  BY Sorts DEF IInv
<1>2. CASE End(p)
  <2>1. op' \in [Procs -> OpSet] /\ op'[p] = NoOp /\ \A q \in Procs \ {p} : op'[q] = op[q]
    BY <1>1, <1>2, Sorts DEF End
  <2>2. Carried'
    BY <2>1, <1>1, Sorts DEF Carried, Signed
  <2>3. Late'
    BY <2>1, <1>1, Sorts DEF Late
  <2>4. LogoutHolds'
    BY <2>1, <1>1, Sorts DEF LogoutHolds
  <2> QED
    BY <2>1, <2>2, <2>3, <2>4
<1>3. ASSUME NEW step \in Steps \ {"idle", "begun"}, NEW r \in Rows, Moved(p, step, r),
             op[p].late => failed'
      PROVE  /\ op' \in [Procs -> OpSet] /\ Carried' /\ Late' /\ LogoutHolds'
             /\ op[p].step # "committed" =>
                  \A q \in Procs : op[q].step = "committed" => op'[q].step = "committed"
  <2>1. op' \in [Procs -> OpSet] /\ \A q \in Procs \ {p} : op'[q] = op[q]
    BY <1>1, <1>3, Recorded DEF Moved
  <2>2. /\ op'[p].kind = op[p].kind /\ op'[p].tok = op[p].tok /\ op'[p].late = op[p].late
        /\ op'[p].step = step
    BY <1>1, <1>3 DEF Moved, Record
  <2>3. Carried'
    BY <2>1, <2>2, <1>1 DEF Carried
  <2>4. Late'
    BY <2>1, <2>2, <1>1 DEF Late
  <2>5. LogoutHolds'
    BY <2>1, <2>2, <1>1, <1>3 DEF LogoutHolds
  <2> QED
    BY <2>1, <2>3, <2>4, <2>5
<1> QED
  BY <1>2, <1>3 DEF Goes

\* A request that moves on and changes no more than the history of failures.
LEMMA Quiet ==
  ASSUME SessionsAssumption, IInv, NEW p \in Procs, Goes(p), op[p].step # "committed",
         UNCHANGED <<now, row, changes, cache, issued, black, over, pwdDone, raced>>,
         failed' \in BOOLEAN, failed => failed'
  PROVE  IInv'
<1>1. /\ op' \in [Procs -> OpSet] /\ Carried' /\ Late' /\ LogoutHolds'
      /\ \A q \in Procs : op[q].step = "committed" => op'[q].step = "committed"
  BY OpStep
<1>2. TypeOK'
  BY <1>1, Sorts DEF IInv, TypeOK, OpSet
<1>3. StaleHasCause'
  BY <1>1 DEF IInv, StaleHasCause
<1>4. Bounded' /\ Listed'
  BY DEF IInv, Bounded, Listed
<1> QED
  BY <1>1, <1>2, <1>3, <1>4 DEF IInv

\* A request without a token is never late, and a late one past the check saw a failure.
LEMMA NotLate ==
  ASSUME SessionsAssumption, IInv, NEW p \in Procs
  PROVE  /\ op[p].kind \notin Signed \cup {"refresh"} => ~op[p].late
         /\ op[p].step \notin {"idle", "begun"} /\ op[p].late => failed
         /\ op[p] \in OpSet /\ op[p].read \in Rows
BY Sorts DEF IInv, Carried, Late, LogoutHolds, OpSet

LEMMA QuietStep ==
  ASSUME SessionsAssumption, IInv, NEW p \in Procs,
         Blacklisted(p) \/ FromCache(p) \/ FromTable(p) \/ get_me(p) \/ PasswordRead(p)
           \/ Authenticate(p)
  PROVE  IInv'
<1>t. TypeOK /\ failed \in BOOLEAN /\ row \in Rows
  BY Sorts DEF IInv, Bounded
<1>1. CASE Blacklisted(p)
  <2>1. /\ op[p].step = "begun"
        /\ UNCHANGED <<now, row, changes, cache, issued, black, over, pwdDone, raced>>
    BY <1>1 DEF Blacklisted, At
  <2>2. CASE op[p].tok \in black /\ End(p) /\ UNCHANGED failed
    BY <2>1, <2>2, <1>t, Quiet DEF Goes
  <2>3. CASE op[p].tok \notin black /\ Goto(p, "checked") /\ UNCHANGED failed
    <3>1. op[p].late => failed
      BY <2>3 DEF IInv, Late, Listed
    <3>2. Goes(p)
      BY <2>3, <3>1, <1>t, Moves, NotLate DEF Goes, Steps
    <3> QED
      BY <2>1, <2>3, <3>2, <1>t, Quiet
  <2>4. CASE RedisFails /\ Goto(p, "checked") /\ failed' = TRUE
    <3>1. Goes(p)
      BY <2>4, <1>t, Moves, NotLate DEF Goes, Steps
    <3> QED
      BY <2>1, <2>4, <3>1, Quiet
  <2> QED
    BY <1>1, <2>2, <2>3, <2>4 DEF Blacklisted
<1>2. CASE FromCache(p) \/ FromTable(p) \/ get_me(p) \/ PasswordRead(p) \/ Authenticate(p)
  <2>1. /\ op[p].step \in {"checked", "miss", "admitted", "begun"}
        /\ op[p].step = "begun" => op[p].kind = "login"
        /\ UNCHANGED <<now, row, changes, cache, issued, black, history>>
    BY <1>2 DEF FromCache, FromTable, get_me, PasswordRead, Authenticate, At
  <2>2. op[p].late => failed /\ UNCHANGED failed
    BY <2>1, NotLate DEF Signed, history
  <2>3. \/ End(p)
        \/ \E step \in {"miss", "admitted", "fill", "read", "known"} : Goto(p, step)
        \/ \E step \in {"fill", "read"} : Admit(p, step, row)
    BY <1>2 DEF FromCache, FromTable, get_me, PasswordRead, Authenticate
  <2>4. Goes(p)
    BY <2>2, <2>3, <1>t, Moves, NotLate DEF Goes, Steps
  <2> QED
    BY <2>1, <2>4, <1>t, Quiet DEF history
<1> QED
  BY <1>1, <1>2

LEMMA FillStep == ASSUME SessionsAssumption, IInv, NEW p \in Procs, Fill(p) PROVE IInv'
<1>1. /\ op[p].step = "fill" /\ Goto(p, "admitted")
      /\ UNCHANGED <<now, row, changes, issued, black, over, pwdDone, failed>>
  BY DEF Fill, At
<1>2. /\ \/ cache' = op[p].read /\ raced' = (raced \/ op[p].read # row)
         \/ UNCHANGED <<cache, raced>>
  BY DEF Fill
<1>3. TypeOK /\ Bounded /\ StaleHasCause /\ Listed
  BY DEF IInv
<1>4. Goes(p)
  BY <1>1, <1>3, Moves, NotLate DEF Goes, Steps
<1>5. /\ op' \in [Procs -> OpSet] /\ Carried' /\ Late' /\ LogoutHolds'
      /\ \A q \in Procs : op[q].step = "committed" => op'[q].step = "committed"
  BY <1>1, <1>4, OpStep
<1>6. cache' \in Rows
  BY <1>2, <1>3, NotLate, Sorts
<1>7. TypeOK'
  BY <1>1, <1>3, <1>5, <1>6, Sorts DEF TypeOK, OpSet
<1>8. StaleHasCause'
  BY <1>1, <1>2, <1>3, <1>5 DEF StaleHasCause
<1>9. raced' \in BOOLEAN
  BY <1>2, <1>3 DEF Bounded
<1>10. Bounded' /\ Listed'
  BY <1>1, <1>3, <1>9 DEF Bounded, Listed
<1> QED
  BY <1>5, <1>7, <1>8, <1>10 DEF IInv

\* A change commits: a row of one version more, and its handler has still to clear the cache.
LEMMA Committed ==
  ASSUME SessionsAssumption, IInv, NEW p \in Procs, NEW r \in [active : BOOLEAN, pwd : Nat,
                                                           since : 0 .. MaxTime],
         r.pwd <= row.pwd + 1, Change(p, r), op[p].late => failed,
         UNCHANGED <<now, cache, issued, black, history>>
  PROVE  IInv'
<1>1. /\ changes < MaxChanges /\ row' = r /\ changes' = changes + 1 /\ Goto(p, "committed")
      /\ UNCHANGED <<over, pwdDone, raced, failed>>
  BY DEF Change, history
<1>2. TypeOK /\ Bounded /\ Listed
  BY DEF IInv
<1>3. Goes(p) /\ op'[p].step = "committed"
  <2>1. Moved(p, "committed", op[p].read)
    BY <1>1, <1>2, Moves
  <2>2. op'[p].step = "committed"
    BY <2>1, <1>2, Sorts DEF Moved, Record
  <2> QED
    BY <2>1, <2>2, <1>1, NotLate DEF Goes, Steps
<1>4. op' \in [Procs -> OpSet] /\ Carried' /\ Late' /\ LogoutHolds'
  BY <1>1, <1>3, OpStep
<1>5. row' \in Rows /\ row'.pwd <= changes' + 1 /\ changes' \in 0 .. MaxChanges
  <2>1. row.pwd \in Nat /\ changes \in Nat /\ row.pwd <= changes + 1 /\ MaxChanges \in Nat
    <3>1. row \in Rows /\ changes \in 0 .. MaxChanges /\ MaxChanges \in Nat
      BY <1>2, Sorts DEF SessionsAssumption
    <3>2. row.pwd \in 0 .. MaxChanges + 1
      BY <3>1 DEF Rows
    <3> QED
      BY <1>2, <3>1, <3>2 DEF Bounded
  <2>2. r.pwd \in 0 .. MaxChanges + 1 /\ r.pwd <= changes + 2
    BY <2>1, <1>1
  <2>3. r \in Rows
    BY <2>2 DEF Rows
  <2> QED
    BY <1>1, <2>1, <2>2, <2>3
<1>6. TypeOK'
  BY <1>2, <1>4, <1>5, Sorts DEF TypeOK, OpSet, history
<1>7. StaleHasCause'
  BY <1>3 DEF StaleHasCause
<1>8. Bounded' /\ Listed'
  BY <1>1, <1>2, <1>5 DEF Bounded, Listed
<1> QED
  BY <1>4, <1>6, <1>7, <1>8 DEF IInv

LEMMA ChangeStep ==
  ASSUME SessionsAssumption, IInv, NEW p \in Procs, change_password(p) \/ update_user(p)
  PROVE  IInv'
<1>1. /\ row \in Rows /\ row.pwd \in Nat /\ now \in 0 .. MaxTime
      /\ row = [active |-> row.active, pwd |-> row.pwd, since |-> row.since]
      /\ row.active \in BOOLEAN /\ row.since \in 0 .. MaxTime
  <2>1. row \in Rows /\ now \in 1 .. MaxTime /\ MaxChanges \in Nat /\ MaxTime \in Nat
    BY Sorts DEF IInv, SessionsAssumption
  <2>2. row.pwd \in 0 .. MaxChanges + 1 /\ row.since \in 0 .. MaxTime
    BY <2>1 DEF Rows
  <2>3. /\ row = [active |-> row.active, pwd |-> row.pwd, since |-> row.since]
        /\ row.active \in BOOLEAN
    BY <2>1 DEF Rows
  <2> QED
    BY <2>1, <2>2, <2>3
<1>2. CASE change_password(p)
  <2>1. op[p].step = "read" /\ UNCHANGED <<now, cache, issued, black, history>>
    BY <1>2 DEF change_password, At
  <2>2. CASE Change(p, [row EXCEPT !.pwd = @ + 1, !.since = now])
    <3>1. [row EXCEPT !.pwd = @ + 1] = [active |-> row.active, pwd |-> row.pwd + 1,
                                        since |-> row.since]
      BY <1>1
    <3>2. [row EXCEPT !.pwd = @ + 1, !.since = now]
            = [active |-> row.active, pwd |-> row.pwd + 1, since |-> now]
      <4>1. [row EXCEPT !.pwd = @ + 1, !.since = now]
              = [[row EXCEPT !.pwd = @ + 1] EXCEPT !.since = now]
        OBVIOUS
      <4>2. [[active |-> row.active, pwd |-> row.pwd + 1, since |-> row.since]
               EXCEPT !.since = now]
              = [active |-> row.active, pwd |-> row.pwd + 1, since |-> now]
        OBVIOUS
      <4> QED
        BY <3>1, <4>1, <4>2
    <3> DEFINE r == [active |-> row.active, pwd |-> row.pwd + 1, since |-> now]
    <3>3. r \in [active : BOOLEAN, pwd : Nat, since : 0 .. MaxTime] /\ r.pwd <= row.pwd + 1
      BY <1>1
    <3>4. Change(p, r)
      BY <2>2, <3>2
    <3> HIDE DEF r
    <3> QED
      BY <2>1, <3>3, <3>4, NotLate, Committed
  <2>3. CASE End(p) /\ UNCHANGED <<row, changes>>
    BY <2>1, <2>3, Quiet DEF Goes, IInv, Bounded, history
  <2> QED
    BY <1>2, <2>2, <2>3 DEF change_password
<1>3. CASE update_user(p)
  <2> DEFINE r == [active |-> ~row.active, pwd |-> row.pwd, since |-> row.since]
  <2>1. [row EXCEPT !.active = ~@] = r
    BY <1>1
  <2>2. r \in [active : BOOLEAN, pwd : Nat, since : 0 .. MaxTime] /\ r.pwd <= row.pwd + 1
    BY <1>1
  <2>3. Change(p, r) /\ UNCHANGED <<now, cache, issued, black, history>>
    BY <1>3, <2>1 DEF update_user
  <2>4. ~op[p].late
    BY <1>3, NotLate DEF update_user, At, Signed
  <2> HIDE DEF r
  <2> QED
    BY <2>2, <2>3, <2>4, Committed
<1> QED
  BY <1>2, <1>3

LEMMA InvalidateStep ==
  ASSUME SessionsAssumption, IInv, NEW p \in Procs, invalidate_user_cache(p) PROVE IInv'
<1>1. /\ End(p) /\ (cache' = NoRow \/ raced' = TRUE) /\ cache' \in {NoRow, cache}
      /\ raced' \in {raced, TRUE} /\ pwdDone' \in {row.since, pwdDone}
      /\ UNCHANGED <<now, row, changes, issued, black, over, spent, failed>>
  BY DEF invalidate_user_cache, Invalidated
<1>2. TypeOK /\ Bounded /\ Listed
  BY DEF IInv
<1>3. op' \in [Procs -> OpSet] /\ Carried' /\ Late' /\ LogoutHolds'
  BY <1>1, OpStep DEF Goes
<1>4. TypeOK'
  BY <1>1, <1>2, <1>3, Sorts DEF TypeOK, OpSet
<1>5. StaleHasCause'
  BY <1>1 DEF StaleHasCause
<1>6. pwdDone' \in 0 .. MaxTime /\ raced' \in BOOLEAN
  BY <1>1, <1>2, Sorts DEF Bounded, Rows
<1>7. Bounded' /\ Listed'
  BY <1>1, <1>2, <1>6 DEF Bounded, Listed
<1> QED
  BY <1>3, <1>4, <1>5, <1>7 DEF IInv

-----------------------------------------------------------------------------
\* A pair of tokens is made of tokens, and the tokens stay finitely many.
LEMMA Issued ==
  ASSUME SessionsAssumption, IInv, Issue
  PROVE  /\ issued \subseteq issued' /\ issued' \subseteq Tokens /\ IsFiniteSet(issued')
         /\ MaxTokens >= 1
<1>1. /\ now \in 1 .. MaxTime /\ issued \subseteq Tokens /\ IsFiniteSet(issued)
      /\ MaxTokens \in Nat
  BY Sorts DEF IInv, Bounded, SessionsAssumption
<1>2. Cardinality(issued) \in Nat
  BY <1>1, FS_CardinalityType
<1> DEFINE n == 1 + Cardinality(issued) \div 2
           new(k) == [kind |-> k, iat |-> now, id |-> n]
<1>3. /\ n <= MaxTokens
      /\ issued' = issued \cup {new(k) : k \in {"access", "refresh"}}
  BY DEF Issue
<1>4. n \in 1 .. MaxTokens
  BY <1>1, <1>2, <1>3
<1> HIDE DEF n
<1>5. \A k \in {"access", "refresh"} : new(k) \in Tokens
  BY <1>1, <1>4 DEF Tokens
<1>6. issued' = (issued \cup {new("access")}) \cup {new("refresh")}
  BY <1>3
<1>7. IsFiniteSet(issued')
  BY <1>1, <1>6, FS_AddElement
<1> QED
  BY <1>1, <1>3, <1>4, <1>5, <1>7

\* A request that ends with a pair issued or tokens put on the list.
LEMMA EndStep ==
  ASSUME SessionsAssumption, IInv, NEW p \in Procs, End(p), op[p].step # "committed",
         issued \subseteq issued', issued' \subseteq Tokens, IsFiniteSet(issued'),
         black \subseteq black', black' \subseteq issued', over \subseteq over',
         over' \subseteq issued', over' \ over \subseteq black' \/ failed',
         failed => failed', failed' \in BOOLEAN,
         UNCHANGED <<now, row, changes, cache, pwdDone, raced>>
  PROVE  IInv'
<1>1. TypeOK /\ Bounded /\ StaleHasCause /\ Listed
  BY DEF IInv
<1>2. /\ op' \in [Procs -> OpSet] /\ Carried' /\ Late' /\ LogoutHolds'
      /\ \A q \in Procs : op[q].step = "committed" => op'[q].step = "committed"
  BY OpStep DEF Goes
<1>3. TypeOK'
  BY <1>1, <1>2, Sorts DEF TypeOK, OpSet
<1>4. StaleHasCause' /\ Bounded'
  BY <1>1, <1>2 DEF StaleHasCause, Bounded
<1>5. Listed'
  BY <1>1 DEF Listed
<1> QED
  BY <1>2, <1>3, <1>4, <1>5 DEF IInv

LEMMA TokenStep ==
  ASSUME SessionsAssumption, IInv, NEW p \in Procs,
         logout(p) \/ login(p) \/ refresh_tokens(p)
  PROVE  IInv'
<1>1. /\ issued \subseteq Tokens /\ black \subseteq issued /\ over \subseteq issued
      /\ IsFiniteSet(issued) /\ failed \in BOOLEAN
      /\ op[p].kind \in Signed \cup {"refresh"} => op[p].tok \in issued
  BY Sorts DEF IInv, Bounded, Carried
<1>2. CASE logout(p)
  <2>1. /\ op[p].step = "admitted" /\ End(p)
        /\ over' = over \cup {r \in issued : r.id = op[p].tok.id}
        /\ \/ black' = black \cup Pair(op[p].tok) /\ UNCHANGED failed
           \/ failed' = TRUE /\ UNCHANGED black
        /\ UNCHANGED <<now, row, changes, cache, issued, pwdDone, raced>>
    BY <1>2 DEF logout, At
  <2>2. black \subseteq black' /\ black' \subseteq issued
    BY <1>1, <2>1 DEF Pair
  <2>4. failed' \in BOOLEAN /\ (failed => failed')
    <3>1. failed' = failed \/ failed' = TRUE
      BY <2>1
    <3> QED
      BY <1>1, <3>1
  <2>3. over' \ over \subseteq black' \/ failed'
    BY <2>1 DEF Pair
  <2> QED
    BY <1>1, <2>1, <2>2, <2>3, <2>4, EndStep
<1>3. CASE login(p)
  <2>1. op[p].step = "known" /\ Issue /\ End(p)
    BY <1>3 DEF login, At
  <2>2. UNCHANGED <<now, row, changes, cache, black, over, pwdDone, raced, failed>>
    BY <1>3 DEF login, history
  <2>3. over' \ over \subseteq black'
    BY <2>2
  <2> QED
    BY <1>1, <2>1, <2>2, <2>3, Issued, EndStep
<1>4. CASE refresh_tokens(p)
  <2>1. /\ op[p].kind = "refresh" /\ op[p].step = "checked" /\ Issue /\ End(p)
        /\ \/ black' = black \cup {op[p].tok} /\ UNCHANGED failed
           \/ failed' = TRUE /\ UNCHANGED black
        /\ UNCHANGED <<now, row, changes, cache, over, pwdDone, raced>>
    BY <1>4 DEF refresh_tokens, At
  <2>2. black \subseteq black' /\ black' \subseteq issued'
    BY <1>1, <2>1, Issued
  <2>4. failed' \in BOOLEAN /\ (failed => failed')
    <3>1. failed' = failed \/ failed' = TRUE
      BY <2>1
    <3> QED
      BY <1>1, <3>1
  <2>3. over' \ over \subseteq black'
    BY <2>1
  <2> QED
    BY <1>1, <2>1, <2>2, <2>3, <2>4, Issued, EndStep
<1> QED
  BY <1>2, <1>3, <1>4

LEMMA BeginStep ==
  ASSUME SessionsAssumption, IInv, NEW p \in Procs, NEW kind \in Kinds,
         NEW t \in issued \cup {NoTok}, Begin(p, kind, t)
  PROVE  IInv'
<1>1. TypeOK /\ Bounded /\ StaleHasCause /\ Listed /\ Carried /\ Late /\ LogoutHolds
  BY DEF IInv
<1> DEFINE x == [NoOp EXCEPT !.kind = kind, !.step = "begun", !.tok = t, !.late = t \in over,
                             !.must = pwdDone]
<1>2. /\ op[p] = NoOp /\ op' = [op EXCEPT ![p] = x]
      /\ UNCHANGED <<now, row, changes, cache, issued, black, over, pwdDone, raced, failed>>
      /\ t \in IF kind \in Signed \cup {"refresh"} THEN issued ELSE {NoTok}
  BY DEF Begin, history, SessionsAssumption, Signed
<1>3. /\ kind \in Signed \cup {"idle", "refresh", "login", "admin"} /\ t \in Tokens \cup {NoTok}
      /\ pwdDone \in 0 .. MaxTime
  BY <1>1, Sorts DEF Bounded, SessionsAssumption, Signed
<1>4. x \in OpSet /\ x.kind = kind /\ x.step = "begun" /\ x.tok = t /\ x.late = (t \in over)
  <2> DEFINE late == t \in over
  <2>1. late \in BOOLEAN
    OBVIOUS
  <2> HIDE DEF late
  <2>2. NoOp \in OpSet
    BY Sorts
  <2> DEFINE y == [NoOp EXCEPT !.kind = kind, !.step = "begun", !.tok = t, !.late = late,
                               !.must = pwdDone]
  <2>3. y \in OpSet /\ y.kind = kind /\ y.step = "begun" /\ y.tok = t /\ y.late = late
    BY <2>1, <2>2, <1>3 DEF OpSet
  <2>4. x = y
    BY DEF late
  <2> QED
    BY <2>3, <2>4 DEF late
<1> HIDE DEF x
<1>5. /\ op' \in [Procs -> OpSet] /\ op'[p] = x
      /\ \A q \in Procs \ {p} : op'[q] = op[q]
  BY <1>1, <1>2, <1>4, Sorts
<1>6. Carried' /\ Late' /\ LogoutHolds'
  BY <1>1, <1>2, <1>4, <1>5 DEF Carried, Late, LogoutHolds
<1>7. StaleHasCause'
  BY <1>1, <1>2, <1>5, Sorts DEF StaleHasCause
<1>8. TypeOK'
  BY <1>1, <1>2, <1>5, Sorts DEF TypeOK, OpSet
<1>9. Bounded' /\ Listed'
  BY <1>1, <1>2 DEF Bounded, Listed
<1> QED
  BY <1>6, <1>7, <1>8, <1>9 DEF IInv

LEMMA ClockStep == ASSUME SessionsAssumption, IInv, Expire \/ Tick PROVE IInv'
<1>1. /\ now' \in 1 .. MaxTime /\ cache' \in {cache, NoRow}
      /\ UNCHANGED <<row, changes, issued, black, op, over, pwdDone, raced, failed>>
  <2>1. now \in 1 .. MaxTime /\ MaxTime \in Nat
    BY Sorts DEF IInv, SessionsAssumption
  <2>2. UNCHANGED <<row, changes, issued, black, op, over, pwdDone, raced, failed>>
    BY DEF Expire, Tick, history
  <2>3. now' = now \/ (now' = now + 1 /\ now < MaxTime)
    BY DEF Expire, Tick
  <2>4. cache' \in {cache, NoRow}
    BY DEF Expire, Tick
  <2> QED
    BY <2>1, <2>2, <2>3, <2>4
<1>2. TypeOK'
  BY <1>1, Sorts DEF IInv, TypeOK
<1> QED
  BY <1>1, <1>2 DEF IInv, Bounded, Carried, StaleHasCause, Listed, Late, LogoutHolds

LEMMA Step == SessionsAssumption /\ IInv /\ [Next]_vars => IInv'
<1> SUFFICES ASSUME SessionsAssumption, IInv, [Next]_vars PROVE IInv'
  OBVIOUS
<1>1. CASE UNCHANGED vars
  BY <1>1 DEF vars, IInv, TypeOK, Bounded, Carried, StaleHasCause, Listed, Late, LogoutHolds
<1>2. ASSUME NEW p \in Procs, Serve(p) PROVE IInv'
  BY <1>2, QuietStep, FillStep, ChangeStep, InvalidateStep, TokenStep DEF Serve
<1>3. ASSUME NEW p \in Procs, NEW kind \in Kinds, NEW t \in issued \cup {NoTok}, Begin(p, kind, t)
      PROVE  IInv'
  BY <1>3, BeginStep
<1> QED
  BY <1>1, <1>2, <1>3, ClockStep DEF Next

-----------------------------------------------------------------------------
(* get_current_user's cache and the list of tokens that ended: for any number of requests a cached  *)
(* row that is not the committed one has its cause, and a request made after a logout answered is   *)
(* not let through with either token of the pair, unless a write or a check of the list failed.     *)
THEOREM AdmissionHolds ==
  ASSUME SessionsAssumption PROVE Spec => [](TypeOK /\ StaleHasCause /\ LogoutHolds)
<1>1. Init => IInv
  BY InitIInv
<1>2. IInv /\ [Next]_vars => IInv'
  BY Step
<1>3. IInv => TypeOK /\ StaleHasCause /\ LogoutHolds
  BY DEF IInv
<1> QED
  BY <1>1, <1>2, <1>3, PTL DEF Spec
=============================================================================
