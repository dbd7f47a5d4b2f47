------------------------------ MODULE Sessions ------------------------------
(***************************************************************************)
(* Tokens of one user on the server: login, refresh, logout and the change  *)
(* of password (api/routes/auth.py), an administrator's block, and the      *)
(* admission of every request (api/dependencies/auth.py), which consults    *)
(* the blacklist, then the cached row of the user and only then the table.  *)
(* Tokens live for days and are not let expire here.                        *)
(***************************************************************************)
EXTENDS Naturals, FiniteSets

CONSTANTS
  Procs,       \* requests in flight at once
  MaxTime,     \* seconds of the clock
  MaxTokens,   \* tokens issued
  MaxChanges,  \* changes of the user's row
  Kinds,       \* handlers used
  RedisFails   \* whether Redis fails

SessionsAssumption ==
  /\ MaxTime \in Nat \ {0} /\ MaxTokens \in Nat /\ MaxChanges \in Nat
  /\ Kinds \subseteq {"me", "logout", "password", "refresh", "login", "admin"}

VARIABLES
  now,      \* the clock, in the whole seconds of a token's iat
  row,      \* the committed row: active, version of the password, its second
  changes,  \* changes committed
  cache,    \* cached row, or NoRow
  issued,   \* tokens
  black,    \* blacklisted tokens
  op,       \* op[p]: a request in flight
  over,     \* history: tokens a logout was answered for
  pwdDone,  \* history: the second of the last change of password answered
  spent,    \* history: refresh tokens that were exchanged, and by how many requests
  raced,    \* history: a row read before a change was cached after it, or a delete failed
  failed    \* history: a write of the blacklist, or a check of it, failed

vars == <<now, row, changes, cache, issued, black, op, over, pwdDone, spent, raced, failed>>
history == <<over, pwdDone, spent, raced, failed>>

NoRow == [active |-> FALSE, pwd |-> 0, since |-> 0]
NoTok == [kind |-> "none", iat |-> 0, id |-> 0]
NoOp == [kind |-> "idle", step |-> "idle", tok |-> NoTok, read |-> NoRow,
         late |-> FALSE, must |-> 0]

Init ==
  /\ now = 1
  /\ row = [active |-> TRUE, pwd |-> 1, since |-> 1]
  /\ changes = 0 /\ cache = NoRow /\ issued = {} /\ black = {}
  /\ op = [p \in Procs |-> NoOp]
  /\ over = {} /\ pwdDone = 0 /\ spent = [r \in 1 .. MaxTokens |-> 0]
  /\ raced = FALSE /\ failed = FALSE

At(p, kinds, step) == op[p].kind \in kinds /\ op[p].step = step
Goto(p, step) == op' = [op EXCEPT ![p].step = step]
End(p) == op' = [op EXCEPT ![p] = NoOp]
Signed == {"me", "logout", "password"}

\* A request arrives: with an access token, a refresh token or a password.
Begin(p, kind, t) ==
  /\ op[p] = NoOp /\ kind \in Kinds
  /\ CASE kind \in Signed    -> t \in issued /\ t.kind = "access"
       [] kind = "refresh"   -> t \in issued /\ t.kind = "refresh"
       [] OTHER              -> t = NoTok
  /\ op' = [op EXCEPT ![p] = [NoOp EXCEPT !.kind = kind, !.step = "begun", !.tok = t,
                                !.late = t \in over, !.must = pwdDone]]
  /\ UNCHANGED <<now, row, changes, cache, issued, black, history>>

-----------------------------------------------------------------------------
(* get_current_user                                                        *)

\* is_token_blacklisted answers no when Redis does not answer.
Blacklisted(p) ==
  /\ At(p, Signed \cup {"refresh"}, "begun")
  /\ \/ /\ op[p].tok \in black /\ End(p) /\ UNCHANGED failed
     \/ /\ op[p].tok \notin black /\ Goto(p, "checked") /\ UNCHANGED failed
     \/ /\ RedisFails /\ Goto(p, "checked") /\ failed' = TRUE
  /\ UNCHANGED <<now, row, changes, cache, issued, black, over, pwdDone, spent, raced>>

Holds(p, r) == r.active /\ op[p].tok.iat >= r.since
Admit(p, step, r) == op' = [op EXCEPT ![p].step = step, ![p].read = r]

\* From the cache; a missing entry, or no Redis, leads to the table.
FromCache(p) ==
  /\ At(p, Signed, "checked")
  /\ IF cache = NoRow THEN Goto(p, "miss")
     ELSE \/ IF Holds(p, cache) THEN Goto(p, "admitted") ELSE End(p)
          \/ RedisFails /\ Goto(p, "miss")
  /\ UNCHANGED <<now, row, changes, cache, issued, black, history>>

FromTable(p) ==
  /\ At(p, Signed, "miss")
  /\ IF Holds(p, row) THEN Admit(p, "fill", row) ELSE End(p)
  /\ UNCHANGED <<now, row, changes, cache, issued, black, history>>

Fill(p) ==
  /\ At(p, Signed, "fill")
  /\ Goto(p, "admitted")
  /\ \/ cache' = op[p].read /\ raced' = (raced \/ op[p].read # row)
     \/ RedisFails /\ UNCHANGED <<cache, raced>>
  /\ UNCHANGED <<now, row, changes, issued, black, over, pwdDone, spent, failed>>

-----------------------------------------------------------------------------
(* Handlers                                                                *)

get_me(p) ==
  /\ At(p, {"me"}, "admitted") /\ End(p)
  /\ UNCHANGED <<now, row, changes, cache, issued, black, history>>

\* logout blacklists the pair the page sends; a failure is logged only.
PairBug(t) == {r \in issued : r.kind = "refresh" /\ r.id = t.id}
Pair(t) == {r \in issued : r.id = t.id}

logout(p) ==
  /\ At(p, {"logout"}, "admitted") /\ End(p)
  /\ over' = over \cup {r \in issued : r.id = op[p].tok.id}
  /\ \/ black' = black \cup Pair(op[p].tok) /\ UNCHANGED failed
     \/ RedisFails /\ failed' = TRUE /\ UNCHANGED black
  /\ UNCHANGED <<now, row, changes, cache, issued, pwdDone, spent, raced>>

\* change_password: the row of this session is the one get_current_user read, or is
\* read now; the old password is compared with it.
PasswordRead(p) ==
  /\ At(p, {"password"}, "admitted")
  /\ IF op[p].read = NoRow THEN Admit(p, "read", row) ELSE Goto(p, "read")
  /\ UNCHANGED <<now, row, changes, cache, issued, black, history>>

Change(p, r) ==
  /\ changes < MaxChanges
  /\ row' = r /\ changes' = changes + 1
  /\ Goto(p, "committed")

\* The flush writes the columns that changed.
change_password(p) ==
  /\ At(p, {"password"}, "read")
  /\ \/ Change(p, [row EXCEPT !.pwd = @ + 1, !.since = now])
     \/ End(p) /\ UNCHANGED <<row, changes>>       \* wrong current password
  /\ UNCHANGED <<now, cache, issued, black, history>>

\* update_user_route: block or unblock
update_user(p) ==
  /\ At(p, {"admin"}, "begun")
  /\ Change(p, [row EXCEPT !.active = ~@])
  /\ UNCHANGED <<now, cache, issued, black, history>>

InvalidatedBug == cache
Invalidated == NoRow

invalidate_user_cache(p) ==
  /\ At(p, {"password", "admin"}, "committed") /\ End(p)
  /\ \/ cache' = Invalidated /\ UNCHANGED raced
     \/ RedisFails /\ raced' = TRUE /\ UNCHANGED cache
  /\ pwdDone' = IF op[p].kind = "password" THEN row.since ELSE pwdDone
  /\ UNCHANGED <<now, row, changes, issued, black, over, spent, failed>>

\* A pair signed now
Issue ==
  LET n == 1 + Cardinality(issued) \div 2
  IN /\ n <= MaxTokens
     /\ issued' = issued \cup {[kind |-> k, iat |-> now, id |-> n] : k \in {"access", "refresh"}}

\* authenticate compares the password in a thread and the pair is signed afterwards.
Authenticate(p) ==
  /\ At(p, {"login"}, "begun") /\ (Goto(p, "known") \/ End(p))
  /\ UNCHANGED <<now, row, changes, cache, issued, black, history>>

login(p) ==
  /\ At(p, {"login"}, "known") /\ Issue /\ End(p)
  /\ UNCHANGED <<now, row, changes, cache, black, history>>

refresh_tokens(p) ==
  /\ At(p, {"refresh"}, "checked") /\ Issue /\ End(p)
  /\ spent' = [spent EXCEPT ![op[p].tok.id] = @ + 1]
  /\ \/ black' = black \cup {op[p].tok} /\ UNCHANGED failed
     \/ RedisFails /\ failed' = TRUE /\ UNCHANGED black
  /\ UNCHANGED <<now, row, changes, cache, over, pwdDone, raced>>

\* TTL_USER_AUTH
HasTTL == TRUE

Expire ==
  /\ HasTTL /\ cache # NoRow /\ cache' = NoRow
  /\ UNCHANGED <<now, row, changes, issued, black, op, history>>

Tick ==
  /\ now < MaxTime /\ now' = now + 1
  /\ UNCHANGED <<row, changes, cache, issued, black, op, history>>

-----------------------------------------------------------------------------
Serve(p) ==
  \/ Blacklisted(p) \/ FromCache(p) \/ FromTable(p) \/ Fill(p)
  \/ get_me(p) \/ logout(p) \/ PasswordRead(p) \/ change_password(p) \/ update_user(p)
  \/ invalidate_user_cache(p) \/ Authenticate(p) \/ login(p) \/ refresh_tokens(p)

Next ==
  \/ \E p \in Procs :
       \/ Serve(p)
       \/ \E kind \in Kinds, t \in issued \cup {NoTok} : Begin(p, kind, t)
  \/ Expire \/ Tick

Spec == Init /\ [][Next]_vars

-----------------------------------------------------------------------------
Rows == [active : BOOLEAN, pwd : 0 .. MaxChanges + 1, since : 0 .. MaxTime]
Tokens == [kind : {"access", "refresh"}, iat : 1 .. MaxTime, id : 1 .. MaxTokens]
TypeOK ==
  /\ now \in 1 .. MaxTime /\ row \in Rows /\ cache \in Rows /\ changes \in 0 .. MaxChanges
  /\ issued \subseteq Tokens /\ black \subseteq issued /\ over \subseteq issued
  /\ op \in [Procs -> [kind : Signed \cup {"idle", "refresh", "login", "admin"},
                       step : {"idle", "begun", "checked", "miss", "fill", "admitted",
                               "read", "committed", "known"},
                       tok : Tokens \cup {NoTok}, read : Rows,
                       late : BOOLEAN, must : 0 .. MaxTime]]

\* The cached row is the committed one, unless a change still has to delete it, or a
\* request had read the row before the change and cached it afterwards.
StaleHasCause ==
  cache \in {NoRow, row} \/ raced \/ \E p \in Procs : op[p].step = "committed"

\* A request made after the answer of a logout is not admitted with its access token
\* and gets nothing for its refresh token, as long as Redis answers.
LogoutHolds ==
  \A p \in Procs :
    op[p].late /\ op[p].step \notin {"idle", "begun"} => failed

-----------------------------------------------------------------------------
\* What the code, its texts or its tests say and a behaviour refutes: see the README.

\* test_refresh_token_can_only_be_used_once: a refresh token is exchanged once.
RefreshOnce == \A r \in 1 .. MaxTokens : spent[r] <= 1

\* "Tokens are still protected by the password_changed_at check in get_current_user
\* (DB-based)": a request made after the answer of a change of password is not
\* admitted with a token issued before it.
OldTokenRefused ==
  \A p \in Procs :
    op[p].step \in {"admitted", "fill"} => op[p].tok.iat >= op[p].must
=============================================================================
