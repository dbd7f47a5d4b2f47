------------------------- MODULE PhoneVerification -------------------------
(***************************************************************************)
(* Confirming a phone number by a code sent to it: the card of the profile  *)
(* page (PhoneVerification in ProfilePage.tsx), the two handlers of         *)
(* api/routes/auth.py and services/otp/otp_service.py, whose code, counter  *)
(* of attempts, lockout and cooldown are keys of Redis of their own.  A     *)
(* code is the phone it was sent to and a number; wrong input is NoCode.    *)
(***************************************************************************)
EXTENDS Naturals, FiniteSets

CONSTANTS
  Users, Phones,
  Tabs,         \* tabs of browsers
  UserOf,       \* whose account a tab shows: one browser for each user
  Calls,        \* requests in flight at once
  MaxAttempts,  \* settings.OTP_MAX_ATTEMPTS
  MaxDaily,     \* settings.OTP_MAX_DAILY, codes of a run too
  Profile,      \* whether PATCH /user/profile is used to change a phone
  Forgets       \* whether codes, lockouts and cooldowns run out

OwnersAssumption == UserOf \in [Tabs -> Users]

VARIABLES
  account,   \* account[u]: phone and phone_verified of the users table
  otp,       \* otp[u]: the stored code
  attempts, lockout,
  cooldown,  \* cooldown[u]: number of the code whose cooldown runs, 0 if none does
  audit,     \* codes the day counts
  sms,       \* sms[u]: the newest code that reached a phone
  made,      \* codes made so far
  page,      \* page[t]: state of the card
  done,      \* users with phone_verified_<id> in their localStorage
  call,      \* call[c]: a request of a tab
  proven,    \* history: pairs of a user and a phone whose code the user entered
  wrong      \* history: wrong inputs compared with the stored code, by code

vars == <<account, otp, attempts, lockout, cooldown, audit, sms, made, page, done, call,
          proven, wrong>>
keys == <<otp, attempts, lockout, cooldown>>
client == <<page, done>>
history == <<proven, wrong>>

None == "none"
NoCode == [n |-> 0, to |-> None]
Codes == [n : 1 .. MaxDaily * Cardinality(Users), to : Phones]
NoCall == [kind |-> "idle", t |-> None, phone |-> None, code |-> NoCode, step |-> "idle",
           heard |-> FALSE]

\* The card when it mounts
CardBug(t) == [stage |-> "idle", input |-> UserOf[t], wait |-> 0]
Card(t) ==
  [stage |-> IF UserOf[t] \in done THEN "done" ELSE "idle",
   input |-> account[UserOf[t]].phone, wait |-> 0]

Init ==
  /\ account = [u \in Users |-> [phone |-> None, verified |-> FALSE]]
  /\ otp = [u \in Users |-> NoCode] /\ attempts = [u \in Users |-> 0]
  /\ lockout = [u \in Users |-> FALSE] /\ cooldown = [u \in Users |-> 0]
  /\ audit = {} /\ sms = [u \in Users |-> NoCode] /\ made = 0
  /\ page = [t \in Tabs |-> [stage |-> "idle", input |-> None, wait |-> 0]]
  /\ done = {}
  /\ call = [c \in Calls |-> NoCall]
  /\ proven = {} /\ wrong = [k \in Codes |-> 0]

User(c) == UserOf[call[c].t]
Of(t, kind) == \E c \in Calls : call[c].t = t /\ call[c].heard /\ call[c].kind = kind
Step(c, kind, step) == call[c].kind = kind /\ call[c].step = step
Goto(c, step) == call' = [call EXCEPT ![c].step = step]

-----------------------------------------------------------------------------
(* The card                                                                *)

Mount(t) ==
  /\ page' = [page EXCEPT ![t] = Card(t)]
  /\ call' = [c \in Calls |-> IF call[c].t = t THEN [call[c] EXCEPT !.heard = FALSE] ELSE call[c]]
  /\ UNCHANGED <<account, keys, audit, sms, made, done, history>>

TypePhone(t, p) ==
  /\ page[t].stage = "idle" /\ page[t].input # p
  /\ page' = [page EXCEPT ![t].input = p]
  /\ UNCHANGED <<account, keys, audit, sms, made, done, call, history>>

Post(t, c, kind, code) ==
  /\ call[c] = NoCall
  /\ call' = [call EXCEPT ![c] = [kind |-> kind, t |-> t, phone |-> page[t].input,
                                  code |-> code, step |-> "sent", heard |-> TRUE]]
  /\ UNCHANGED <<account, keys, audit, sms, made, client, history>>

handleSendOtp(t, c) ==
  /\ page[t].stage = "idle" /\ page[t].wait = 0 /\ page[t].input # None /\ ~Of(t, "send")
  /\ Post(t, c, "send", NoCode)

\* The user enters the code that came last, or something else.
handleVerify(t, c, code) ==
  /\ page[t].stage = "sent" /\ ~Of(t, "verify")
  /\ code \in {sms[UserOf[t]], NoCode}
  /\ Post(t, c, "verify", code)

\* The button for a new code shows when the cooldown of the page is over.
NewCode(t) ==
  /\ page[t].stage = "sent" /\ page[t].wait = 0
  /\ page' = [page EXCEPT ![t].stage = "idle"]
  /\ UNCHANGED <<account, keys, audit, sms, made, done, call, history>>

\* The page starts its cooldown after the server did: it ends later.
CanEnd(t) == page[t].wait # 0 /\ cooldown[UserOf[t]] # page[t].wait

WaitEnds(t) ==
  /\ CanEnd(t)
  /\ page' = [page EXCEPT ![t].wait = 0]
  /\ UNCHANGED <<account, keys, audit, sms, made, done, call, history>>

SentOk(c) ==
  /\ Step(c, "send", "ok")
  /\ page' = IF ~call[c].heard THEN page
             ELSE [page EXCEPT ![call[c].t].stage = "sent", ![call[c].t].wait = call[c].code.n]
  /\ call' = [call EXCEPT ![c] = NoCall]
  /\ UNCHANGED <<account, keys, audit, sms, made, done, history>>

\* handleVerify: the flag is set for good, whether the card is still there or not.
VerifiedOk(c) ==
  /\ Step(c, "verify", "ok")
  /\ done' = done \cup {User(c)}
  /\ page' = IF call[c].heard THEN [page EXCEPT ![call[c].t].stage = "done"] ELSE page
  /\ call' = [call EXCEPT ![c] = NoCall]
  /\ UNCHANGED <<account, keys, audit, sms, made, history>>

AfterRefusalBug(c) == done \cup {User(c)}
AfterRefusal(c) == done

Refused(c) ==
  /\ call[c].step = "refused"
  /\ call' = [call EXCEPT ![c] = NoCall]
  /\ done' = AfterRefusal(c)
  /\ UNCHANGED <<account, keys, audit, sms, made, page, history>>

-----------------------------------------------------------------------------
(* send_otp                                                                *)

Owned(phone, u) == \E v \in Users \ {u} : account[v].phone = phone

\* Another owner, the lockout and the codes of the day, of the user and of the phone
SendChecked(c) ==
  /\ Step(c, "send", "sent")
  /\ Goto(c, IF \/ Owned(call[c].phone, User(c)) \/ lockout[User(c)]
                \/ Cardinality({a \in audit : a.u = User(c)}) >= MaxDaily
                \/ Cardinality({a \in audit : a.to = call[c].phone}) >= MaxDaily
             THEN "refused" ELSE "checked")
  /\ UNCHANGED <<account, keys, audit, sms, made, client, history>>

\* SET NX of the cooldown, then the code
CooldownSet(c) ==
  /\ Step(c, "send", "checked")
  /\ IF cooldown[User(c)] # 0 THEN Goto(c, "refused") /\ UNCHANGED <<cooldown, made>>
     ELSE /\ made < MaxDaily * Cardinality(Users)
          /\ made' = made + 1
          /\ cooldown' = [cooldown EXCEPT ![User(c)] = made + 1]
          /\ call' = [call EXCEPT ![c].step = "cooling",
                        ![c].code = [n |-> made + 1, to |-> call[c].phone]]
  /\ UNCHANGED <<account, otp, attempts, lockout, audit, sms, client, history>>

CodeStored(c) ==
  /\ Step(c, "send", "cooling") /\ Goto(c, "stored")
  /\ otp' = [otp EXCEPT ![User(c)] = call[c].code]
  /\ UNCHANGED <<account, attempts, lockout, cooldown, audit, sms, made, client, history>>

AttemptsReset(c) ==
  /\ Step(c, "send", "stored") /\ Goto(c, "reset")
  /\ attempts' = [attempts EXCEPT ![User(c)] = 0]
  /\ UNCHANGED <<account, otp, lockout, cooldown, audit, sms, made, client, history>>

\* The provider delivers, is unavailable (logged only), or rejects the number: then the
\* audit row is rolled back, the code and its cooldown stay.
MessageSent(c) ==
  LET u == User(c)
      row == [u |-> u, to |-> call[c].phone, n |-> call[c].code.n]
  IN /\ Step(c, "send", "reset")
     /\ \/ sms' = [sms EXCEPT ![u] = call[c].code] /\ audit' = audit \cup {row} /\ Goto(c, "ok")
        \/ audit' = audit \cup {row} /\ Goto(c, "ok") /\ UNCHANGED sms
        \/ Goto(c, "refused") /\ UNCHANGED <<sms, audit>>
     /\ UNCHANGED <<account, keys, made, client, history>>

-----------------------------------------------------------------------------
(* verify_otp                                                              *)

\* Ownership, lockout and code are read, the input is compared.
VerifyRead(c) ==
  LET u == User(c)
      open == ~Owned(call[c].phone, u) /\ ~lockout[u] /\ otp[u] # NoCode
  IN /\ Step(c, "verify", "sent")
     /\ Goto(c, IF ~open THEN "refused" ELSE IF call[c].code = otp[u] THEN "right" ELSE "wrong")
     /\ wrong' = IF open /\ call[c].code # otp[u] THEN [wrong EXCEPT ![otp[u]] = @ + 1]
                 ELSE wrong
     /\ UNCHANGED <<account, keys, audit, sms, made, client, proven>>

\* INCR of the attempts; the last one locks and deletes
WrongCounted(c) ==
  LET u == User(c)
      n == attempts[u] + 1
  IN /\ Step(c, "verify", "wrong")
     /\ IF n < MaxAttempts
        THEN attempts' = [attempts EXCEPT ![u] = n] /\ Goto(c, "refused") /\ UNCHANGED lockout
        ELSE /\ attempts' = [attempts EXCEPT ![u] = n]
             /\ lockout' = [lockout EXCEPT ![u] = TRUE]
             /\ Goto(c, "locked")
     /\ UNCHANGED <<account, otp, cooldown, audit, sms, made, client, history>>

LockedDeleted(c) ==
  /\ Step(c, "verify", "locked") /\ Goto(c, "refused")
  /\ otp' = [otp EXCEPT ![User(c)] = NoCode] /\ attempts' = [attempts EXCEPT ![User(c)] = 0]
  /\ UNCHANGED <<account, lockout, cooldown, audit, sms, made, client, history>>

RightDeleted(c) ==
  /\ Step(c, "verify", "right") /\ Goto(c, "saving")
  /\ otp' = [otp EXCEPT ![User(c)] = NoCode] /\ attempts' = [attempts EXCEPT ![User(c)] = 0]
  /\ UNCHANGED <<account, lockout, cooldown, audit, sms, made, client, history>>

\* The unique index of users.phone decides at the commit.
UniquePhone(phone, u) == ~Owned(phone, u)

Verified(c) ==
  LET u == User(c)
  IN /\ Step(c, "verify", "saving")
     /\ IF UniquePhone(call[c].phone, u)
        THEN /\ account' = [account EXCEPT ![u] = [phone |-> call[c].phone, verified |-> TRUE]]
             /\ proven' = proven \cup {<<u, call[c].code.to>>}
             /\ Goto(c, "ok")
        ELSE Goto(c, "refused") /\ UNCHANGED <<account, proven>>
     /\ UNCHANGED <<keys, audit, sms, made, client, wrong>>

\* update_user_profile with a phone
update_profile(u, p) ==
  /\ Profile /\ ~Owned(p, u) /\ account[u].phone # p
  /\ account' = [account EXCEPT ![u].phone = p]
  /\ UNCHANGED <<keys, audit, sms, made, client, call, history>>

\* Keys run out; the day's count too.
KeyExpires(u) ==
  /\ Forgets
  /\ \/ otp[u] # NoCode /\ otp' = [otp EXCEPT ![u] = NoCode] /\ UNCHANGED <<lockout, cooldown>>
     \/ lockout[u] /\ lockout' = [lockout EXCEPT ![u] = FALSE] /\ UNCHANGED <<otp, cooldown>>
  /\ UNCHANGED <<account, attempts, audit, sms, made, client, call, history>>

CooldownEnds(u) ==
  /\ Forgets /\ cooldown[u] # 0
  /\ cooldown' = [cooldown EXCEPT ![u] = 0]
  /\ UNCHANGED <<account, otp, attempts, lockout, audit, sms, made, client, call, history>>

\* The request or its answer is lost: the page sees an error.
Lost(c) ==
  /\ call[c].step \in {"sent", "ok"} /\ Goto(c, "refused")
  /\ UNCHANGED <<account, keys, audit, sms, made, client, history>>

-----------------------------------------------------------------------------
Serve(c) ==
  \/ SendChecked(c) \/ CooldownSet(c) \/ CodeStored(c) \/ AttemptsReset(c) \/ MessageSent(c)
  \/ VerifyRead(c) \/ WrongCounted(c) \/ LockedDeleted(c) \/ RightDeleted(c) \/ Verified(c)
  \/ SentOk(c) \/ VerifiedOk(c) \/ Refused(c)

Next ==
  \/ \E t \in Tabs :
       \/ Mount(t) \/ NewCode(t) \/ WaitEnds(t)
       \/ \E p \in Phones : TypePhone(t, p)
       \/ \E c \in Calls :
            \/ handleSendOtp(t, c)
            \/ handleVerify(t, c, NoCode) \/ handleVerify(t, c, sms[UserOf[t]])
  \/ \E c \in Calls : Serve(c) \/ Lost(c)
  \/ \E u \in Users :
       \/ KeyExpires(u) \/ CooldownEnds(u)
       \/ \E p \in Phones : update_profile(u, p)

Spec == Init /\ [][Next]_vars

-----------------------------------------------------------------------------
TypeOK ==
  /\ account \in [Users -> [phone : Phones \cup {None}, verified : BOOLEAN]]
  /\ \A u \in Users : {otp[u], sms[u]} \subseteq Codes \cup {NoCode}
  /\ attempts \in [Users -> Nat] /\ lockout \in [Users -> BOOLEAN]
  /\ cooldown \in [Users -> 0 .. made] /\ done \subseteq Users
  /\ page \in [Tabs -> [stage : {"idle", "sent", "done"}, input : Phones \cup {None},
                        wait : 0 .. made]]
  /\ \A u \in Users : account[u].verified => account[u].phone # None

\* A card that says the phone is verified, now or in a tab opened later, is right:
\* the server has it verified, whatever answers were lost or came after the card closed.
DoneIsVerified ==
  \A t \in Tabs : page[t].stage = "done" \/ UserOf[t] \in done => account[UserOf[t]].verified

-----------------------------------------------------------------------------
\* What the code, its texts or its tests say and a behaviour refutes: see the README.

\* "Confirm the phone by the code": the phone held as verified is one whose code the
\* user entered.
VerifiedByItsCode ==
  \A u \in Users : account[u].verified => <<u, account[u].phone>> \in proven

\* "Too many attempts; try later": a code is compared with at most MaxAttempts wrong inputs.
AttemptsKept == \A k \in Codes : wrong[k] <= MaxAttempts
=============================================================================
