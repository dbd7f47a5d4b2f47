------------------------------- MODULE Account -------------------------------
(***************************************************************************)
(* Who is signed in, in the tabs of one browser.  The tokens are in the     *)
(* localStorage the tabs share (hooks/useAuth.ts); each useAuth keeps a      *)
(* user of its own: one in Header, which stays mounted while the tab moves  *)
(* between pages, and one in the page (ProfilePage here; AdminPage, AiPage  *)
(* and CreateListingPage mount it the same way).                            *)
(***************************************************************************)
EXTENDS Naturals, FiniteSets

CONSTANTS
  Users, Tabs,
  Calls,       \* requests in flight at once
  MaxTokens,   \* pairs of tokens issued
  Acts,        \* operations used: "register", "login", "logout", "save", "password",
                \* "reload"
  NetFails     \* whether the network fails

VARIABLES
  token,    \* the pair of tokens in localStorage
  issued,   \* pairs issued so far
  revoked,  \* pairs the server refuses: signed out, or older than the password
  tab,      \* tab[t]: the page and the two users
  call,     \* call[c]: a request and what awaits it
  saved,    \* history: [shown, changed] of the profiles saved
  asked,    \* tabs told to sign in again after a change of password
  apart     \* history: tabs whose users may differ since their last load

vars == <<token, issued, revoked, tab, call, saved, asked, apart>>

None == "none"
NoToken == [u |-> None, n |-> 0]
NoView == [user |-> None, loading |-> FALSE]
NoCall == [kind |-> "idle", t |-> None, where |-> None, u |-> None, tok |-> NoToken,
           step |-> "idle", live |-> FALSE, heard |-> FALSE]
Wheres == {"header", "page"}

Idle(c) == call[c] = NoCall
Of(t, kinds) == \E c \in Calls : call[c].t = t /\ call[c].live /\ call[c].kind \in kinds

\* request(): the token of localStorage at the time of the call
Request(kind, t, where, u) ==
  [kind |-> kind, t |-> t, where |-> where, u |-> u, tok |-> token,
   step |-> "sent", live |-> TRUE, heard |-> TRUE]

Send(c, r) == Idle(c) /\ call' = [call EXCEPT ![c] = r]

\* useAuth when it mounts: me(), unless there is no token
View == [user |-> None, loading |-> token # NoToken]

Init ==
  /\ token = NoToken /\ issued = {} /\ revoked = {}
  /\ tab = [t \in Tabs |-> [on |-> "home", header |-> NoView, page |-> NoView]]
  /\ call = [c \in Calls |-> NoCall]
  /\ saved = [shown |-> None, changed |-> None]
  /\ asked = {} /\ apart = {}

-----------------------------------------------------------------------------
(* Loading and moving                                                      *)

\* A page load of the tab: what it had in flight is heard by nobody, the server may
\* still handle it.
Forget(t) ==
  [c \in Calls |-> IF call[c].t # t THEN call[c]
                   ELSE IF call[c].step = "sent" THEN [call[c] EXCEPT !.live = FALSE]
                   ELSE NoCall]

\* Both useAuth mount when the profile is loaded, the header's alone elsewhere.
Load(t, on) ==
  /\ tab' = [tab EXCEPT ![t] = [on |-> on, header |-> View,
                                page |-> IF on = "profile" THEN View ELSE NoView]]
  /\ IF token = NoToken THEN call' = Forget(t)
     ELSE \E h, p \in Calls :
            /\ Forget(t)[h] = NoCall /\ Forget(t)[p] = NoCall
            /\ (h # p) = (on = "profile")
            /\ call' = [Forget(t) EXCEPT ![h] = Request("me", t, "header", None),
                          ![p] = Request("me", t, IF h = p THEN "header" ELSE "page", None)]
  /\ asked' = asked \ {t}
  /\ apart' = apart \ {t}

Reload(t) ==
  "reload" \in Acts /\ Load(t, tab[t].on) /\ UNCHANGED <<token, issued, revoked, saved>>

OpenProfile(t, c) ==
  /\ tab[t].on = "home"
  /\ tab' = [tab EXCEPT ![t].on = "profile", ![t].page = View]
  /\ IF token = NoToken THEN Idle(c) /\ UNCHANGED call ELSE Send(c, Request("me", t, "page", None))
  /\ apart' = IF token.u # tab[t].header.user /\ ~tab[t].header.loading
              THEN apart \cup {t} ELSE apart
  /\ UNCHANGED <<token, issued, revoked, saved, asked>>

\* The page unmounts: its answers are not drawn, their handlers still run.
Leave(t) ==
  /\ tab' = [tab EXCEPT ![t].on = "home", ![t].page = NoView]
  /\ call' = [c \in Calls |-> IF call[c].t = t /\ call[c].where = "page"
                              THEN [call[c] EXCEPT !.heard = FALSE] ELSE call[c]]

OpenHome(t) ==
  /\ tab[t].on = "profile" /\ Leave(t)
  /\ asked' = asked \ {t}
  /\ UNCHANGED <<token, issued, revoked, saved, apart>>

-----------------------------------------------------------------------------
(* What the user presses                                                   *)

FormShown(t) == tab[t].on = "profile" /\ ~tab[t].page.loading /\ tab[t].page.user = None
TabsShown(t) == tab[t].on = "profile" /\ ~tab[t].page.loading /\ tab[t].page.user # None

handleAuth(t, c, u, kind) ==
  /\ kind \in {"register", "login"} \cap Acts
  /\ FormShown(t) /\ ~Of(t, {"register", "login", "loginMe"})
  /\ Send(c, Request(kind, t, "page", u))
  /\ UNCHANGED <<token, issued, revoked, tab, saved, asked, apart>>

\* The button of the page or of the header; neither is disabled while it runs.
handleLogout(t, c, where) ==
  /\ "logout" \in Acts
  /\ IF where = "page" THEN TabsShown(t) ELSE tab[t].header.user # None
  /\ Send(c, Request("logout", t, where, tab[t][where].user))
  /\ UNCHANGED <<token, issued, revoked, tab, saved, asked, apart>>

\* handleSaveProfile, and SecurityTab's handleSubmit: one at a time of each
handleSave(t, c, kind) ==
  /\ kind \in {"save", "password"} \cap Acts
  /\ TabsShown(t) /\ ~Of(t, {kind})
  /\ Send(c, Request(kind, t, "page", tab[t].page.user))
  /\ UNCHANGED <<token, issued, revoked, tab, saved, asked, apart>>

-----------------------------------------------------------------------------
(* The server                                                              *)

Admitted(tok) == tok # NoToken /\ tok \notin revoked
Answer(c, step) ==
  call' = [call EXCEPT ![c] = IF call[c].live THEN [call[c] EXCEPT !.step = step] ELSE NoCall]

\* register refuses a known e-mail, login a wrong password
ServeForm(c) ==
  /\ call[c].step = "sent" /\ call[c].kind \in {"register", "login"}
  /\ \E step \in {"ok", "refused"} : Answer(c, step)
  /\ UNCHANGED <<token, issued, revoked, tab, saved, asked, apart>>

\* me, update_profile and change_password need a token that holds; a logout is
\* answered alike to the page.  A change of password refuses the user's older tokens.
ServeSigned(c) ==
  LET r == call[c]
  IN /\ r.step = "sent" /\ r.kind \in {"me", "loginMe", "logout", "save", "password"}
     /\ Answer(c, IF Admitted(r.tok) THEN "ok" ELSE "refused")
     /\ revoked' = IF ~Admitted(r.tok) THEN revoked
                   ELSE CASE r.kind = "logout"   -> revoked \cup {r.tok}
                          [] r.kind = "password" -> revoked \cup {k \in issued : k.u = r.tok.u}
                          [] OTHER               -> revoked
     /\ saved' = IF Admitted(r.tok) /\ r.kind = "save"
                 THEN [shown |-> r.u, changed |-> r.tok.u] ELSE saved
     /\ UNCHANGED <<token, issued, tab, asked, apart>>

\* The network fails, before or after the server worked.
Lost(c) ==
  /\ NetFails /\ call[c].step \in {"sent", "ok"}
  /\ Answer(c, "refused")
  /\ UNCHANGED <<token, issued, revoked, tab, saved, asked, apart>>

-----------------------------------------------------------------------------
(* The answers                                                             *)

Draw(r, user) ==
  IF r.heard THEN [tab EXCEPT ![r.t][r.where] = [user |-> user, loading |-> FALSE]] ELSE tab

\* useAuth: whatever made me() fail, the tokens go, those another tab stored since too
AfterMe(r) == Draw(r, IF r.step = "ok" THEN r.tok.u ELSE None)

MeAnswered(c) ==
  LET r == call[c]
  IN /\ r.kind = "me" /\ r.live /\ r.step \in {"ok", "refused"}
     /\ tab' = AfterMe(r)
     /\ IF r.step = "ok" THEN UNCHANGED <<token, apart>>
        ELSE token' = NoToken /\ apart' = apart \cup Tabs
     /\ call' = [call EXCEPT ![c] = NoCall]
     /\ UNCHANGED <<issued, revoked, saved, asked>>

\* register goes on with login
Registered(c) ==
  /\ call[c].kind = "register" /\ call[c].live /\ call[c].step = "ok"
  /\ call' = [call EXCEPT ![c].kind = "login", ![c].step = "sent"]
  /\ UNCHANGED <<token, issued, revoked, tab, saved, asked, apart>>

\* login stores the tokens and asks who that is
LoggedIn(c) ==
  LET r == call[c]
      new == [u |-> r.u, n |-> Cardinality(issued)]
  IN /\ r.kind = "login" /\ r.live /\ r.step = "ok"
     /\ Cardinality(issued) < MaxTokens
     /\ issued' = issued \cup {new}
     /\ token' = new
     /\ apart' = apart \cup (Tabs \ {r.t})
     /\ call' = [call EXCEPT ![c].kind = "loginMe", ![c].tok = new, ![c].step = "sent"]
     /\ UNCHANGED <<revoked, tab, saved, asked>>

\* handleAuth ends: window.location.reload(), wherever the tab is by then
AfterLoginBug(t, u) ==
  /\ tab' = [tab EXCEPT ![t].page.user = u]
  /\ call' = [c \in Calls |-> IF call[c].kind = "loginMe" THEN NoCall ELSE call[c]]
  /\ UNCHANGED <<asked, apart>>
AfterLogin(t, u) == Load(t, tab[t].on)

LoginDone(c) ==
  /\ call[c].kind = "loginMe" /\ call[c].live /\ call[c].step = "ok"
  /\ AfterLogin(call[c].t, call[c].tok.u)
  /\ UNCHANGED <<token, issued, revoked, saved>>

\* An error of the form: tokens already stored stay, the form too.
FormFailed(c) ==
  /\ call[c].kind \in {"register", "login", "loginMe"} /\ call[c].live
  /\ call[c].step = "refused"
  /\ call' = [call EXCEPT ![c] = NoCall]
  /\ apart' = IF call[c].kind = "loginMe" THEN apart \cup {call[c].t} ELSE apart
  /\ UNCHANGED <<token, issued, revoked, tab, saved, asked>>

\* logout: errors are ignored; setUser(null) in the useAuth that was asked, then '/'
LoggedOut(c) ==
  LET r == call[c]
  IN /\ r.kind = "logout" /\ r.live /\ r.step \in {"ok", "refused"}
     /\ token' = NoToken
     /\ tab' = [tab EXCEPT ![r.t].on = "home", ![r.t].page = NoView,
                  ![r.t].header = IF r.where = "header" THEN NoView ELSE @]
     /\ call' = [d \in Calls |-> IF d = c THEN NoCall
                   ELSE IF call[d].t = r.t /\ call[d].where = "page"
                   THEN [call[d] EXCEPT !.heard = FALSE] ELSE call[d]]
     /\ asked' = asked \ {r.t}
     /\ apart' = apart \cup Tabs
     /\ UNCHANGED <<issued, revoked, saved>>

\* handleSaveProfile reloads the tab after a success
Saved(c) ==
  /\ call[c].kind = "save" /\ call[c].live
  /\ \/ call[c].step = "ok" /\ Load(call[c].t, tab[call[c].t].on)
     \/ /\ call[c].step = "refused"
        /\ call' = [call EXCEPT ![c] = NoCall]
        /\ UNCHANGED <<tab, asked, apart>>
  /\ UNCHANGED <<token, issued, revoked, saved>>

\* SecurityTab says so and stays where it is
PasswordChanged(c) ==
  LET r == call[c]
  IN /\ r.kind = "password" /\ r.live /\ r.step \in {"ok", "refused"}
     /\ asked' = IF r.step = "ok" /\ r.heard THEN asked \cup {r.t} ELSE asked
     /\ call' = [call EXCEPT ![c] = NoCall]
     /\ UNCHANGED <<token, issued, revoked, tab, saved, apart>>

-----------------------------------------------------------------------------
Serve(c) == ServeForm(c) \/ ServeSigned(c)
Answered(c) ==
  \/ MeAnswered(c) \/ Registered(c) \/ LoggedIn(c) \/ LoginDone(c) \/ FormFailed(c)
  \/ LoggedOut(c) \/ Saved(c) \/ PasswordChanged(c)

Next ==
  \/ \E t \in Tabs : Reload(t) \/ OpenHome(t)
  \/ \E c \in Calls :
       \/ Serve(c) \/ Lost(c) \/ Answered(c)
       \/ \E t \in Tabs :
            \/ OpenProfile(t, c)
            \/ \E where \in Wheres : handleLogout(t, c, where)
            \/ \E kind \in {"save", "password"} : handleSave(t, c, kind)
            \/ \E u \in Users, kind \in {"register", "login"} : handleAuth(t, c, u, kind)

Spec == Init /\ [][Next]_vars

-----------------------------------------------------------------------------
Pairs == [u : Users, n : 0 .. MaxTokens - 1]
TypeOK ==
  /\ token \in issued \cup {NoToken} /\ issued \subseteq Pairs /\ revoked \subseteq issued
  /\ tab \in [Tabs -> [on : {"home", "profile"},
                       header : [user : Users \cup {None}, loading : BOOLEAN],
                       page : [user : Users \cup {None}, loading : BOOLEAN]]]
  /\ call \in [Calls -> [kind : {"idle", "me", "register", "login", "loginMe", "logout",
                                 "save", "password"},
                         t : Tabs \cup {None}, where : Wheres \cup {None},
                         u : Users \cup {None}, tok : Pairs \cup {NoToken},
                         step : {"idle", "sent", "ok", "refused"},
                         live : BOOLEAN, heard : BOOLEAN]]
  /\ \A t \in Tabs : tab[t].on = "home" => tab[t].page = NoView
  /\ asked \subseteq Tabs /\ apart \subseteq Tabs

\* The header and the page of a tab show the same user, through logins, registrations
\* and reloads in whatever order, unless since the tab was loaded somebody signed out
\* or in elsewhere or a question who is signed in failed.
HeaderAgrees ==
  \A t \in Tabs :
    tab[t].on = "profile" /\ ~tab[t].header.loading /\ ~tab[t].page.loading /\ t \notin apart
      => tab[t].header.user = tab[t].page.user

-----------------------------------------------------------------------------
\* What the code, its texts or its tests say and a behaviour refutes: see the README.

\* "You have been signed out": the tab that signed out shows nobody any more.
SignedOutShowsNobody ==
  [][\A c \in Calls : call[c].kind = "logout" /\ call[c].live /\ Idle(c)'
       /\ token # NoToken /\ token' = NoToken => tab'[call[c].t].header.user = None]_vars

\* "Password changed. Please sign in again.": the tab lets one sign in.
AskedMaySignIn == \A t \in asked : tab[t].page.user = None

\* The personal cabinet changes the profile of the user it shows.
SavesOwnProfile == saved.shown = saved.changed
=============================================================================
