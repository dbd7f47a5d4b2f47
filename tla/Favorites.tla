------------------------------ MODULE Favorites ------------------------------
(***************************************************************************)
(* Favorites of the user of one browser tab: the context every heart uses   *)
(* (contexts/FavoritesContext.tsx), the page that lists them                *)
(* (pages/FavoritesPage.tsx), and the rows behind api/routes/favorites.py.  *)
(* A heart changes at once and is changed back if the request fails;        *)
(* requests in flight are handled and answered in any order.                *)
(***************************************************************************)
EXTENDS Naturals, FiniteSets

CONSTANTS
  Users, Cars,
  MaxFavorites,   \* settings.MAX_FAVORITES
  Reqs,           \* requests of the context in flight
  Fetches,        \* loads of FavoritesPage in flight
  MeFails         \* whether a failing /auth/me drops the tokens

MaxFavoritesAssumption == MaxFavorites \in Nat

VARIABLES
  token,    \* whose access token is in localStorage
  ids,      \* ids of FavoritesContext
  db,       \* db[u]: the rows of favorites
  listed,   \* listings that exist
  req,      \* req[q]: a request of the context
  page,     \* state of FavoritesPage
  fetch,    \* fetch[f]: the ids a load of the page asked for
  upset     \* history: requests overlapped or were lost since the tab was loaded

vars == <<token, ids, db, listed, req, page, fetch, upset>>
\* what the page and its loads change alone
others == <<token, db, listed>>

None == "none"
NoReq == [kind |-> "idle", c |-> None, u |-> None, step |-> "idle", heard |-> FALSE,
          data |-> {}]
Closed == [open |-> FALSE, cars |-> {}, missing |-> {}, loading |-> FALSE]
NoFetch == [busy |-> FALSE, of |-> {}]

Sent(kind, c) == [kind |-> kind, c |-> c, u |-> token, step |-> "sent", heard |-> TRUE,
                  data |-> {}]
Idle(q) == req[q] = NoReq
Busy == {q \in Reqs : ~Idle(q)}

Init ==
  /\ token = None
  /\ ids = {}
  /\ db \in [Users -> SUBSET Cars]
  /\ \A u \in Users : Cardinality(db[u]) <= MaxFavorites
  /\ listed = Cars
  /\ req = [q \in Reqs |-> NoReq]
  /\ page = Closed
  /\ fetch = [f \in Fetches |-> NoFetch]
  /\ upset = FALSE

\* The effect of FavoritesPage on ids.join(','): an empty list shows no cars, any
\* other list is loaded again.
Watch(new) ==
  IF ~page.open \/ new = ids THEN UNCHANGED <<page, fetch>>
  ELSE IF new = {} THEN page' = [page EXCEPT !.cars = {}] /\ UNCHANGED fetch
  ELSE \E f \in Fetches :
         /\ ~fetch[f].busy
         /\ fetch' = [fetch EXCEPT ![f] = [busy |-> TRUE, of |-> new]]
         /\ page' = [page EXCEPT !.loading = TRUE]

SetIds(new) == ids' = new /\ Watch(new)

-----------------------------------------------------------------------------
(* Signing in and out                                                      *)

\* A page load: the provider mounts and loads, what was in flight is not heard.
Mount(u, q) ==
  /\ Idle(q)
  /\ token' = u
  /\ ids' = {} /\ page' = Closed /\ fetch' = [f \in Fetches |-> NoFetch]
  /\ req' = [r \in Reqs |->
       IF r = q /\ u # None
       THEN [NoReq EXCEPT !.kind = "load", !.u = u, !.step = "sent", !.heard = TRUE]
       ELSE IF Idle(r) THEN NoReq ELSE [req[r] EXCEPT !.heard = FALSE]]
  /\ upset' = (Busy # {})
  /\ UNCHANGED <<db, listed>>

\* login, followed by window.location.reload() in handleAuth
Login(u, q) == token = None /\ Mount(u, q)

ReloadTab(q) == Mount(token, q)

\* logout: the tokens go and favorites:reload finds none
AfterLogout == {}

Logout ==
  /\ token # None
  /\ token' = None
  /\ ids' = AfterLogout
  /\ page' = Closed /\ fetch' = [f \in Fetches |-> NoFetch]
  /\ UNCHANGED <<db, listed, req, upset>>

\* useAuth of a page that opens: me() fails, also when the network does
DropTokens ==
  /\ MeFails /\ token # None
  /\ token' = None
  /\ UNCHANGED <<ids, db, listed, req, page, fetch, upset>>

-----------------------------------------------------------------------------
(* FavoritesContext                                                        *)

Send(q, r) ==
  /\ Idle(q)
  /\ req' = [req EXCEPT ![q] = r]
  /\ upset' = (upset \/ Busy # {})

toggle(c, q) ==
  /\ token # None
  /\ Send(q, Sent(IF c \in ids THEN "remove" ELSE "add", c))
  /\ SetIds(IF c \in ids THEN ids \ {c} ELSE ids \cup {c})
  /\ UNCHANGED others

\* Hearts on the cards, the car page and the page of favorites: any listing drawn
\* anywhere, and while it loads the page draws none.
PressHeart(c, q) ==
  /\ IF page.open THEN ~page.loading /\ ids # {} /\ c \in page.cars ELSE c \in listed
  /\ toggle(c, q)

\* removeUnavailable for a page that misses one car
RemoveMissing(c, q) ==
  /\ page.open /\ ~page.loading /\ ids # {} /\ page.missing = {c}
  /\ toggle(c, q)

\* clear: a request for each of the favorites, none is rolled back
clear ==
  /\ page.open /\ ~page.loading /\ ids # {} /\ page.cars # {} /\ token # None
  /\ \E to \in [ids -> Reqs] :
       /\ \A c, d \in ids : to[c] = to[d] => c = d
       /\ \A c \in ids : Idle(to[c])
       /\ req' = [q \in Reqs |-> IF \E c \in ids : to[c] = q
                   THEN Sent("clear", CHOOSE c \in ids : to[c] = q) ELSE req[q]]
  /\ upset' = (upset \/ Busy # {})
  /\ SetIds({})
  /\ UNCHANGED others

\* What an answer does to ids: a load replaces them, a failed request is undone,
\* unless the listing is gone (404).
AfterAnswerBug(r) ==
  CASE r.kind = "load"                          -> r.data
    [] r.kind = "add" /\ r.step = "failed"      -> ids \cup {r.c}
    [] r.kind = "remove" /\ r.step = "failed"   -> ids \cup {r.c}
    [] OTHER                                    -> ids
AfterAnswer(r) ==
  CASE r.kind = "load"                          -> r.data
    [] r.kind = "add" /\ r.step = "failed"      -> ids \ {r.c}
    [] r.kind = "remove" /\ r.step = "failed"   -> ids \cup {r.c}
    [] OTHER                                    -> ids

Answered(q) ==
  /\ req[q].step \in {"ok", "failed", "404"}
  /\ IF req[q].heard THEN SetIds(AfterAnswer(req[q])) ELSE UNCHANGED <<ids, page, fetch>>
  /\ req' = [req EXCEPT ![q] = NoReq]
  /\ upset' = (upset \/ (req[q].kind = "load" /\ req[q].step = "failed"))
  /\ UNCHANGED others

-----------------------------------------------------------------------------
(* api/routes/favorites.py                                                 *)

Reply(q, step) == req' = [req EXCEPT ![q].step = step]

list_favorites(q) ==
  /\ req[q].kind = "load" /\ req[q].step = "sent"
  /\ req' = [req EXCEPT ![q].step = "ok", ![q].data = db[req[q].u]]
  /\ UNCHANGED <<token, ids, db, listed, page, fetch, upset>>

\* add_favorite until it has counted the rows of the user
AddChecked(q) ==
  LET r == req[q]
  IN /\ r.kind = "add" /\ r.step = "sent"
     /\ Reply(q, IF r.c \notin listed THEN "404"
                 ELSE IF Cardinality(db[r.u]) >= MaxFavorites THEN "failed" ELSE "counted")
     /\ UNCHANGED <<token, ids, db, listed, page, fetch, upset>>

\* ON CONFLICT DO NOTHING; the foreign key fails for a listing gone meanwhile
AddCommitted(q) ==
  LET r == req[q]
  IN /\ r.kind = "add" /\ r.step = "counted"
     /\ IF r.c \in listed
        THEN Reply(q, "ok") /\ db' = [db EXCEPT ![r.u] = @ \cup {r.c}]
        ELSE Reply(q, "failed") /\ UNCHANGED db
     /\ UNCHANGED <<token, ids, listed, page, fetch, upset>>

remove_favorite(q) ==
  /\ req[q].kind \in {"remove", "clear"} /\ req[q].step = "sent"
  /\ db' = [db EXCEPT ![req[q].u] = @ \ {req[q].c}]
  /\ Reply(q, "ok")
  /\ UNCHANGED <<token, ids, listed, page, fetch, upset>>

\* The request or its answer is lost (503 of api/client.ts).
Lost(q) ==
  /\ req[q].step \in {"sent", "counted", "ok"}
  /\ req' = [req EXCEPT ![q].step = "failed", ![q].data = {}]
  /\ upset' = TRUE
  /\ UNCHANGED <<token, ids, db, listed, page, fetch>>

\* The seller's account is deleted, and with it listing and favorites.
ListingGone(c) ==
  /\ c \in listed
  /\ listed' = listed \ {c}
  /\ db' = [u \in Users |-> db[u] \ {c}]
  /\ UNCHANGED <<token, ids, req, page, fetch, upset>>

-----------------------------------------------------------------------------
(* FavoritesPage                                                           *)

OpenPage ==
  /\ ~page.open
  /\ IF ids = {} THEN page' = [Closed EXCEPT !.open = TRUE] /\ UNCHANGED fetch
     ELSE \E f \in Fetches :
            /\ ~fetch[f].busy
            /\ fetch' = [fetch EXCEPT ![f] = [busy |-> TRUE, of |-> ids]]
            /\ page' = [Closed EXCEPT !.open = TRUE, !.loading = TRUE]
  /\ UNCHANGED <<token, ids, db, listed, req, upset>>

ClosePage ==
  /\ page.open
  /\ page' = Closed /\ fetch' = [f \in Fetches |-> NoFetch]
  /\ UNCHANGED <<token, ids, db, listed, req, upset>>

AfterFetch(of, got) ==
  [page EXCEPT !.cars = got, !.missing = of \ got, !.loading = FALSE]

\* Promise.allSettled: a car that is gone or whose request failed is missing
PageLoaded(f) ==
  /\ fetch[f].busy
  /\ \E got \in SUBSET (fetch[f].of \cap listed) : page' = AfterFetch(fetch[f].of, got)
  /\ fetch' = [fetch EXCEPT ![f] = NoFetch]
  /\ UNCHANGED <<token, ids, db, listed, req, upset>>

-----------------------------------------------------------------------------
Serve(q) ==
  \/ list_favorites(q) \/ AddChecked(q) \/ AddCommitted(q) \/ remove_favorite(q)
  \/ Answered(q)

Next ==
  \/ \E q \in Reqs :
       \/ \E u \in Users : Login(u, q)
       \/ ReloadTab(q)
       \/ \E c \in Cars : PressHeart(c, q) \/ RemoveMissing(c, q)
       \/ Serve(q)
       \/ Lost(q)
  \/ clear \/ Logout \/ DropTokens \/ OpenPage \/ ClosePage
  \/ \E c \in Cars : ListingGone(c)
  \/ \E f \in Fetches : PageLoaded(f)

Spec == Init /\ [][Next]_vars

-----------------------------------------------------------------------------
TypeOK ==
  /\ token \in Users \cup {None}
  /\ ids \subseteq Cars /\ listed \subseteq Cars
  /\ db \in [Users -> SUBSET Cars]
  /\ req \in [Reqs -> [kind : {"idle", "load", "add", "remove", "clear"},
                       c : Cars \cup {None}, u : Users \cup {None},
                       step : {"idle", "sent", "counted", "ok", "failed", "404"},
                       heard : BOOLEAN, data : SUBSET Cars]]
  /\ page \in [open : BOOLEAN, cars : SUBSET Cars, missing : SUBSET Cars,
               loading : BOOLEAN]
  /\ fetch \in [Fetches -> [busy : BOOLEAN, of : SUBSET Cars]]
  /\ upset \in BOOLEAN

\* A tab whose requests did not overlap and were all answered shows what the server
\* has once nothing is in flight: optimistic hearts, refusals at the cap and their
\* rollbacks add up, and reloading the tab repairs whatever went wrong before.
QuietAgrees ==
  Busy = {} /\ ~upset /\ token # None => ids \cap listed = db[token]

-----------------------------------------------------------------------------
\* What the code, its texts or its tests say and a behaviour refutes: see the README.

\* "clear favorites (no token -> setIds([]))": after signing out no favorites are left.
SignedOutHasNone == token = None => ids = {}

\* A button of the page of favorites, each heart says "Remove from favorites",
\* removes what it is pressed for.
HeartRemoves ==
  [][\A q \in Reqs : page.open /\ Idle(q) /\ req'[q].step = "sent" => req'[q].kind # "add"]_vars

\* "Favorites limit reached": no user has more than MaxFavorites.
CapKept == \A u \in Users : Cardinality(db[u]) <= MaxFavorites
=============================================================================
