------------------------------- MODULE Services -------------------------------
(***************************************************************************)
(* The services of the server side by side: requests of one buyer for a car *)
(* and the payment provider, viewing bookings, the tokens of a user in two   *)
(* instances, the life of the listings and the limit of requests.           *)
(***************************************************************************)
EXTENDS Shell

CONSTANTS
  Items,    \* rows of a table, or requests
  Procs,    \* sessions or requests in flight
  Held, Slots,   \* reservations and viewing windows of one car
  Limit, Window, Slack, Delay   \* of check_rate_limit: see RateLimit

Pay == INSTANCE CarDetail WITH
  Buyers <- {"b"}, Rids <- Items, Windows <- {}, Calls <- Procs, Returning <- {}, Ends <- {},
  listing <- v1, enabled <- v2, offered <- v3, resv <- v4, pay <- v5, page <- v6, call <- v7,
  linked <- v8, ret <- v9

Vie == INSTANCE ViewingBookings WITH
  Res <- Held, Windows <- Slots, Bookings <- Items, Sessions <- Procs,
  resv <- v1, windows <- v2, booking <- v3, sess <- v4, met <- v5

\* Blocks and changes of password, while Redis answers
Ses == INSTANCE Sessions WITH
  MaxTime <- 2, MaxTokens <- 2, MaxChanges <- 2, Kinds <- {"me", "login", "password", "admin"},
  RedisFails <- FALSE,
  now <- v1, row <- v2, changes <- v3, cache <- v4, issued <- v5, black <- v6, op <- v7, over <- v8,
  pwdDone <- v9, spent <- v10, raced <- v11, failed <- v12

\* Logouts and refreshes, whether or not Redis answers
Out == INSTANCE Sessions WITH
  MaxTime <- 1, MaxTokens <- 2, MaxChanges <- 1, Kinds <- {"me", "login", "refresh", "logout"},
  RedisFails <- TRUE,
  now <- v1, row <- v2, changes <- v3, cache <- v4, issued <- v5, black <- v6, op <- v7, over <- v8,
  pwdDone <- v9, spent <- v10, raced <- v11, failed <- v12

Mkt == INSTANCE Marketplace WITH
  Listings <- Items, Procs <- Procs, Offered <- {"draft", "archived"},
  Ops <- {"publish", "delete", "approve", "reject", "expire", "reserve", "remove"},
  status <- v1, deal <- v2, term <- v3, proc <- v4

Rat == INSTANCE RateLimit WITH
  Requests <- Items \cup {"m"},
  step <- v1, age <- v2, zset <- v3, ttl <- v4

ASSUME RateIsSet == Rat!RateAssumption
ASSUME ItemsAreIds == Vie!IdsAssumption

-----------------------------------------------------------------------------
Init ==
  /\ Blank
  /\ \/ open = "deposit" /\ Pay!Init
     \/ open = "viewings" /\ Vie!Init
     \/ open = "sessions" /\ Ses!Init
     \/ open = "logout" /\ Out!Init
     \/ open = "market" /\ Mkt!Init
     \/ open = "rate" /\ Rat!Init

\* The page of the deposit has no windows to wait for.  The handlers of the listings run one at a
\* time here, those of the others overlap.
Next ==
  \/ open = "deposit" /\ Pay!Next /\ v6'["b"].winsLoading /\ Keeps
  \/ open = "viewings" /\ Vie!Next /\ Keeps
  \/ open = "sessions" /\ Ses!Next /\ Keeps
  \/ open = "logout" /\ Out!Next /\ Keeps
  \/ open = "market" /\ Mkt!Next /\ Mkt!OneAtATime /\ Keeps
  \/ open = "rate" /\ Rat!Next /\ Keeps

Spec == Init /\ [][Next]_shell

-----------------------------------------------------------------------------
TypeOK ==
  /\ open = "deposit" => Pay!TypeOK
  /\ open = "viewings" => Vie!TypeOK
  /\ open = "sessions" => Ses!TypeOK
  /\ open = "logout" => Out!TypeOK
  /\ open = "market" => Mkt!TypeOK
  /\ open = "rate" => Rat!TypeOK

(* reserve of api/routes/reservations.py: retries, a second tab and lost answers of the provider   *)
(* leave one open reservation of a car, and no deposit is held that its row does not know of.  And *)
(* a listing is reserved exactly while it has a deal, whatever the seller, the moderators and the  *)
(* job do to it one after the other.                                                               *)
DepositIsKept ==
  /\ open = "deposit" => Pay!OneOpenPerCar /\ Pay!PaidIsRecorded
  /\ open = "market" => Mkt!ReservedIffDeal

(* book_viewing and delete_viewing_window: a window has one live booking, and is not deleted under *)
(* it, though sessions move bookings and check for them without a lock.                            *)
WindowsAreKept == open = "viewings" => Vie!OneBookingPerWindow /\ Vie!BookedWindowIsKept

(* A cancelled reservation gives its window back, whatever rebooking came before, unless two       *)
(* sessions worked on it at a time.                                                                *)
CancelledFreesWindow == open = "viewings" => Vie!CancelledFreesWindow

(* get_current_user's cache: a cached row that is not the committed one was read before a change   *)
(* and cached after it, or the handler of the change is about to delete it.                        *)
StaleHasCause == open = "sessions" => Ses!StaleHasCause

(* logout: once it answered, neither token of the pair is let through, unless Redis failed.        *)
LogoutHolds == open = "logout" => Out!LogoutHolds

(* Publication, moderation, expiry, deletion and deals, one after the other, move a listing only   *)
(* as ListingLifecycle says: on sale only from review or from a deal that ended, and never         *)
(* withdrawn under a buyer.                                                                        *)
Life == INSTANCE ListingLifecycle WITH
  Listings <- Items,
  phase <- [l \in Items |-> IF open = "market" THEN Mkt!phaseOf[l] ELSE "draft"]
Lifecycle == Life!Spec

(* check_rate_limit: no stretch of a window, less what a request may take to reach Redis, holds    *)
(* more requests that were let through than the limit.                                             *)
WindowKept == open = "rate" => Rat!WindowKept
=============================================================================
