------------------------------- MODULE Progress -------------------------------
(***************************************************************************)
(* What must happen in the end: the pages of ClientPages answer their user,  *)
(* and three services recover.  A request under way is served, or fails, and *)
(* its page hears of it; the jobs of the scheduler and the expiry of keys    *)
(* come round; nothing is assumed of what users begin, but that they do not  *)
(* for ever replace a request before it was answered.                        *)
(***************************************************************************)
EXTENDS ClientPages, Sequences

Ses == INSTANCE Sessions WITH
  Procs <- C, MaxTime <- 1, MaxTokens <- 1, MaxChanges <- 2, Kinds <- {"me", "login", "admin"},
  RedisFails <- TRUE,
  now <- v1, row <- v2, changes <- v3, cache <- v4, issued <- v5, black <- v6, op <- v7, over <- v8,
  pwdDone <- v9, spent <- v10, raced <- v11, failed <- v12

Mkt == INSTANCE Marketplace WITH
  Listings <- X, Procs <- C, Offered <- {"draft", "active", "archived"},
  Ops <- {"publish", "delete", "approve", "reject", "expire", "reserve", "set", "remove"},
  status <- v1, deal <- v2, term <- v3, proc <- v4

Rat == INSTANCE RateLimit WITH
  Requests <- X \cup Y, Limit <- 2, Window <- 2, Slack <- 1, Delay <- 1,
  step <- v1, age <- v2, zset <- v3, ttl <- v4

-----------------------------------------------------------------------------
\* A user does not ask again for what is still under way, tab by tab, nor leaves the tab; the
\* reader of the catalog asks for another list when this one is at its end; the requests of an
\* identity come one after the other.
Restrained ==
  /\ open = "mylistings" => v2.tab = "none" \/ ~\E c \in C, tab \in Lst!Tabs : Lst!setActiveTab(c, tab)
  /\ open = "moderation" =>
       Mod!Under = {} \/ ~(Mod!refresh \/ Mod!clearSearch \/ (\E f \in Mod!Filters : Mod!setFilterStatus(f))
                           \/ \E q \in X \cup {Mod!None} : Mod!setSearchQuery(q))
  /\ open = "users" =>
       Usr!Busy = {} \/ ~(Usr!refresh \/ Usr!useDebounce
                          \/ \E f \in Usr!Statuses \cup {""} : Usr!setFilterStatus(f))
  /\ open = "cars" =>
       Adm!Under = {} \/ ~\E c \in C : Adm!handleReload(c) \/ \E f \in Adm!Filters : Adm!setFilters(c, f)
  /\ open = "new" => (New!leave => v2.submitting)
  /\ open = "catalog" =>
       (Cat!Under = {} /\ v2.next = Cat!NoCursor) \/ ~\E c \in C : Cat!Asks(c)
  /\ open = "rate" => Rat!Apart

PInit ==
  \/ Init
  \/ Blank /\ \/ open = "sessions" /\ Ses!Init
              \/ open = "market" /\ Mkt!Init
              \/ open = "rate" /\ Rat!Init

PNext ==
  /\ \/ Next
     \/ open = "sessions" /\ Ses!Next /\ Keeps
     \/ open = "market" /\ Mkt!Next /\ Keeps
     \/ open = "rate" /\ Rat!Next /\ Keeps
  /\ Restrained

\* A request is served and its answer is heard.
Answers(c) ==
  \/ open = "reservations" /\ (Rsv!Handle("buyer", c) \/ Rsv!Reply("buyer", c))
  \/ open = "favorites" /\ Fav!Serve(c)
  \/ open = "account" /\ (Acc!Serve(c) \/ Acc!Answered(c))
  \/ open = "tickets" /\ (Tic!Serve(c) \/ Tic!Hear(c))
  \/ open = "mylistings" /\ (Lst!Serve(c) \/ Lst!Hear(c))
  \/ open = "moderation" /\ (Mod!Serve(c) \/ Mod!Hear(c))
  \/ open = "users" /\ (Usr!Serve(c) \/ Usr!Hear(c))
  \/ open = "cars" /\ (Adm!Serve(c) \/ Adm!Hear(c))
  \/ open = "choice" /\ (Cho!getEntries(c) \/ Cho!answered(c))
  \/ open = "catalog" /\ Cat!Answers(c)
  \/ open = "form" /\ (For!get_listing_detail(c) \/ For!detailed(c))
  \/ open = "sessions" /\ Ses!Serve(c)
  \/ open = "market" /\ Mkt!Commit(c)

\* A page that loads goes on, and a request in Redis.
Loads(y) ==
  \/ open = "reservations" /\ y \in Y /\ Rsv!Loading("buyer", y)
  \/ open = "favorites" /\ y \in Y /\ Fav!PageLoaded(y)
  \/ open = "rate" /\ (Rat!Execute(y) \/ Rat!Zrem(y))

\* A chain of requests goes on, an answer streams in, a conversation is loaded.
Chains(n) ==
  \/ open = "new" /\ n \in DOMAIN v3 /\ (New!Serve(n) \/ New!Hear(n))
  \/ open = "chat" /\ Chat!Streams(n)
Fetches(n) == open = "chat" /\ Chat!loaded(n)

\* The one request of a page, the sentinel of the catalog, an expiry, the clock; and an
\* identity that keeps asking.
Single ==
  \/ open = "car" /\ Car!Handle("c")
  \/ open = "edit" /\ (Edi!load \/ Edi!edit_listing \/ Edi!updated \/ Edi!upload_listing_image
                       \/ Edi!uploaded \/ Edi!saved)
  \/ open = "form" /\ (For!Serve \/ For!saved)
  \/ open = "catalog" /\ \E c \in C : Cat!loadMore(c)
  \/ open = "sessions" /\ Ses!Expire
  \/ open = "rate" /\ Rat!Tick
Asks == open = "rate" /\ \E m \in X \cup Y : Rat!Stamp(m)

\* The job runs again and again, though handlers may keep it from rows at any one time.
Job(c) == open = "market" /\ Mkt!run_expire_listings(c)

Steps(A) == A /\ Restrained /\ Keeps
Fairness ==
  /\ \A c \in C : WF_shell(Steps(Answers(c))) /\ SF_shell(Steps(Job(c)))
  /\ \A y \in X \cup Y : WF_shell(Steps(Loads(y)))
  /\ \A n \in 1..2 : WF_shell(Steps(Chains(n))) /\ WF_shell(Steps(Fetches(n)))
  /\ WF_shell(Steps(Single)) /\ WF_shell(Steps(Asks))

FairSpec == PInit /\ [][PNext]_shell /\ Fairness

-----------------------------------------------------------------------------
\* What the open page may make its user wait for: spinners, and buttons that wait.
Waiting ==
  CASE open = "reservations" ->
         <<v5["buyer"].loading>> \o
         [i \in 1..4 |-> v5["buyer"].busy[<<"cancel", "pay", "decline", "delete">>[i]] # Rsv!None]
    [] open = "car"        -> [i \in 1..1 |-> \E x \in X : v6[x].reserving]
    [] open = "favorites"  -> <<v6.loading>>
    [] open = "account"    -> <<v4["t"].page.loading>>
    [] open = "tickets"    -> <<v3.up /\ v3.view = "detail" /\ v3.sel = Tic!NoDetail>>
    [] open = "mylistings" ->
         <<v2.loading>> \o
         [i \in 1..4 |-> v2.busy[<<"deactivate", "archive", "activate", "delete">>[i]] # "none"]
    [] open = "moderation" -> <<Mod!Spinner, v2.searching, v2.processing # Mod!None>>
    [] open = "users"      -> <<Usr!Spinner, v2.saving, v2.deleting>>
    [] open = "cars"       -> <<v2.loading, v2.more, v2.deleting>>
    [] open = "choice"     -> v1.loading
    [] open = "new"        -> <<v2.open /\ v2.submitting>>
    [] open = "edit"       -> <<v2.at = "loading", v2.submitting>>
    [] open = "form"       -> <<v3.loading, v3.saving>>
    [] open = "chat"       -> <<v4.streaming, v4.loading>>
    [] open = "catalog"    -> <<v2.loading, v2.more>>
    [] OTHER               -> <<>>
Waits(i) == i \in DOMAIN Waiting /\ Waiting[i]

(* No page makes its user wait for ever: every spinner ends and every button that waits is free    *)
(* again, whatever gets lost and however requests overlap; and one who scrolls through the catalog *)
(* comes to its end.                                                                               *)
PagesAnswer ==
  /\ \A i \in 1..5 : []<>~Waits(i)
  /\ []<>(open = "catalog" => v2.next = Cat!NoCursor)

(* The cached row of a user agrees with the table for good once the row stays as it is; a listing  *)
(* that has expired leaves the catalog; and one who keeps asking gets past the limit of requests   *)
(* again and again.                                                                                *)
ServicesRecover ==
  /\ <>[](open = "sessions" => v4 \in {Ses!NoRow, v2})
  /\ []<>(open = "market" => Mkt!Expired = {})
  /\ []<>(open = "rate" => \E m \in X \cup Y : v1[m] = "admitted" /\ v2[m] < 2)
=============================================================================
