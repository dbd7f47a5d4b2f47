----------------------------- MODULE ClientPages ------------------------------
(***************************************************************************)
(* The pages of the client side by side, each with the handlers it calls,   *)
(* on small instances, and what each has to keep.                           *)
(***************************************************************************)
EXTENDS Shell, FiniteSets

CONSTANTS
  X, Y,      \* interchangeable things: rows, photos, buyers, loads
  C,         \* requests of a page that may be under way together
  Rids, Times,   \* reservations and viewing windows of a car
  Numbers,   \* users and listings that are counted or ordered
  Acts,      \* Acts[part]: what is done and what happens in it
  MaxFaults  \* requests and replies the page of reservations may lose

Rsv == INSTANCE MyReservations WITH
  Parties <- {"buyer", "seller"}, Outcomes <- {"sold"}, Res <- X, Pages <- {"buyer"},
  Calls <- C, Loads <- Y,
  db <- v1, set_by <- v2, mark <- v3, paylink <- v4, page <- v5, call <- v6, load <- v7, faults <- v8

Car == INSTANCE CarDetail WITH
  Buyers <- X, Windows <- Times, Calls <- {"c"},
  Returning <- IF "return" \in Acts.car THEN X ELSE {}, Ends <- Acts.car,
  listing <- v1, enabled <- v2, offered <- v3, resv <- v4, pay <- v5, page <- v6, call <- v7,
  linked <- v8, ret <- v9

Fav == INSTANCE Favorites WITH
  Users <- {"u"}, Cars <- X, MaxFavorites <- 1, Reqs <- C, Fetches <- Y, MeFails <- TRUE,
  token <- v1, ids <- v2, db <- v3, listed <- v4, req <- v5, page <- v6, fetch <- v7, upset <- v8

Cat == INSTANCE Catalog WITH
  Listings <- 1..3, Recent <- {2, 3}, Manual <- {1, 3}, Price <- <<20, 10, 10>>, PageSize <- 1,
  Calls <- C, Acts <- Acts.catalog,
  row <- v1, page <- v2, call <- v3, mixed <- v4

Chat == INSTANCE AiChat WITH
  Turns <- {1, 2}, Convs <- {1, 2}, Acts <- Acts.chat,
  db <- v1, made <- v2, job <- v3, page <- v4, cache <- v5, del <- v6, told <- v7, left <- v8,
  mixed <- v9

Acc == INSTANCE Account WITH
  Users <- X, Tabs <- {"t"}, Calls <- C, MaxTokens <- 2, NetFails <- TRUE,
  Acts <- Acts.account,
  token <- v1, issued <- v2, revoked <- v3, tab <- v4, call <- v5, saved <- v6, asked <- v7,
  apart <- v8

Pho == INSTANCE PhoneVerification WITH
  Users <- {"u"}, Phones <- {"p"}, Tabs <- {"t", "s"}, UserOf <- [t |-> "u", s |-> "u"],
  Calls <- C, MaxAttempts <- 1, MaxDaily <- 1, Profile <- TRUE, Forgets <- TRUE,
  account <- v1, otp <- v2, attempts <- v3, lockout <- v4, cooldown <- v5, audit <- v6, sms <- v7,
  made <- v8, page <- v9, done <- v10, call <- v11, proven <- v12, wrong <- v13

Bel == INSTANCE Notifications WITH
  Bells <- X, Notes <- Y, Calls <- C, Limit <- 1,
  rows <- v1, newest <- v2, bell <- v3, call <- v4, mixed <- v5

Tic == INSTANCE Tickets WITH
  Tickets <- X, Texts <- {"text"}, Calls <- C, Statuses <- {"open", "closed"},
  Acts <- Acts.tickets,
  row <- v1, said <- v2, tab <- v3, adm <- v4, call <- v5, meant <- v6

Sup == INSTANCE Tickets WITH
  Tickets <- X, Texts <- {"text"}, Calls <- C, Statuses <- {"open", "closed"},
  Acts <- Acts.support,
  row <- v1, said <- v2, tab <- v3, adm <- v4, call <- v5, meant <- v6

Lst == INSTANCE MyListings WITH
  Listings <- X, Calls <- C, Started <- {"draft", "active", "archived"}, Acts <- Acts.mylistings,
  row <- v1, page <- v2, call <- v3, deleted <- v4, mixed <- v5

Mod == INSTANCE Moderation WITH
  Listings <- X, Calls <- C, Acts <- Acts.moderation,
  row <- v1, tab <- v2, call <- v3, revoked <- v4, mixed <- v5

Usr == INSTANCE AdminUsers WITH
  Users <- Numbers, Emails <- Numbers, Calls <- C, PageSize <- 2, Acts <- Acts.users,
  row <- v1, tab <- v2, call <- v3, banned <- v4, mixed <- v5

Adm == INSTANCE AdminCars WITH
  Listings <- Numbers, OfBrand <- {1}, Calls <- C, PageSize <- 1,
  Acts <- Acts.cars,
  row <- v1, tab <- v2, call <- v3, mixed <- v4

Cho == INSTANCE CarChoice WITH
  Widths <- <<2, 2, 1, 1>>, Calls <- C, Acts <- Acts.choice,
  form <- v1, call <- v2, mixed <- v3

New == INSTANCE NewListing WITH
  MaxPhotos <- Cardinality(Numbers), MaxWindows <- 1, MaxListings <- Cardinality(Numbers), Acts <- Acts.new,
  row <- v1, form <- v2, chain <- v3, sent <- v4

Edi == INSTANCE EditListing WITH
  Photos <- X, Calls <- C, Acts <- Acts.edit,
  row <- v1, page <- v2, save <- v3, call <- v4, before <- v5

For == INSTANCE AdminCarForm WITH
  Listings <- X, Calls <- C, Acts <- Acts.form,
  row <- v1, created <- v2, tab <- v3, call <- v4, save <- v5, mixed <- v6

ASSUME PagesAssumption ==
  /\ Rsv!PagesAssumption /\ Fav!MaxFavoritesAssumption /\ Cat!SizeAssumption
  /\ Pho!OwnersAssumption /\ Adm!PageAssumption
\* The name for nothing is not one of a row.
ASSUME NamesAssumption == "none" \notin X /\ IsFiniteSet(Numbers)

-----------------------------------------------------------------------------
Init ==
  /\ Blank
  /\ \/ open = "reservations" /\ Rsv!Init
     \/ open = "car" /\ Car!Init
     \/ open = "favorites" /\ Fav!Init
     \/ open = "catalog" /\ Cat!Init
     \/ open = "chat" /\ Chat!Init
     \/ open = "account" /\ Acc!Init
     \/ open = "phone" /\ Pho!Init
     \/ open = "bell" /\ Bel!Init
     \/ open = "tickets" /\ Tic!Init
     \/ open = "support" /\ Sup!Init
     \/ open = "mylistings" /\ Lst!Init
     \/ open = "moderation" /\ Mod!Init
     \/ open = "users" /\ Usr!Init
     \/ open = "cars" /\ Adm!Init
     \/ open = "choice" /\ Cho!Init
     \/ open = "new" /\ New!Init
     \/ open = "edit" /\ Edi!Init
     \/ open = "form" /\ For!Init

Next ==
  \/ open = "reservations" /\ Rsv!Next /\ Keeps
  \/ open = "car" /\ Car!Next /\ Keeps
  \/ open = "favorites" /\ Fav!Next /\ Keeps
  \/ open = "catalog" /\ Cat!Next /\ Keeps
  \/ open = "chat" /\ Chat!Next /\ Keeps
  \/ open = "account" /\ Acc!Next /\ Keeps
  \/ open = "phone" /\ Pho!Next /\ Keeps
  \/ open = "bell" /\ Bel!Next /\ Keeps
  \/ open = "tickets" /\ Tic!Next /\ Keeps
  \/ open = "support" /\ Sup!Next /\ Keeps
  \/ open = "mylistings" /\ Lst!Next /\ Keeps
  \/ open = "moderation" /\ Mod!Next /\ Keeps
  \/ open = "users" /\ ~v5 /\ Usr!Next /\ Keeps
  \/ open = "cars" /\ ~v4 /\ Adm!Next /\ Keeps
  \/ open = "choice" /\ Cho!Next /\ Keeps
  \/ open = "new" /\ New!Next /\ Keeps
  \/ open = "edit" /\ Edi!Next /\ Keeps
  \/ open = "form" /\ ~v6 /\ For!Next /\ Keeps

Spec == Init /\ [][Next]_shell

-----------------------------------------------------------------------------
TypeOK ==
  /\ open = "reservations" => Rsv!TypeOK
  /\ open = "car" => Car!TypeOK
  /\ open = "favorites" => Fav!TypeOK
  /\ open = "catalog" => Cat!TypeOK
  /\ open = "chat" => Chat!TypeOK
  /\ open = "account" => Acc!TypeOK
  /\ open = "phone" => Pho!TypeOK
  /\ open = "bell" => Bel!TypeOK
  /\ open = "tickets" => Tic!TypeOK
  /\ open = "support" => Sup!TypeOK
  /\ open = "mylistings" => Lst!TypeOK
  /\ open = "moderation" => Mod!TypeOK
  /\ open = "users" => Usr!TypeOK
  /\ open = "cars" => Adm!TypeOK
  /\ open = "choice" => Cho!TypeOK
  /\ open = "new" => New!TypeOK
  /\ open = "edit" => Edi!TypeOK
  /\ open = "form" => For!TypeOK

(* ReservationsTab: what the page said was done is what its lists show once they are loaded again, *)
(* however the loads of two tabs and the replies overlap; and a row is found under the filter of   *)
(* its label only.                                                                                 *)
AcknowledgedIsShown == open = "reservations" => Rsv!AcknowledgedIsShown /\ Rsv!FilterFindsLabel

(* CarDetailPage: a buyer is only offered the payment link of the reservation made for him.        *)
LinkIsOwn == open = "car" => Car!LinkIsOwn

(* FavoritesContext: when nothing is under way and no request failed, the hearts drawn are the     *)
(* favorites of the account, however toggles and loads overlapped.                                 *)
QuietAgrees == open = "favorites" => Fav!QuietAgrees

(* CatalogPage: the list has every car once, in the order and of the years asked for, while cars   *)
(* come and go between the pages.                                                                  *)
InOrder == open = "catalog" => Cat!InOrder

(* AiPage: an answer shown to the end is saved in the conversation it was asked in; and while      *)
(* nothing is opened or asked during an answer, the page and the cache of a conversation hold its  *)
(* own turns only.                                                                                 *)
WholeIsSaved == open = "chat" => Chat!WholeIsSaved /\ Chat!NothingForeign

(* Header and ProfilePage: the two copies of who is signed in agree when both are loaded.          *)
HeaderAgrees == open = "account" => Acc!HeaderAgrees

(* PhoneVerification: a card that says the phone is verified is right, whichever tab changed it.   *)
DoneIsVerified == open = "phone" => Pho!DoneIsVerified

(* NotificationBell: a bell counts or draws every notification that is not read, though two bells  *)
(* load and mark at once.                                                                          *)
NothingHidden == open = "bell" => Bel!NothingHidden

(* A page that writes and then loads, or changes its own copy, ends with what the server has, when *)
(* its requests came one at a time: MessagesTab of the staff, useMyListings, OffersTab, UsersTab   *)
(* and CarsTab.                                                                                    *)
ShowsItsChanges ==
  /\ open = "support" => Sup!StaffSeesItsChanges
  /\ open = "mylistings" => Lst!ShowsItsChanges
  /\ open = "moderation" => Mod!ShowsItsReviews
  /\ open = "users" => Usr!ShowsItsChanges
  /\ open = "cars" => Adm!ShowsItsChanges

(* CreateListingPage: the brand, model and modification chosen are of one car while                *)
(* no level is asked for twice at once.                                                            *)
OneCar == open = "choice" => Cho!OneCar

(* CreateListingPage: what the page says of a listing is so.  A photo that did not arrive is told  *)
(* of, and one no longer drawn is deleted; what is said to be submitted is in review with a photo  *)
(* and the windows it needs; what is said to be saved is, and a refused update changes nothing.    *)
PageIsRight ==
  /\ open = "new" => New!PhotosOrTold /\ New!SubmittedIsComplete
  /\ open = "edit" => Edi!HiddenIsDeleted /\ Edi!AllOrNothing

(* TicketsTab of the user and the form of CarsTab: what is written goes to the ticket or the       *)
(* listing that was on screen when it was sent.                                                    *)
WritesWhereMeant ==
  /\ open = "tickets" => Tic!SaidWhereMeant
  /\ open = "form" => For!WritesItsOwn
=============================================================================
