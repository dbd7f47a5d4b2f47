-------------------------- MODULE ClientPagesProofs --------------------------
(***************************************************************************)
(* The theorems about the pages of the client.  Page has the invariant of   *)
(* each page and the proof that its steps keep it; XOf says that the page   *)
(* ClientPages has is that one, and XStep that the invariant holds while it *)
(* is open.                                                                 *)
(***************************************************************************)
EXTENDS ClientPages, TLAPS

Page == INSTANCE PageProofs

CarP == INSTANCE CarDetailProofs WITH
  Buyers <- X, Windows <- Times, Calls <- {"c"},
  Returning <- IF "return" \in Acts.car THEN X ELSE {}, Ends <- Acts.car,
  listing <- v1, enabled <- v2, offered <- v3, resv <- v4, pay <- v5, page <- v6, call <- v7,
  linked <- v8, ret <- v9

-----------------------------------------------------------------------------
LEMMA Constants == Page!NamesApart /\ Page!NumbersFinite
BY NamesAssumption DEF Page!NamesApart, Page!NumbersFinite, Page!IsFiniteSet, IsFiniteSet

LEMMA ChatOf ==
  /\ Chat!Init => Page!Chat!Init
  /\ Chat!Next => Page!Chat!Next
  /\ Page!Chat!WholeIsSaved /\ Page!Chat!NothingForeign => Chat!WholeIsSaved /\ Chat!NothingForeign
<1>1. Chat!Init => Page!Chat!Init
  BY DEF Chat!Init, Chat!NoJob, Chat!None, Page!Chat!Init, Page!Chat!NoJob, Page!Chat!None
<1>2. Chat!Next => Page!Chat!Next
  BY DEF Chat!Next, Chat!sendMessage, Chat!Asked, Chat!NoJob, Chat!None, Chat!Turn, Chat!Streams,
         Chat!load_or_create_conversation, Chat!HomeOf, Chat!Cardinality, Chat!Exists,
         Chat!rejected, Chat!answered, Chat!Saves, Chat!Marked, Chat!fallback, Chat!onDone,
         Chat!Active, Chat!Cid, Chat!loadPreviews, Chat!WithCars, Chat!onError, Chat!Fails,
         Chat!cancelStream, Chat!loadConversation, Chat!Listed, Chat!Leaves, Chat!Busy,
         Chat!loaded, Chat!Saved, Chat!notLoaded, Chat!onDelete, Chat!delete_conversation,
         Chat!handleDeleteConversation, Chat!Emptied, Chat!startNewConversation, Chat!Reloaded,
         Page!Chat!Next, Page!Chat!sendMessage, Page!Chat!Asked, Page!Chat!NoJob, Page!Chat!None,
         Page!Chat!Turn, Page!Chat!Streams, Page!Chat!load_or_create_conversation,
         Page!Chat!HomeOf, Page!Chat!Cardinality, Page!Chat!Exists, Page!Chat!rejected,
         Page!Chat!answered, Page!Chat!Saves, Page!Chat!Marked, Page!Chat!fallback,
         Page!Chat!onDone, Page!Chat!Active, Page!Chat!Cid, Page!Chat!loadPreviews,
         Page!Chat!WithCars, Page!Chat!onError, Page!Chat!Fails, Page!Chat!cancelStream,
         Page!Chat!loadConversation, Page!Chat!Listed, Page!Chat!Leaves, Page!Chat!Busy,
         Page!Chat!loaded, Page!Chat!Saved, Page!Chat!notLoaded, Page!Chat!onDelete,
         Page!Chat!delete_conversation, Page!Chat!handleDeleteConversation, Page!Chat!Emptied,
         Page!Chat!startNewConversation, Page!Chat!Reloaded
<1>3. Page!Chat!WholeIsSaved /\ Page!Chat!NothingForeign => Chat!WholeIsSaved /\ Chat!NothingForeign
  BY DEF Chat!WholeIsSaved, Chat!None, Chat!Exists, Chat!NothingForeign, Chat!Rows, Chat!Own,
         Page!Chat!WholeIsSaved, Page!Chat!None, Page!Chat!Exists, Page!Chat!NothingForeign,
         Page!Chat!Rows, Page!Chat!Own
<1> QED
  BY <1>1, <1>2, <1>3

OnChat == open = "chat" => Page!ChatInv

LEMMA ChatStep ==
  ASSUME Page!AnswersSaved
  PROVE  (Init => OnChat) /\ (OnChat /\ [Next]_shell => OnChat')
<1>1. Init => OnChat
  BY ChatOf, Page!ChatInit DEF Init, OnChat
<1>2. ASSUME OnChat, [Next]_shell, open' = "chat" PROVE Page!ChatInv'
  <2>1. open = "chat" /\ (Chat!Next \/ UNCHANGED <<v1, v2, v3, v4, v5, v6, v7, v9>>)
    BY <1>2 DEF Next, Keeps, shell
  <2> QED
    BY <1>2, <2>1, ChatOf, Page!ChatNext, Page!ChatStill DEF OnChat
<1> QED
  BY <1>1, <1>2 DEF OnChat

LEMMA NewOf ==
  /\ New!Init => Page!New!Init
  /\ New!Next => Page!New!Next
  /\ Page!New!PhotosOrTold /\ Page!New!SubmittedIsComplete => New!PhotosOrTold /\ New!SubmittedIsComplete
<1>1. New!Init => Page!New!Init
  BY DEF New!Init, New!Opened, New!Blank, Page!New!Init, Page!New!Opened, Page!New!Blank
<1>2. New!Next => Page!New!Next
  <2>c. Page!Cardinality(Numbers) = Cardinality(Numbers)
    BY DEF Page!Cardinality, Cardinality
  <2>1. New!edit \/ New!next \/ New!back \/ New!handleImageRemove
      => Page!New!edit \/ Page!New!next \/ Page!New!back \/ Page!New!handleImageRemove
    BY DEF New!edit, New!Field, New!Using, New!Set, New!next, New!back, New!handleImageRemove,
           Page!New!edit, Page!New!Field, Page!New!Using, Page!New!Set, Page!New!next,
           Page!New!back, Page!New!handleImageRemove
  <2>2. New!leave \/ New!open => Page!New!leave \/ Page!New!open
    BY DEF New!leave, New!Using, New!Left, New!open, New!Opened, New!Blank, Page!New!leave,
           Page!New!Using, Page!New!Left, Page!New!open, Page!New!Opened, Page!New!Blank
  <2>3. New!handleSubmit => Page!New!handleSubmit
    BY <2>c DEF New!handleSubmit, New!Using, New!Details, New!Free, Page!New!handleSubmit,
                Page!New!Using, Page!New!Details, Page!New!Free
  <2>4. \A n : New!toggleDay(n) => Page!New!toggleDay(n)
    BY DEF New!toggleDay, New!Using, New!Set, Page!New!toggleDay, Page!New!Using, Page!New!Set
  <2>5. \A n : New!handleImageAdd(n) => Page!New!handleImageAdd(n)
    BY <2>c DEF New!handleImageAdd, New!Using, New!Set, New!Kept, Page!New!handleImageAdd,
                Page!New!Using, Page!New!Set, Page!New!Kept
  <2>6. \A s : New!Serve(s) \/ New!NoWindow(s) \/ New!Fails(s)
      => Page!New!Serve(s) \/ Page!New!NoWindow(s) \/ Page!New!Fails(s)
    BY DEF New!Serve, New!create_listing, New!Waits, New!upload_listing_image, New!Answer,
           New!add_viewing_window, New!publish_listing, New!Valid, New!NoWindow, New!Fails,
           Page!New!Serve, Page!New!create_listing, Page!New!Waits, Page!New!upload_listing_image,
           Page!New!Answer, Page!New!add_viewing_window, Page!New!publish_listing, Page!New!Valid,
           Page!New!NoWindow, Page!New!Fails
  <2>7. \A s : New!created(s) => Page!New!created(s)
    BY DEF New!created, New!Ends, New!Left, New!GoOn, New!After, Page!New!created, Page!New!Ends,
           Page!New!Left, Page!New!GoOn, Page!New!After
  <2>8. \A s : New!uploaded(s) \/ New!windowsSaved(s)
      => Page!New!uploaded(s) \/ Page!New!windowsSaved(s)
    BY DEF New!uploaded, New!GoOn, New!After, New!Told, New!windowsSaved, Page!New!uploaded,
           Page!New!GoOn, Page!New!After, Page!New!Told, Page!New!windowsSaved
  <2>9. \A s : New!published(s) => Page!New!published(s)
    BY DEF New!published, New!Ends, New!Left, New!Says, Page!New!published, Page!New!Ends,
           Page!New!Left, Page!New!Says
  <2> QED
    BY <2>c, <2>1, <2>2, <2>3, <2>4, <2>5, <2>6, <2>7, <2>8, <2>9
       DEF New!Next, Page!New!Next, New!Hear, Page!New!Hear
<1>3. Page!New!PhotosOrTold /\ Page!New!SubmittedIsComplete => New!PhotosOrTold /\ New!SubmittedIsComplete
  BY DEF New!PhotosOrTold, New!SubmittedIsComplete, Page!New!PhotosOrTold,
         Page!New!SubmittedIsComplete
<1> QED
  BY <1>1, <1>2, <1>3

OnNew == open = "new" => Page!NewInv

LEMMA NewStep ==
  (Init => OnNew) /\ (OnNew /\ [Next]_shell => OnNew')
<1>1. Init => OnNew
  BY NewOf, Page!NewInit, Constants DEF Init, OnNew
<1>2. ASSUME OnNew, [Next]_shell, open' = "new" PROVE Page!NewInv'
  <2>1. open = "new" /\ (New!Next \/ UNCHANGED <<v1, v2, v3, v4>>)
    BY <1>2 DEF Next, Keeps, shell
  <2> QED
    BY <1>2, <2>1, NewOf, Page!NewNext, Page!NewStill, Constants DEF OnNew
<1> QED
  BY <1>1, <1>2 DEF OnNew

\* The tab of the user: what it does is what the two tabs do together.
LEMMA TicActs ==
  ASSUME NEW c \in C
  PROVE  /\ Tic!Serve(c) => Page!Tkt!Serve(c)
         /\ Tic!Hear(c) => Page!Tkt!Hear(c)
         /\ Tic!Lost(c) => Page!Tkt!Lost(c)
         /\ Tic!TicketsTab(c) => Page!Tkt!TicketsTab(c)
         /\ Tic!MessagesTab(c) => Page!Tkt!MessagesTab(c)
<1>1. Tic!Serve(c) => Page!Tkt!Serve(c)
  BY DEF Tic!Serve, Page!Tkt!Serve, Tic!create_ticket, Page!Tkt!create_ticket, Tic!my_tickets,
         Page!Tkt!my_tickets, Tic!list_tickets, Page!Tkt!list_tickets, Tic!get_ticket,
         Page!Tkt!get_ticket, Tic!add_message, Page!Tkt!add_message, Tic!update_ticket,
         Page!Tkt!update_ticket, Tic!Sent, Page!Tkt!Sent, Tic!Reply, Page!Tkt!Reply, Tic!Rows,
         Page!Tkt!Rows, Tic!All, Page!Tkt!All
<1>2. Tic!Hear(c) => Page!Tkt!Hear(c)
  BY DEF Tic!Hear, Page!Tkt!Hear, Tic!loadList, Page!Tkt!loadList, Tic!opened, Page!Tkt!opened,
         Tic!created, Page!Tkt!created, Tic!sent, Page!Tkt!sent, Tic!loaded, Page!Tkt!loaded,
         Tic!statusChanged, Page!Tkt!statusChanged, Tic!Answer, Page!Tkt!Answer, Tic!Ok,
         Page!Tkt!Ok, Tic!NoCall, Page!Tkt!NoCall, Tic!NoDetail, Page!Tkt!NoDetail, Tic!With,
         Page!Tkt!With, Tic!AfterList, Page!Tkt!AfterList, Tic!AfterOpen, Page!Tkt!AfterOpen,
         Tic!ThenLoad, Page!Tkt!ThenLoad, Tic!Req, Page!Tkt!Req
<1>3. Tic!Lost(c) => Page!Tkt!Lost(c)
  BY DEF Tic!Lost, Page!Tkt!Lost
<1>4. Tic!TicketsTab(c) => Page!Tkt!TicketsTab(c)
  BY DEF Tic!TicketsTab, Page!Tkt!TicketsTab, Tic!Mount, Page!Tkt!Mount, Tic!openTicket,
         Page!Tkt!openTicket, Tic!handleCreate, Page!Tkt!handleCreate, Tic!handleSendMsg,
         Page!Tkt!handleSendMsg, Tic!Send, Page!Tkt!Send, Tic!Req, Page!Tkt!Req, Tic!NoCall,
         Page!Tkt!NoCall, Tic!Fresh, Page!Tkt!Fresh, Tic!Drawn, Page!Tkt!Drawn, Tic!NoDetail,
         Page!Tkt!NoDetail, Tic!IsClosed, Page!Tkt!IsClosed, Tic!Target, Page!Tkt!Target
<1>5. Tic!MessagesTab(c) => Page!Tkt!MessagesTab(c)
  BY DEF Tic!MessagesTab, Page!Tkt!MessagesTab, Tic!Open, Page!Tkt!Open, Tic!setSearchQuery,
         Page!Tkt!setSearchQuery, Tic!refresh, Page!Tkt!refresh, Tic!setFilterStatus,
         Page!Tkt!setFilterStatus, Tic!handleStatusChange, Page!Tkt!handleStatusChange, Tic!Send,
         Page!Tkt!Send, Tic!Req, Page!Tkt!Req, Tic!NoCall, Page!Tkt!NoCall, Tic!FreshStaff,
         Page!Tkt!FreshStaff, Tic!Load, Page!Tkt!Load, Tic!Loading, Page!Tkt!Loading, Tic!Busy,
         Page!Tkt!Busy, Tic!StaffCalls, Page!Tkt!StaffCalls, Tic!Staff, Page!Tkt!Staff, Tic!Shown,
         Page!Tkt!Shown
<1> QED
  BY <1>1, <1>2, <1>3, <1>4, <1>5

LEMMA TicketOf ==
  /\ Tic!Init => Page!Tkt!Init
  /\ Tic!Next => Page!Tkt!Next
  /\ Page!Tkt!SaidWhereMeant => Tic!SaidWhereMeant
<1>1. Tic!Init => Page!Tkt!Init
  BY DEF Tic!Init, Page!Tkt!Init, Tic!Fresh, Page!Tkt!Fresh, Tic!FreshStaff, Page!Tkt!FreshStaff,
         Tic!NoCall, Page!Tkt!NoCall, Tic!NoDetail, Page!Tkt!NoDetail
<1>2. Tic!Leave => Page!Tkt!Leave
  BY DEF Tic!Leave, Page!Tkt!Leave, Tic!Deaf, Page!Tkt!Deaf, Tic!UserKinds, Page!Tkt!UserKinds
<1>3. Tic!Close => Page!Tkt!Close
  BY DEF Tic!Close, Page!Tkt!Close, Tic!Deaf, Page!Tkt!Deaf
<1>4. Tic!toList \/ Tic!toCreate => Page!Tkt!toList \/ Page!Tkt!toCreate
  BY DEF Tic!toList, Page!Tkt!toList, Tic!toCreate, Page!Tkt!toCreate, Tic!Drawn, Page!Tkt!Drawn,
         Tic!NoDetail, Page!Tkt!NoDetail
<1>5. \A t \in X, x \in {"text"} : Tic!StaffSays(t, x) => Page!Tkt!StaffSays(t, x)
  BY DEF Tic!StaffSays, Page!Tkt!StaffSays
<1>6. Tic!Next => Page!Tkt!Next
  BY <1>2, <1>3, <1>4, <1>5, TicActs DEF Tic!Next, Page!Tkt!Next
<1> QED
  BY <1>1, <1>6 DEF Tic!SaidWhereMeant, Page!Tkt!SaidWhereMeant

OnTicket == open = "tickets" => Page!TicketInv

LEMMA TicketStep ==
  (Init => OnTicket) /\ (OnTicket /\ [Next]_shell => OnTicket')
<1>1. Init => OnTicket
  BY TicketOf, Page!TicketInit, Constants DEF Init, OnTicket
<1>2. ASSUME OnTicket, [Next]_shell, open' = "tickets" PROVE Page!TicketInv'
  <2>1. open = "tickets" /\ (Tic!Next \/ UNCHANGED <<v1, v2, v3, v4, v5, v6>>)
    BY <1>2 DEF Next, Keeps, shell
  <2> QED
    BY <1>2, <2>1, TicketOf, Page!TicketNext, Page!TicketStill, Constants DEF OnTicket
<1> QED
  BY <1>1, <1>2 DEF OnTicket

LEMMA AccOf ==
  /\ Acc!Init => Page!Acc!Init
  /\ Acc!Next => Page!Acc!Next
  /\ Page!Acc!HeaderAgrees => Acc!HeaderAgrees
<1>1. Acc!Init => Page!Acc!Init
  BY DEF Acc!Init, Acc!NoToken, Acc!None, Acc!NoView, Acc!NoCall, Page!Acc!Init, Page!Acc!NoToken,
         Page!Acc!None, Page!Acc!NoView, Page!Acc!NoCall
<1>2. Acc!Next => Page!Acc!Next
  BY DEF Acc!Next, Acc!Reload, Acc!Load, Acc!View, Acc!None, Acc!NoToken, Acc!NoView, Acc!Forget,
         Acc!NoCall, Acc!Request, Acc!OpenHome, Acc!Leave, Acc!Serve, Acc!ServeForm, Acc!Answer,
         Acc!ServeSigned, Acc!Admitted, Acc!Lost, Acc!Answered, Acc!MeAnswered, Acc!AfterMe,
         Acc!Draw, Acc!Registered, Acc!LoggedIn, Acc!Cardinality, Acc!LoginDone, Acc!AfterLogin,
         Acc!FormFailed, Acc!LoggedOut, Acc!Saved, Acc!PasswordChanged, Acc!OpenProfile, Acc!Idle,
         Acc!Send, Acc!Wheres, Acc!handleLogout, Acc!TabsShown, Acc!handleSave, Acc!Of,
         Acc!handleAuth, Acc!FormShown, Page!Acc!Next, Page!Acc!Reload, Page!Acc!Load,
         Page!Acc!View, Page!Acc!None, Page!Acc!NoToken, Page!Acc!NoView, Page!Acc!Forget,
         Page!Acc!NoCall, Page!Acc!Request, Page!Acc!OpenHome, Page!Acc!Leave, Page!Acc!Serve,
         Page!Acc!ServeForm, Page!Acc!Answer, Page!Acc!ServeSigned, Page!Acc!Admitted,
         Page!Acc!Lost, Page!Acc!Answered, Page!Acc!MeAnswered, Page!Acc!AfterMe, Page!Acc!Draw,
         Page!Acc!Registered, Page!Acc!LoggedIn, Page!Acc!Cardinality, Page!Acc!LoginDone,
         Page!Acc!AfterLogin, Page!Acc!FormFailed, Page!Acc!LoggedOut, Page!Acc!Saved,
         Page!Acc!PasswordChanged, Page!Acc!OpenProfile, Page!Acc!Idle, Page!Acc!Send,
         Page!Acc!Wheres, Page!Acc!handleLogout, Page!Acc!TabsShown, Page!Acc!handleSave,
         Page!Acc!Of, Page!Acc!handleAuth, Page!Acc!FormShown
<1>3. Page!Acc!HeaderAgrees => Acc!HeaderAgrees
  BY DEF Acc!HeaderAgrees, Page!Acc!HeaderAgrees
<1> QED
  BY <1>1, <1>2, <1>3

OnAcc == open = "account" => Page!AccInv

LEMMA AccStep ==
  (Init => OnAcc) /\ (OnAcc /\ [Next]_shell => OnAcc')
<1>1. Init => OnAcc
  BY AccOf, Page!AccInit, Constants DEF Init, OnAcc
<1>2. ASSUME OnAcc, [Next]_shell, open' = "account" PROVE Page!AccInv'
  <2>1. open = "account" /\ (Acc!Next \/ UNCHANGED <<v1, v2, v3, v4, v5, v7, v8>>)
    BY <1>2 DEF Next, Keeps, shell
  <2> QED
    BY <1>2, <2>1, AccOf, Page!AccNext, Page!AccStill, Constants DEF OnAcc
<1> QED
  BY <1>1, <1>2 DEF OnAcc

LEMMA PhoneOf ==
  /\ Pho!Init => Page!Pho!Init
  /\ Pho!Next => Page!Pho!Next
  /\ Page!Pho!DoneIsVerified => Pho!DoneIsVerified
<1>1. Pho!Init => Page!Pho!Init
  BY DEF Pho!Init, Pho!None, Pho!NoCode, Pho!NoCall, Pho!Codes, Pho!Cardinality, Page!Pho!Init,
         Page!Pho!None, Page!Pho!NoCode, Page!Pho!NoCall, Page!Pho!Codes, Page!Pho!Cardinality
<1>2. Pho!Next => Page!Pho!Next
  BY DEF Pho!Next, Pho!Mount, Pho!Card, Pho!keys, Pho!history, Pho!NewCode, Pho!WaitEnds,
         Pho!CanEnd, Pho!TypePhone, Pho!handleSendOtp, Pho!None, Pho!Of, Pho!Post, Pho!NoCall,
         Pho!NoCode, Pho!client, Pho!handleVerify, Pho!Serve, Pho!SendChecked, Pho!Cardinality,
         Pho!Step, Pho!Goto, Pho!Owned, Pho!User, Pho!CooldownSet, Pho!CodeStored,
         Pho!AttemptsReset, Pho!MessageSent, Pho!VerifyRead, Pho!WrongCounted, Pho!LockedDeleted,
         Pho!RightDeleted, Pho!Verified, Pho!UniquePhone, Pho!SentOk, Pho!VerifiedOk, Pho!Refused,
         Pho!AfterRefusal, Pho!Lost, Pho!KeyExpires, Pho!CooldownEnds, Pho!update_profile,
         Page!Pho!Next, Page!Pho!Mount, Page!Pho!Card, Page!Pho!keys, Page!Pho!history,
         Page!Pho!NewCode, Page!Pho!WaitEnds, Page!Pho!CanEnd, Page!Pho!TypePhone,
         Page!Pho!handleSendOtp, Page!Pho!None, Page!Pho!Of, Page!Pho!Post, Page!Pho!NoCall,
         Page!Pho!NoCode, Page!Pho!client, Page!Pho!handleVerify, Page!Pho!Serve,
         Page!Pho!SendChecked, Page!Pho!Cardinality, Page!Pho!Step, Page!Pho!Goto, Page!Pho!Owned,
         Page!Pho!User, Page!Pho!CooldownSet, Page!Pho!CodeStored, Page!Pho!AttemptsReset,
         Page!Pho!MessageSent, Page!Pho!VerifyRead, Page!Pho!WrongCounted, Page!Pho!LockedDeleted,
         Page!Pho!RightDeleted, Page!Pho!Verified, Page!Pho!UniquePhone, Page!Pho!SentOk,
         Page!Pho!VerifiedOk, Page!Pho!Refused, Page!Pho!AfterRefusal, Page!Pho!Lost,
         Page!Pho!KeyExpires, Page!Pho!CooldownEnds, Page!Pho!update_profile
<1>3. Page!Pho!DoneIsVerified => Pho!DoneIsVerified
  BY DEF Pho!DoneIsVerified, Page!Pho!DoneIsVerified
<1> QED
  BY <1>1, <1>2, <1>3

OnPhone == open = "phone" => Page!PhoneInv

LEMMA PhoneStep ==
  (Init => OnPhone) /\ (OnPhone /\ [Next]_shell => OnPhone')
<1>1. Init => OnPhone
  BY PhoneOf, Page!PhoneInit DEF Init, OnPhone
<1>2. ASSUME OnPhone, [Next]_shell, open' = "phone" PROVE Page!PhoneInv'
  <2>1. open = "phone" /\ (Pho!Next \/ UNCHANGED <<v1, v2, v3, v4, v5, v7, v8, v9, v10, v11>>)
    BY <1>2 DEF Next, Keeps, shell
  <2> QED
    BY <1>2, <2>1, PhoneOf, Page!PhoneNext, Page!PhoneStill DEF OnPhone
<1> QED
  BY <1>1, <1>2 DEF OnPhone

LEMMA EditOf ==
  /\ Edi!Init => Page!Edi!Init
  /\ Edi!Next => Page!Edi!Next
  /\ Page!Edi!HiddenIsDeleted /\ Page!Edi!AllOrNothing => Edi!HiddenIsDeleted /\ Edi!AllOrNothing
<1>1. Edi!Init => Page!Edi!Init
  BY DEF Edi!Init, Edi!Loading, Edi!None, Edi!NoSave, Edi!NoCall, Page!Edi!Init, Page!Edi!Loading,
         Page!Edi!None, Page!Edi!NoSave, Page!Edi!NoCall
<1>2. Edi!Next => Page!Edi!Next
  BY DEF Edi!Next, Edi!Serve, Edi!edit_listing, Edi!Refusal, Edi!None, Edi!Sets, Edi!Refused,
         Edi!upload_listing_image, Edi!delete_listing_image, Edi!Hear, Edi!load, Edi!updated,
         Edi!Step, Edi!Ends, Edi!uploaded, Edi!saved, Edi!deleted, Edi!NoCall, Edi!errorLoad,
         Edi!toggleDay, Edi!Set, Edi!handleImageAdd, Edi!handleSubmit, Edi!cancel, Edi!open,
         Edi!Loading, Edi!Lost, Edi!Elsewhere, Edi!Prices, Edi!setPrice, Edi!Plates,
         Edi!setLicensePlate, Edi!Cars, Edi!changeCar, Edi!LostDeletion,
         Edi!handleExistingImageDelete, Page!Edi!Next, Page!Edi!Serve, Page!Edi!edit_listing,
         Page!Edi!Refusal, Page!Edi!None, Page!Edi!Sets, Page!Edi!Refused,
         Page!Edi!upload_listing_image, Page!Edi!delete_listing_image, Page!Edi!Hear,
         Page!Edi!load, Page!Edi!updated, Page!Edi!Step, Page!Edi!Ends, Page!Edi!uploaded,
         Page!Edi!saved, Page!Edi!deleted, Page!Edi!NoCall, Page!Edi!errorLoad,
         Page!Edi!toggleDay, Page!Edi!Set, Page!Edi!handleImageAdd, Page!Edi!handleSubmit,
         Page!Edi!cancel, Page!Edi!open, Page!Edi!Loading, Page!Edi!Lost, Page!Edi!Elsewhere,
         Page!Edi!Prices, Page!Edi!setPrice, Page!Edi!Plates, Page!Edi!setLicensePlate,
         Page!Edi!Cars, Page!Edi!changeCar, Page!Edi!LostDeletion,
         Page!Edi!handleExistingImageDelete
<1>3. Page!Edi!HiddenIsDeleted /\ Page!Edi!AllOrNothing => Edi!HiddenIsDeleted /\ Edi!AllOrNothing
  BY DEF Edi!HiddenIsDeleted, Edi!AllOrNothing, Page!Edi!HiddenIsDeleted, Page!Edi!AllOrNothing
<1> QED
  BY <1>1, <1>2, <1>3

OnEdit == open = "edit" => Page!EditInv

LEMMA EditStep ==
  (Init => OnEdit) /\ (OnEdit /\ [Next]_shell => OnEdit')
<1>1. Init => OnEdit
  BY EditOf, Page!EditInit DEF Init, OnEdit
<1>2. ASSUME OnEdit, [Next]_shell, open' = "edit" PROVE Page!EditInv'
  <2>1. open = "edit" /\ (Edi!Next \/ UNCHANGED <<v1, v2, v3, v4, v5>>)
    BY <1>2 DEF Next, Keeps, shell
  <2> QED
    BY <1>2, <2>1, EditOf, Page!EditNext, Page!EditStill DEF OnEdit
<1> QED
  BY <1>1, <1>2 DEF OnEdit

LEMMA BellOf ==
  /\ Bel!Init => Page!Bel!Init
  /\ Bel!Next => Page!Bel!Next
  /\ Page!Bel!NothingHidden => Bel!NothingHidden
<1>1. Bel!Init => Page!Bel!Init
  BY DEF Bel!Init, Bel!Empty, Bel!NoCall, Page!Bel!Init, Page!Bel!Empty, Page!Bel!NoCall
<1>2. Bel!Next => Page!Bel!Next
  BY DEF Bel!Next, Bel!Serve, Bel!list_notifications, Bel!Reply, Bel!Listed, Bel!mark_read,
         Bel!mark_all_read, Bel!Lost, Bel!Answered, Bel!AfterAnswer, Bel!NoCall, Bel!Mount,
         Bel!Empty, Bel!handleToggle, Bel!Send, Bel!Of, Bel!handleMarkAllRead, Bel!Unread,
         Bel!handleMarkOne, Bel!Notify, Page!Bel!Next, Page!Bel!Serve,
         Page!Bel!list_notifications, Page!Bel!Reply, Page!Bel!Listed, Page!Bel!mark_read,
         Page!Bel!mark_all_read, Page!Bel!Lost, Page!Bel!Answered, Page!Bel!AfterAnswer,
         Page!Bel!NoCall, Page!Bel!Mount, Page!Bel!Empty, Page!Bel!handleToggle, Page!Bel!Send,
         Page!Bel!Of, Page!Bel!handleMarkAllRead, Page!Bel!Unread, Page!Bel!handleMarkOne,
         Page!Bel!Notify
<1>3. Page!Bel!NothingHidden => Bel!NothingHidden
  BY DEF Bel!NothingHidden, Page!Bel!NothingHidden
<1> QED
  BY <1>1, <1>2, <1>3

OnBell == open = "bell" => Page!BellInv

LEMMA BellStep ==
  (Init => OnBell) /\ (OnBell /\ [Next]_shell => OnBell')
<1>1. Init => OnBell
  BY BellOf, Page!BellInit DEF Init, OnBell
<1>2. ASSUME OnBell, [Next]_shell, open' = "bell" PROVE Page!BellInv'
  <2>1. open = "bell" /\ (Bel!Next \/ UNCHANGED <<v1, v2, v3, v4, v5>>)
    BY <1>2 DEF Next, Keeps, shell
  <2> QED
    BY <1>2, <2>1, BellOf, Page!BellNext, Page!BellStill DEF OnBell
<1> QED
  BY <1>1, <1>2 DEF OnBell

LEMMA FormOf ==
  /\ For!Init => Page!For!Init
  /\ For!Next => Page!For!Next
  /\ Page!For!WritesItsOwn => For!WritesItsOwn
<1>1. For!Init => Page!For!Init
  BY DEF For!Init, For!Of, For!Closed, For!None, For!Empty, For!NoCall, For!NoSave, Page!For!Init,
         Page!For!Of, Page!For!Closed, Page!For!None, Page!For!Empty, Page!For!NoCall,
         Page!For!NoSave
<1>2. For!Next => Page!For!Next
  BY DEF For!Next, For!get_listing_detail, For!Empty, For!Of, For!None, For!Masked, For!detailed,
         For!Filled, For!Fill, For!NoCall, For!openEdit, For!Opens, For!Closed, For!Asked,
         For!Serve, For!edit_listing_admin, For!Patched, For!Or, For!upload_listing_image,
         For!create_listing, For!openCreate, For!onClose, For!Shut, For!setCondition, For!Set,
         For!handleSave, For!Free, For!saved, For!Says, For!Fails, For!setVin, For!Typed,
         For!setDescription, For!setFiles, Page!For!Next, Page!For!get_listing_detail,
         Page!For!Empty, Page!For!Of, Page!For!None, Page!For!Masked, Page!For!detailed,
         Page!For!Filled, Page!For!Fill, Page!For!NoCall, Page!For!openEdit, Page!For!Opens,
         Page!For!Closed, Page!For!Asked, Page!For!Serve, Page!For!edit_listing_admin,
         Page!For!Patched, Page!For!Or, Page!For!upload_listing_image, Page!For!create_listing,
         Page!For!openCreate, Page!For!onClose, Page!For!Shut, Page!For!setCondition,
         Page!For!Set, Page!For!handleSave, Page!For!Free, Page!For!saved, Page!For!Says,
         Page!For!Fails, Page!For!setVin, Page!For!Typed, Page!For!setDescription,
         Page!For!setFiles
<1>3. Page!For!WritesItsOwn => For!WritesItsOwn
  BY DEF For!WritesItsOwn, For!Written, For!Of, For!Typed, For!Empty, For!None,
         Page!For!WritesItsOwn, Page!For!Written, Page!For!Of, Page!For!Typed, Page!For!Empty,
         Page!For!None
<1> QED
  BY <1>1, <1>2, <1>3

OnForm == open = "form" => Page!FormInv

LEMMA FormStep ==
  ASSUME Page!WholeAnswers
  PROVE  (Init => OnForm) /\ (OnForm /\ [Next]_shell => OnForm')
<1>1. Init => OnForm
  BY FormOf, Page!FormInit, Constants DEF Init, OnForm
<1>2. ASSUME OnForm, [Next]_shell, open' = "form" PROVE Page!FormInv'
  <2>1. open = "form" /\ (For!Next \/ UNCHANGED <<v1, v2, v3, v4, v5, v6>>)
    BY <1>2 DEF Next, Keeps, shell
  <2> QED
    BY <1>2, <2>1, FormOf, Page!FormNext, Page!FormStill, Constants DEF OnForm
<1> QED
  BY <1>1, <1>2 DEF OnForm

LEMMA ChoiceOf ==
  /\ Cho!Init => Page!Cho!Init
  /\ Cho!Next => Page!Cho!Next
  /\ Page!Cho!OneCar => Cho!OneCar
<1>1. Cho!Init => Page!Cho!Init
  BY DEF Cho!Init, Cho!Levels, Cho!Parent, Cho!None, Cho!Ask, Cho!Root, Cho!NoCall, Page!Cho!Init,
         Page!Cho!Levels, Page!Cho!Parent, Page!Cho!None, Page!Cho!Ask, Page!Cho!Root,
         Page!Cho!NoCall
<1>2. Cho!Next => Page!Cho!Next
  BY DEF Cho!Next, Cho!getEntries, Cho!Fails, Cho!answered, Cho!Answered, Cho!None, Cho!NoCall,
         Cho!Levels, Cho!Offered, Cho!Under, Cho!handleChange, Cho!Last, Cho!Enabled, Cho!Cleared,
         Cho!Ask, Cho!setSelectedMod, Page!Cho!Next, Page!Cho!getEntries, Page!Cho!Fails,
         Page!Cho!answered, Page!Cho!Answered, Page!Cho!None, Page!Cho!NoCall, Page!Cho!Levels,
         Page!Cho!Offered, Page!Cho!Under, Page!Cho!handleChange, Page!Cho!Last, Page!Cho!Enabled,
         Page!Cho!Cleared, Page!Cho!Ask, Page!Cho!setSelectedMod
<1>3. Page!Cho!OneCar => Cho!OneCar
  BY DEF Cho!OneCar, Cho!Levels, Cho!None, Cho!Parent, Cho!Enabled, Page!Cho!OneCar,
         Page!Cho!Levels, Page!Cho!None, Page!Cho!Parent, Page!Cho!Enabled
<1> QED
  BY <1>1, <1>2, <1>3

OnChoice == open = "choice" => Page!ChoiceInv

LEMMA ChoiceStep ==
  (Init => OnChoice) /\ (OnChoice /\ [Next]_shell => OnChoice')
<1>1. Init => OnChoice
  BY ChoiceOf, Page!ChoiceInit DEF Init, OnChoice
<1>2. ASSUME OnChoice, [Next]_shell, open' = "choice" PROVE Page!ChoiceInv'
  <2>1. open = "choice" /\ (Cho!Next \/ UNCHANGED <<v1, v2, v3>>)
    BY <1>2 DEF Next, Keeps, shell
  <2> QED
    BY <1>2, <2>1, ChoiceOf, Page!ChoiceNext, Page!ChoiceStill DEF OnChoice
<1> QED
  BY <1>1, <1>2 DEF OnChoice

LEMMA HeartOf ==
  /\ Fav!Init => Page!Fav!Init
  /\ Fav!Next => Page!Fav!Next
  /\ Page!Fav!QuietAgrees => Fav!QuietAgrees
<1>1. Fav!Init => Page!Fav!Init
  BY DEF Fav!Init, Fav!Cardinality, Fav!None, Fav!NoReq, Fav!Closed, Fav!NoFetch, Page!Fav!Init,
         Page!Fav!Cardinality, Page!Fav!None, Page!Fav!NoReq, Page!Fav!Closed, Page!Fav!NoFetch
<1>2. Fav!Next => Page!Fav!Next
  BY DEF Fav!Next, Fav!Login, Fav!None, Fav!Mount, Fav!Idle, Fav!NoReq, Fav!Closed, Fav!NoFetch,
         Fav!Busy, Fav!ReloadTab, Fav!PressHeart, Fav!toggle, Fav!Send, Fav!Sent, Fav!SetIds,
         Fav!Watch, Fav!others, Fav!RemoveMissing, Fav!Serve, Fav!list_favorites, Fav!AddChecked,
         Fav!Cardinality, Fav!Reply, Fav!AddCommitted, Fav!remove_favorite, Fav!Answered,
         Fav!AfterAnswer, Fav!Lost, Fav!clear, Fav!Logout, Fav!AfterLogout, Fav!DropTokens,
         Fav!OpenPage, Fav!ClosePage, Fav!ListingGone, Fav!PageLoaded, Fav!AfterFetch,
         Page!Fav!Next, Page!Fav!Login, Page!Fav!None, Page!Fav!Mount, Page!Fav!Idle,
         Page!Fav!NoReq, Page!Fav!Closed, Page!Fav!NoFetch, Page!Fav!Busy, Page!Fav!ReloadTab,
         Page!Fav!PressHeart, Page!Fav!toggle, Page!Fav!Send, Page!Fav!Sent, Page!Fav!SetIds,
         Page!Fav!Watch, Page!Fav!others, Page!Fav!RemoveMissing, Page!Fav!Serve,
         Page!Fav!list_favorites, Page!Fav!AddChecked, Page!Fav!Cardinality, Page!Fav!Reply,
         Page!Fav!AddCommitted, Page!Fav!remove_favorite, Page!Fav!Answered, Page!Fav!AfterAnswer,
         Page!Fav!Lost, Page!Fav!clear, Page!Fav!Logout, Page!Fav!AfterLogout,
         Page!Fav!DropTokens, Page!Fav!OpenPage, Page!Fav!ClosePage, Page!Fav!ListingGone,
         Page!Fav!PageLoaded, Page!Fav!AfterFetch
<1>3. Page!Fav!QuietAgrees => Fav!QuietAgrees
  BY DEF Fav!QuietAgrees, Fav!Busy, Fav!Idle, Fav!NoReq, Fav!None, Page!Fav!QuietAgrees,
         Page!Fav!Busy, Page!Fav!Idle, Page!Fav!NoReq, Page!Fav!None
<1> QED
  BY <1>1, <1>2, <1>3

OnHeart == open = "favorites" => Page!HeartInv

LEMMA HeartStep ==
  (Init => OnHeart) /\ (OnHeart /\ [Next]_shell => OnHeart')
<1>1. Init => OnHeart
  BY HeartOf, Page!HeartInit, Constants DEF Init, OnHeart
<1>2. ASSUME OnHeart, [Next]_shell, open' = "favorites" PROVE Page!HeartInv'
  <2>1. open = "favorites" /\ (Fav!Next \/ UNCHANGED <<v1, v2, v3, v4, v5, v6, v7, v8>>)
    BY <1>2 DEF Next, Keeps, shell
  <2> QED
    BY <1>2, <2>1, HeartOf, Page!HeartNext, Page!HeartStill, Constants DEF OnHeart
<1> QED
  BY <1>1, <1>2 DEF OnHeart

LEMMA BookingOf ==
  /\ Rsv!Init => Page!Rsv!Init
  /\ Rsv!Next => Page!Rsv!Next
  /\ Page!Rsv!AcknowledgedIsShown /\ Page!Rsv!FilterFindsLabel => Rsv!AcknowledgedIsShown /\ Rsv!FilterFindsLabel
<1>1. Rsv!Init => Page!Rsv!Init
  BY DEF Rsv!Init, Rsv!build_reservation, Rsv!NoRow, Rsv!None, Rsv!Mounted, Rsv!NoList,
         Rsv!Nothing, Rsv!Free, Rsv!Requested, Page!Rsv!Init, Page!Rsv!build_reservation,
         Page!Rsv!NoRow, Page!Rsv!None, Page!Rsv!Mounted, Page!Rsv!NoList, Page!Rsv!Nothing,
         Page!Rsv!Free, Page!Rsv!Requested
<1>2. Rsv!Next => Page!Rsv!Next
  BY DEF Rsv!Next, Rsv!Press, Rsv!OpenDialog, Rsv!Offered, Rsv!Buttons, Rsv!Ops,
         Rsv!iAlreadyMarked, Rsv!server, Rsv!CloseDialog, Rsv!None, Rsv!ConfirmDialog, Rsv!NoList,
         Rsv!Nothing, Rsv!Send, Rsv!Free, Rsv!PressRow, Rsv!PressMark, Rsv!Loading,
         Rsv!my_reservations, Rsv!Requested, Rsv!Row2Shown, Rsv!Exists, Rsv!ApplyMy, Rsv!Revealed,
         Rsv!ApplyDetails, Rsv!LoadFails, Rsv!get_reservation, Rsv!Reveals, Rsv!DetailFails,
         Rsv!Handle, Rsv!HandleCancel, Rsv!Asked, Rsv!Answer, Rsv!OpenStatuses, Rsv!cancel,
         Rsv!delete_reservation, Rsv!Deleted, Rsv!NoRow, Rsv!mark_outcome, Rsv!FirstMark,
         Rsv!CanCorrect, Rsv!Correct, Rsv!Pay, Rsv!build_reservation, Rsv!CallLost, Rsv!Reply,
         Rsv!ReplyReloads, Rsv!Answered, Rsv!FreeCall, Rsv!StartLoad, Rsv!Told, Rsv!Released,
         Rsv!ReplyDeleted, Rsv!Mounted, Rsv!ReplyUrl, Rsv!ReplyError, Rsv!ReplyUnheard,
         Rsv!Elsewhere, Rsv!Confirm, Rsv!CanConfirm, Rsv!confirm_hold, Rsv!ClosePaymentPage,
         Rsv!Expire, Rsv!Finalize, Rsv!finalize, Page!Rsv!Next, Page!Rsv!Press,
         Page!Rsv!OpenDialog, Page!Rsv!Offered, Page!Rsv!Buttons, Page!Rsv!Ops,
         Page!Rsv!iAlreadyMarked, Page!Rsv!server, Page!Rsv!CloseDialog, Page!Rsv!None,
         Page!Rsv!ConfirmDialog, Page!Rsv!NoList, Page!Rsv!Nothing, Page!Rsv!Send, Page!Rsv!Free,
         Page!Rsv!PressRow, Page!Rsv!PressMark, Page!Rsv!Loading, Page!Rsv!my_reservations,
         Page!Rsv!Requested, Page!Rsv!Row2Shown, Page!Rsv!Exists, Page!Rsv!ApplyMy,
         Page!Rsv!Revealed, Page!Rsv!ApplyDetails, Page!Rsv!LoadFails, Page!Rsv!get_reservation,
         Page!Rsv!Reveals, Page!Rsv!DetailFails, Page!Rsv!Handle, Page!Rsv!HandleCancel,
         Page!Rsv!Asked, Page!Rsv!Answer, Page!Rsv!OpenStatuses, Page!Rsv!cancel,
         Page!Rsv!delete_reservation, Page!Rsv!Deleted, Page!Rsv!NoRow, Page!Rsv!mark_outcome,
         Page!Rsv!FirstMark, Page!Rsv!CanCorrect, Page!Rsv!Correct, Page!Rsv!Pay,
         Page!Rsv!build_reservation, Page!Rsv!CallLost, Page!Rsv!Reply, Page!Rsv!ReplyReloads,
         Page!Rsv!Answered, Page!Rsv!FreeCall, Page!Rsv!StartLoad, Page!Rsv!Told,
         Page!Rsv!Released, Page!Rsv!ReplyDeleted, Page!Rsv!Mounted, Page!Rsv!ReplyUrl,
         Page!Rsv!ReplyError, Page!Rsv!ReplyUnheard, Page!Rsv!Elsewhere, Page!Rsv!Confirm,
         Page!Rsv!CanConfirm, Page!Rsv!confirm_hold, Page!Rsv!ClosePaymentPage, Page!Rsv!Expire,
         Page!Rsv!Finalize, Page!Rsv!finalize
<1>3. Page!Rsv!AcknowledgedIsShown /\ Page!Rsv!FilterFindsLabel => Rsv!AcknowledgedIsShown /\ Rsv!FilterFindsLabel
  BY DEF Rsv!AcknowledgedIsShown, Rsv!Progress, Rsv!FilterFindsLabel, Rsv!getResDisplay,
         Rsv!Nothing, Rsv!None, Rsv!matchesFilter, Rsv!isPaid, Rsv!Revealed,
         Page!Rsv!AcknowledgedIsShown, Page!Rsv!Progress, Page!Rsv!FilterFindsLabel,
         Page!Rsv!getResDisplay, Page!Rsv!Nothing, Page!Rsv!None, Page!Rsv!matchesFilter,
         Page!Rsv!isPaid, Page!Rsv!Revealed
<1> QED
  BY <1>1, <1>2, <1>3

OnBooking == open = "reservations" => Page!BookingInv

LEMMA BookingStep ==
  (Init => OnBooking) /\ (OnBooking /\ [Next]_shell => OnBooking')
<1>1. Init => OnBooking
  BY BookingOf, Page!BookingInit DEF Init, OnBooking
<1>2. ASSUME OnBooking, [Next]_shell, open' = "reservations" PROVE Page!BookingInv'
  <2>1. open = "reservations" /\ (Rsv!Next \/ UNCHANGED <<v1, v2, v3, v4, v5, v6, v7, v8>>)
    BY <1>2 DEF Next, Keeps, shell
  <2> QED
    BY <1>2, <2>1, BookingOf, Page!BookingNext, Page!BookingStill DEF OnBooking
<1> QED
  BY <1>1, <1>2 DEF OnBooking

LEMMA CarOf ==
  /\ Car!Init => CarP!Init
  /\ Car!Next => CarP!Next
  /\ CarP!LinkIsOwn => Car!LinkIsOwn
<1>1. Car!Init => CarP!Init
  BY DEF Car!Init, Car!NoRow, Car!None, Car!Mounted, Car!NoCall, Car!Away, CarP!Init, CarP!NoRow,
         CarP!None, CarP!Mounted, CarP!NoCall, CarP!Away
<1>2. Car!Next => CarP!Next
  BY DEF Car!Next, Car!Reload, Car!Mounted, Car!None, Car!server, Car!LoadCar, Car!mapStatus,
         Car!LoadWindows, Car!TogglePanel, Car!SelectWindow, Car!FormShown, Car!handleReserve,
         Car!NoCall, Car!payLater, Car!ReturnRead, Car!ReturnLookup, Car!ReturnConfirm,
         Car!LeaveReturn, Car!Shows, Car!Away, Car!Handle, Car!ReserveInsert, Car!Answer,
         Car!OpenRows, Car!Open, Car!Resumable, Car!MayInsert, Car!TakenWindows, Car!Inserted,
         Car!NoRow, Car!CreateHold, Car!GiveUp, Car!SaveHold, Car!FindPayment,
         Car!ReserveAnswered, Car!Answers, Car!AfterReserve, Car!CallLost, Car!Pay,
         Car!PaymentExpires, Car!on_hold_confirmed, Car!Close, Car!Outcome, Car!Archive,
         CarP!Next, CarP!Reload, CarP!Mounted, CarP!None, CarP!server, CarP!LoadCar,
         CarP!mapStatus, CarP!LoadWindows, CarP!TogglePanel, CarP!SelectWindow, CarP!FormShown,
         CarP!handleReserve, CarP!NoCall, CarP!payLater, CarP!ReturnRead, CarP!ReturnLookup,
         CarP!ReturnConfirm, CarP!LeaveReturn, CarP!Shows, CarP!Away, CarP!Handle,
         CarP!ReserveInsert, CarP!Answer, CarP!OpenRows, CarP!Open, CarP!Resumable,
         CarP!MayInsert, CarP!TakenWindows, CarP!Inserted, CarP!NoRow, CarP!CreateHold,
         CarP!GiveUp, CarP!SaveHold, CarP!FindPayment, CarP!ReserveAnswered, CarP!Answers,
         CarP!AfterReserve, CarP!CallLost, CarP!Pay, CarP!PaymentExpires, CarP!on_hold_confirmed,
         CarP!Close, CarP!Outcome, CarP!Archive
<1>3. CarP!LinkIsOwn => Car!LinkIsOwn
  BY DEF Car!LinkIsOwn, Car!None, CarP!LinkIsOwn, CarP!None
<1> QED
  BY <1>1, <1>2, <1>3

OnCar == open = "car" => CarP!IInv /\ CarP!Owned

LEMMA CarStep == (Init => OnCar) /\ (OnCar /\ [Next]_shell => OnCar')
<1>1. Init => OnCar
  BY CarOf, CarP!InitIInv, CarP!OwnedInit DEF Init, OnCar
<1>2. ASSUME OnCar, [Next]_shell, open' = "car" PROVE (CarP!IInv /\ CarP!Owned)'
  <2>1. open = "car" /\ (Car!Next \/ UNCHANGED <<v1, v2, v3, v4, v5, v6, v7, v8, v9>>)
    BY <1>2 DEF Next, Keeps, shell
  <2>2. [CarP!Next]_CarP!vars
    BY <2>1, CarOf DEF CarP!vars, CarP!server
  <2> QED
    BY <1>2, <2>1, <2>2, CarP!Step, CarP!OwnedStep DEF OnCar
<1> QED
  BY <1>1, <1>2 DEF OnCar

(* CarDetailPage: a buyer is only offered the payment link of the reservation made for him, though  *)
(* reserve answers a repeated request with the link of a reservation it finds.                      *)
THEOREM LinksAreOwn == Spec => []LinkIsOwn
<1>1. OnCar => LinkIsOwn
  BY CarOf DEF OnCar, CarP!Owned, CarP!Holds, CarP!LinkIsOwn, LinkIsOwn
<1> QED
  BY <1>1, CarStep, PTL DEF Spec

(* CreateListingPage: the brand, model and modification chosen are of one car while no level is     *)
(* asked for twice at once, in whatever order the catalog answers.                                  *)
THEOREM ChoicesAreOneCar ==
  Spec => []OneCar
<1>1. Init => OnChoice
  BY ChoiceStep
<1>2. OnChoice /\ [Next]_shell => OnChoice'
  BY ChoiceStep
<1>3. OnChoice => OneCar
  BY Page!ChoiceSays, ChoiceOf DEF OneCar, OnChoice, Page!Cho!OneCar
<1> QED
  BY <1>1, <1>2, <1>3, PTL DEF Spec

(* NotificationBell: a bell counts or draws every notification that is not read, though two bells   *)
(* load and mark at once.                                                                           *)
THEOREM BellsHideNothing ==
  Spec => []NothingHidden
<1>1. Init => OnBell
  BY BellStep
<1>2. OnBell /\ [Next]_shell => OnBell'
  BY BellStep
<1>3. OnBell => NothingHidden
  BY Page!BellSays, BellOf DEF NothingHidden, OnBell
<1> QED
  BY <1>1, <1>2, <1>3, PTL DEF Spec

(* Header and ProfilePage: the two copies of who is signed in agree when both are loaded.           *)
THEOREM HeaderAndPageAgree ==
  Spec => []HeaderAgrees
<1>1. Init => OnAcc
  BY AccStep
<1>2. OnAcc /\ [Next]_shell => OnAcc'
  BY AccStep
<1>3. OnAcc => HeaderAgrees
  BY Page!AccSays, AccOf, Constants DEF HeaderAgrees, OnAcc
<1> QED
  BY <1>1, <1>2, <1>3, PTL DEF Spec

(* PhoneVerification: a card that says the phone is verified is right, whichever tab changed it.    *)
THEOREM DoneMeansVerified ==
  Spec => []DoneIsVerified
<1>1. Init => OnPhone
  BY PhoneStep
<1>2. OnPhone /\ [Next]_shell => OnPhone'
  BY PhoneStep
<1>3. OnPhone => DoneIsVerified
  BY Page!PhoneSays, PhoneOf DEF DoneIsVerified, OnPhone
<1> QED
  BY <1>1, <1>2, <1>3, PTL DEF Spec

(* CreateListingPage, new listing and edit: what the page says of a listing is so.  A photo that    *)
(* did not arrive is told of, one no longer drawn is deleted, what is said to be submitted is in    *)
(* review with what it needs, and a refused update changes nothing.                                 *)
THEOREM PagesAreRight ==
  Spec => []PageIsRight
<1>1. Init => OnNew /\ OnEdit
  BY NewStep, EditStep
<1>2. OnNew /\ OnEdit /\ [Next]_shell => (OnNew /\ OnEdit)'
  BY NewStep, EditStep
<1>3. OnNew /\ OnEdit => PageIsRight
  BY Page!NewSays, NewOf, Page!EditSays, EditOf, Constants DEF PageIsRight, OnNew, OnEdit
<1> QED
  BY <1>1, <1>2, <1>3, PTL DEF Spec

(* TicketsTab of the user and the form of CarsTab: what is written goes to the ticket or the        *)
(* listing that was on screen when it was sent.                                                     *)
THEOREM WritesGoWhereMeant ==
  ASSUME Page!WholeAnswers
  PROVE  Spec => []WritesWhereMeant
<1>1. Init => OnTicket /\ OnForm
  BY TicketStep, FormStep
<1>2. OnTicket /\ OnForm /\ [Next]_shell => (OnTicket /\ OnForm)'
  BY TicketStep, FormStep
<1>3. OnTicket /\ OnForm => WritesWhereMeant
  BY Page!TicketSays, TicketOf, Page!FormSays, FormOf, Constants
     DEF WritesWhereMeant, OnTicket, OnForm, Page!TicketInv
<1> QED
  BY <1>1, <1>2, <1>3, PTL DEF Spec

(* FavoritesContext: when nothing is under way and no request failed or overlapped, the hearts drawn *)
(* are the favorites of the account.                                                                *)
THEOREM HeartsAgree ==
  Spec => []QuietAgrees
<1>1. Init => OnHeart
  BY HeartStep
<1>2. OnHeart /\ [Next]_shell => OnHeart'
  BY HeartStep
<1>3. OnHeart => QuietAgrees
  BY Page!HeartSays, HeartOf, Constants DEF QuietAgrees, OnHeart
<1> QED
  BY <1>1, <1>2, <1>3, PTL DEF Spec

(* ReservationsTab: a cancellation or a mark the page was told of is in the rows it draws, unless    *)
(* load() overlapped itself; and a row is found under the filter that has the name of its label.    *)
THEOREM DoneIsShown ==
  Spec => []AcknowledgedIsShown
<1>1. Init => OnBooking
  BY BookingStep
<1>2. OnBooking /\ [Next]_shell => OnBooking'
  BY BookingStep
<1>3. OnBooking => AcknowledgedIsShown
  BY Page!BookingSays, BookingOf DEF AcknowledgedIsShown, OnBooking
<1> QED
  BY <1>1, <1>2, <1>3, PTL DEF Spec

(* AiPage: an answer shown to the end is saved, unless its conversation was deleted or its question *)
(* refused; and what is shown, or kept to be shown again, is of the conversation it is shown under. *)
THEOREM AnswersAreKept ==
  ASSUME Page!AnswersSaved
  PROVE  Spec => []WholeIsSaved
<1>1. Init => OnChat
  BY ChatStep
<1>2. OnChat /\ [Next]_shell => OnChat'
  BY ChatStep
<1>3. OnChat => WholeIsSaved
  BY Page!ChatSays, ChatOf DEF WholeIsSaved, OnChat
<1> QED
  BY <1>1, <1>2, <1>3, PTL DEF Spec
=============================================================================
