------------------------------- MODULE AiChat --------------------------------
(***************************************************************************)
(* AiPage: the conversations of a user with the assistant.  A turn is a     *)
(* question and its answer, which a stream brings; the server makes the     *)
(* conversation, saves the question, and the answer before it says that it  *)
(* is done.  The page keeps the conversations it showed in _convCache.      *)
(* Turns and conversations are numbered in the order they are made.         *)
(***************************************************************************)
EXTENDS Naturals, Sequences, FiniteSets

CONSTANTS
  Turns,   \* 1..n: how many questions are asked
  Convs,   \* 1..n: how many conversations may be made
  Acts     \* "cancel", "fail", "fallback", "delete", "reject", "cars", "return", "tools",
           \* "left": what happens in a run

VARIABLES
  db,     \* db[c]: the turns saved of the conversation
  made,   \* the conversations made so far, deleted ones included
  job,    \* job[t]: the stream of the turn
  page,   \* the state of AiPage
  cache,  \* _convCache
  del,    \* the deletions under way, each failed or not
  told,   \* history: the conversations said to be deleted
  left,   \* history: left[c]: what was shown of c when it was left
  mixed   \* history: a conversation was opened, or a question asked, while something was under
          \* way, or the first answer of one did not come

vars == <<db, made, job, page, cache, del, told, left, mixed>>

None == 0
Rows(ts) == {ts[i].t : i \in DOMAIN ts}
Exists(c) == c \in made /\ db[c] # <<>>
NoJob == [stage |-> "idle", to |-> None, conv |-> None, heard |-> FALSE, saved |-> FALSE]
Turn(t, answer) == [t |-> t, answer |-> answer, cars |-> FALSE]

Init ==
  /\ db = [c \in Convs |-> <<>>] /\ made = {}
  /\ job = [t \in Turns |-> NoJob]
  /\ page = [messages |-> <<>>, active |-> None, streaming |-> FALSE, loads |-> {}, loading |-> FALSE]
  /\ cache = [c \in Convs |-> <<>>]
  /\ del = {} /\ told = {}
  /\ left = [c \in Convs |-> <<>>] /\ mixed = FALSE

Asked == {t \in Turns : job[t] # NoJob}
Marked(messages, t, answer) ==
  [i \in DOMAIN messages |-> IF messages[i].t = t THEN [messages[i] EXCEPT !.answer = answer] ELSE messages[i]]

\* What is under way when another conversation is opened.
Busy == page.streaming \/ page.loads # {} \/ \E t \in Turns : job[t].stage \in {"sent", "open", "cars"}
Leaves(c) ==
  /\ left' = IF "left" \in Acts /\ page.active # None /\ c # page.active
             THEN [left EXCEPT ![page.active] = page.messages] ELSE left
  /\ mixed' = (mixed \/ Busy)

sendMessage(t) ==
  /\ ~page.streaming /\ t \notin Asked /\ \A u \in Turns : u < t => u \in Asked
  /\ page' = [page EXCEPT !.messages = Append(@, Turn(t, "streaming")), !.streaming = TRUE]
  /\ job' = [job EXCEPT ![t] = [NoJob EXCEPT !.stage = "sent", !.to = page.active, !.heard = TRUE]]
  /\ mixed' = (mixed \/ page.loads # {} \/ del # {})
  /\ UNCHANGED <<db, made, cache, del, told, left>>

\* stream_ai_response: the question is saved in its conversation, or in a new one.
HomeOf(t) == IF job[t].to # None /\ Exists(job[t].to) THEN job[t].to ELSE 1 + Cardinality(made)
load_or_create_conversation(t) ==
  /\ job[t].stage = "sent" /\ HomeOf(t) \in Convs
  /\ made' = made \cup {HomeOf(t)}
  /\ db' = [db EXCEPT ![HomeOf(t)] = Append(@, Turn(t, "none"))]
  /\ job' = [job EXCEPT ![t].stage = "open", ![t].conv = HomeOf(t)]
  /\ UNCHANGED <<page, cache, del, told, left, mixed>>

\* sanitize refuses the question: it is answered, and nothing is saved.
rejected(t) ==
  /\ "reject" \in Acts /\ job[t].stage = "sent"
  /\ job' = [job EXCEPT ![t].stage = "done"]
  /\ UNCHANGED <<db, made, page, cache, del, told, left, mixed>>

\* The answer is saved with its calls of tools, then said to be done; a client that hung up may
\* stop it before.  Two calls are saved at once in one session, which refuses: nothing is saved,
\* and the answer is done all the same.
SavesBug(t, tools) == FALSE
Saves(t, tools) == Exists(job[t].conv) /\ tools < 2
answered(t) ==
  /\ job[t].stage = "open"
  /\ \E tools \in IF "tools" \in Acts THEN 0..2 ELSE {0} :
     \E saved \in {Saves(t, tools)} \cup (IF job[t].heard THEN {} ELSE {FALSE}) :
       /\ db' = IF saved THEN [db EXCEPT ![job[t].conv] = Marked(@, t, "whole")] ELSE db
       /\ job' = [job EXCEPT ![t].stage = IF job[t].heard THEN "done" ELSE "over", ![t].saved = saved]
  /\ UNCHANGED <<made, page, cache, del, told, left, mixed>>

\* The model cannot be reached: an answer that says so, and is not saved.
fallback(t) ==
  /\ "fallback" \in Acts /\ job[t].stage = "open"
  /\ job' = [job EXCEPT ![t].stage = IF job[t].heard THEN "done" ELSE "over"]
  /\ UNCHANGED <<db, made, page, cache, del, told, left, mixed>>

\* The request is refused or the stream breaks off; an aborted one may not have come at all.
Fails(t) ==
  /\ "fail" \in Acts \/ ~job[t].heard
  /\ job[t].stage \in {"sent", "open"}
  /\ job' = [job EXCEPT ![t].stage = IF job[t].heard THEN "error" ELSE "over"]
  /\ UNCHANGED <<db, made, page, cache, del, told, left, mixed>>

\* onDone: the turn is marked in the messages shown, and these become what the cache holds of
\* the conversation of the stream.
Cid(t) == IF job[t].conv # None THEN job[t].conv ELSE job[t].to
Active(t) == IF job[t].conv # None /\ job[t].to = None THEN job[t].conv ELSE page.active
onDone(t) ==
  LET shown == Marked(page.messages, t, "whole")
  IN /\ job[t].stage = "done" /\ job[t].heard
     /\ page' = [page EXCEPT !.messages = shown, !.active = Active(t), !.streaming = FALSE]
     /\ cache' = IF Cid(t) # None THEN [cache EXCEPT ![Cid(t)] = shown] ELSE cache
     /\ \E stage \in {"over"} \cup (IF "cars" \in Acts /\ job[t].saved THEN {"cars"} ELSE {}) :
          job' = [job EXCEPT ![t].stage = stage]
     /\ UNCHANGED <<db, made, del, told, left, mixed>>

\* loadPreviews: the cars of the answer go into the messages shown, and these into the cache.
WithCars(messages, t) ==
  [i \in DOMAIN messages |-> IF messages[i].t = t THEN [messages[i] EXCEPT !.cars = TRUE] ELSE messages[i]]
loadPreviews(t) ==
  /\ job[t].stage = "cars"
  /\ page' = [page EXCEPT !.messages = WithCars(@, t)]
  /\ cache' = [cache EXCEPT ![Cid(t)] = WithCars(page.messages, t)]
  /\ job' = [job EXCEPT ![t].stage = "over"]
  /\ UNCHANGED <<db, made, del, told, left, mixed>>

onErrorBug(t) ==
  /\ job[t].stage = "error"
  /\ page' = [page EXCEPT !.messages = Marked(@, t, "error")]
  /\ job' = [job EXCEPT ![t].stage = "over"]
  /\ mixed' = (mixed \/ job[t].to = None)
  /\ UNCHANGED <<db, made, cache, del, told, left>>
onError(t) ==
  /\ job[t].stage = "error"
  /\ page' = [page EXCEPT !.messages = Marked(@, t, "error"), !.streaming = FALSE]
  /\ job' = [job EXCEPT ![t].stage = "over"]
  /\ mixed' = (mixed \/ job[t].to = None)
  /\ UNCHANGED <<db, made, cache, del, told, left>>

\* The stream is aborted; its question stays with what came of the answer.
cancelStream(t) ==
  /\ "cancel" \in Acts /\ page.streaming /\ job[t].heard /\ job[t].stage \in {"sent", "open", "done", "error"}
  /\ page' = [page EXCEPT !.streaming = FALSE,
                !.messages = [i \in DOMAIN @ |-> IF @[i].answer = "streaming"
                                                 THEN [@[i] EXCEPT !.answer = "part"] ELSE @[i]]]
  /\ job' = [job EXCEPT ![t].heard = FALSE, ![t].stage = IF @ \in {"done", "error"} THEN "over" ELSE @]
  /\ mixed' = (mixed \/ job[t].to = None)
  /\ UNCHANGED <<db, made, cache, del, told, left>>

\* The conversations of the sidebar: those made that were not removed from it.
Listed == {c \in made : c \notin told}
loadConversation(c) ==
  /\ c \in Listed
  /\ page' = IF cache[c] # <<>> THEN [page EXCEPT !.messages = cache[c], !.active = c]
             ELSE [page EXCEPT !.loads = @ \cup {c}, !.loading = TRUE]
  /\ Leaves(c)
  /\ UNCHANGED <<db, made, job, cache, del, told>>

\* Its messages as they are saved; an answer that was not saved has no message.
Saved(c) == [i \in DOMAIN db[c] |-> IF db[c][i].answer = "none" THEN db[c][i] ELSE [db[c][i] EXCEPT !.cars = "cars" \in Acts]]
loaded(c) ==
  /\ c \in page.loads
  /\ LET shown == Saved(c)
     IN IF Exists(c)
        THEN /\ page' = [page EXCEPT !.messages = shown, !.active = c, !.loads = @ \ {c}, !.loading = FALSE]
             /\ cache' = [cache EXCEPT ![c] = shown]
        ELSE /\ page' = [page EXCEPT !.loads = @ \ {c}, !.loading = FALSE]
             /\ UNCHANGED cache
  /\ UNCHANGED <<db, made, job, del, told, left, mixed>>
notLoaded(c) ==
  /\ "fail" \in Acts /\ c \in page.loads
  /\ page' = [page EXCEPT !.loads = @ \ {c}, !.loading = FALSE]
  /\ UNCHANGED <<db, made, job, cache, del, told, left, mixed>>

Emptied == [page EXCEPT !.messages = <<>>, !.active = None]
startNewConversation ==
  /\ page.messages # <<>>
  /\ page' = Emptied
  /\ Leaves(None)
  /\ UNCHANGED <<db, made, job, cache, del, told>>

\* The tab is loaded again: the cache is lost, and the conversation of the query is opened.
Reloaded ==
  /\ "return" \in Acts /\ ~Busy /\ page.active # None
  /\ page' = [Emptied EXCEPT !.loads = {page.active}, !.loading = TRUE]
  /\ cache' = [c \in Convs |-> <<>>]
  /\ UNCHANGED <<db, made, job, del, told, left, mixed>>

\* A deletion is asked for, made or refused by the server, and said to be done either way.
onDelete(c) ==
  /\ "delete" \in Acts /\ c \in Listed /\ \A d \in del : d.conv # c
  /\ del' = del \cup {[conv |-> c, sent |-> TRUE, shown |-> page.active]}
  /\ mixed' = (mixed \/ Busy)
  /\ UNCHANGED <<db, made, job, page, cache, told, left>>
delete_conversation(d) ==
  /\ d \in del /\ d.sent
  /\ \E ok \in {TRUE} \cup (IF "fail" \in Acts THEN {FALSE} ELSE {}) :
       db' = IF ok THEN [db EXCEPT ![d.conv] = <<>>] ELSE db
  /\ del' = (del \ {d}) \cup {[d EXCEPT !.sent = FALSE]}
  /\ UNCHANGED <<made, job, page, cache, told, left, mixed>>
handleDeleteConversation(d) ==
  /\ d \in del /\ ~d.sent
  /\ del' = del \ {d}
  /\ told' = told \cup {d.conv}
  /\ page' = IF d.shown = d.conv THEN Emptied ELSE page
  /\ mixed' = (mixed \/ Busy \/ page.active # d.shown)
  /\ UNCHANGED <<db, made, job, cache, left>>

Streams(t) ==
  \/ load_or_create_conversation(t) \/ rejected(t) \/ answered(t) \/ fallback(t) \/ onDone(t) \/ loadPreviews(t)
  \/ onError(t)
Next ==
  \/ \E t \in Turns : sendMessage(t) \/ Streams(t) \/ Fails(t) \/ cancelStream(t)
  \/ \E c \in Convs : loadConversation(c) \/ loaded(c) \/ notLoaded(c) \/ onDelete(c)
  \/ \E d \in del : delete_conversation(d) \/ handleDeleteConversation(d)
  \/ startNewConversation \/ Reloaded

Spec == Init /\ [][Next]_vars

-----------------------------------------------------------------------------
(* Every variable has its type, and a question is saved in one conversation at most.              *)
Shown == [t : Turns, answer : {"streaming", "whole", "part", "error", "none"}, cars : BOOLEAN]
TypeOK ==
  /\ db \in [Convs -> Seq([t : Turns, answer : {"none", "whole"}, cars : {FALSE}])]
  /\ made = 1..Cardinality(made) /\ made \subseteq Convs
  /\ page.messages \in Seq(Shown) /\ page.active \in {None} \cup made
  /\ page.streaming \in BOOLEAN /\ page.loads \subseteq made
  /\ \A t \in Turns : job[t].stage \in {"idle", "sent", "open", "done", "cars", "error", "over"}
  /\ \A c \in Convs : cache[c] \in Seq(Shown)
  /\ \A c, d \in Convs : c # d => Rows(db[c]) \cap Rows(db[d]) = {}

Own(c, t) == job[t].conv = c \/ (job[t].conv = None /\ job[t].to \in {c, None})

(* As long as nothing is opened or asked while an answer, its cars, a load or a deletion is under *)
(* way, and every new conversation gets its first answer, the page shows turns of the active           *)
(* conversation only and the cache holds those of its own (onDone, loadPreviews, loadConversation). *)
NothingForeign ==
  ~mixed =>
    /\ page.active # None => \A t \in Rows(page.messages) : Own(page.active, t)
    /\ \A c \in Convs : \A t \in Rows(cache[c]) : Own(c, t)

(* An answer the page has shown to the end is saved, unless the conversation was deleted or the   *)
(* question refused: the answer is committed before it is said to be done (stream_ai_response).   *)
WholeIsSaved ==
  \A i \in DOMAIN page.messages :
    LET t == page.messages[i].t
    IN (page.messages[i].answer = "whole" /\ job[t].conv # None /\ Exists(job[t].conv)
          /\ \A d \in del : d.conv # job[t].conv) =>
         \E j \in DOMAIN db[job[t].conv] : db[job[t].conv][j].t = t /\ db[job[t].conv][j].answer = "whole"

-----------------------------------------------------------------------------
(* What the code, its texts or its tests say and a behaviour refutes: see the README.            *)

(* An answer shown to the end is saved, when "tools" are among Acts too.                         *)
AnswerSurvives == WholeIsSaved

(* What the cache holds of a conversation is of that conversation.                               *)
CacheIsOwn == \A c \in Convs : \A t \in Rows(cache[c]) : Own(c, t)

(* The conversation of the address is the one shown.                                             *)
ShownIsActive ==
  page.active # None => \A t \in Rows(page.messages) : Own(page.active, t)

(* Going back to a conversation of the cache shows it as it was left.                            *)
RestoresExact ==
  [][\A c \in Convs : (loadConversation(c) /\ page.active # c /\ cache[c] # <<>> /\ left[c] # <<>>) =>
       page'.messages = left[c]]_vars

(* The questions shown one below the other are of one conversation.                              *)
OneThread ==
  \A t, u \in Rows(page.messages) : (job[t].conv # None /\ job[u].conv # None) => job[t].conv = job[u].conv

(* A conversation said to be deleted is deleted.                                                 *)
SaidDeletedIsGone == \A c \in told : ~Exists(c)
=============================================================================
