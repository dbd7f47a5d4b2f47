------------------------------ MODULE PageProofs ------------------------------
(***************************************************************************)
(* Proofs about the pages of the client one by one, for any number of rows, *)
(* photos, notifications and requests under way, on the variables that      *)
(* ClientPages gives a page.  Each page has a section: its invariant, one   *)
(* lemma per group of its actions, and what the invariant says.  A page is  *)
(* instanced where its section begins: the provers see what was declared    *)
(* before a step, and no more.  ClientPagesProofs states the theorems.      *)
(***************************************************************************)
EXTENDS Integers, Sequences, FiniteSets, FiniteSetTheorems, SequenceTheorems, TLAPS

CONSTANTS X, Y, C, Numbers, Acts, MaxFaults
VARIABLES v1, v2, v3, v4, v5, v6, v7, v8, v9, v10, v11, v12, v13

\* What the lemmas suppose of the constants, where they do: the name for nothing is not one
\* of a row,
NamesApart == "none" \notin X
\* there are so many photos and listings,
NumbersFinite == IsFiniteSet(Numbers)
\* no request for the full VIN fails, in whose place the masked one would come,
WholeAnswers == "masked" \notin Acts.form
\* and no answer of the assistant is told that is not saved (the two ways there are to it).
AnswersSaved == {"tools", "fallback"} \cap Acts.chat = {}

-----------------------------------------------------------------------------
(* The assistant: v1 what is saved, v2 the conversations made, v3 the streams, v4 the page, *)
(* v5 the cache, v6 the deletions under way, v7 those told of, v8 what was shown of a       *)
(* conversation when it was left, v9 whether something was opened or asked meanwhile.       *)
Chat == INSTANCE AiChat WITH
  Turns <- {1, 2}, Convs <- {1, 2}, Acts <- Acts.chat,
  db <- v1, made <- v2, job <- v3, page <- v4, cache <- v5, del <- v6, told <- v7, left <- v8,
  mixed <- v9
ChatRows == [t : {1, 2}, answer : {"none", "whole"}, cars : {FALSE}]
ChatShown == [t : {1, 2}, answer : {"streaming", "whole", "part", "error", "none"}, cars : BOOLEAN]
ChatJobs == [stage : {"idle", "sent", "open", "done", "cars", "error", "over"}, to : {0, 1, 2}, conv : {0, 1, 2},
             heard : BOOLEAN, saved : BOOLEAN]
ChatPages == [messages : Seq(ChatShown), active : {0, 1, 2}, streaming : BOOLEAN, loads : SUBSET {1, 2},
              loading : BOOLEAN]
ChatDels == [conv : {1, 2}, sent : BOOLEAN, shown : {0, 1, 2}]

ChatTyped ==
  /\ v1 \in [{1, 2} -> Seq(ChatRows)] /\ v2 \in {{}, {1}, {1, 2}} /\ v3 \in [{1, 2} -> ChatJobs]
  /\ v4 \in ChatPages /\ v4.active \in {0} \cup v2 /\ v4.loads \subseteq v2
  /\ v5 \in [{1, 2} -> Seq(ChatShown)]
  /\ v6 \subseteq ChatDels /\ (\A d \in v6 : d.conv \in v2) /\ v9 \in BOOLEAN

\* The page waits for the stream; it is the only one.
Live(t) == v3[t].heard /\ v3[t].stage \in {"sent", "open", "done", "error"}
JobFits(t) ==
  /\ v3[t].stage = "idle" => v3[t] = Chat!NoJob
  /\ v3[t].stage = "sent" => v3[t].conv = 0
  /\ v3[t].stage = "error" => v3[t].heard
  /\ v3[t].conv # 0 => v3[t].conv \in v2
  /\ v3[t].saved => v3[t].conv # 0
  /\ v3[t].stage = "open" =>
       /\ v3[t].conv # 0
       /\ v1[v3[t].conv] # <<>> => \E j \in DOMAIN v1[v3[t].conv] : v1[v3[t].conv][j].t = t
  /\ Live(t) => v4.streaming
OneLive == \A t, u \in {1, 2} : Live(t) /\ Live(u) => t = u

\* An answer that is told to the end is saved, unless its conversation was deleted.
TurnEnded(t) == v3[t].stage \in {"done", "cars", "over"}
Kept(t) ==
  v3[t].conv # 0 /\ v1[v3[t].conv] # <<>> =>
    \E j \in DOMAIN v1[v3[t].conv] : v1[v3[t].conv][j].t = t /\ v1[v3[t].conv][j].answer = "whole"
WholeKept(list) ==
  \A i \in DOMAIN list :
    /\ v3[list[i].t].stage # "idle"
    /\ list[i].answer = "whole" => TurnEnded(list[i].t) /\ Kept(list[i].t)
RowsAtHome ==
  \A c \in {1, 2} :
    /\ c \notin v2 => v1[c] = <<>>
    /\ \A i \in DOMAIN v1[c] : v3[v1[c][i].t].conv = c /\ (v1[c][i].answer = "whole" => TurnEnded(v1[c][i].t))
TellsWhole ==
  /\ WholeKept(v4.messages) /\ \A c \in {1, 2} : WholeKept(v5[c])
  /\ \A t \in {1, 2} : v3[t].stage = "done" /\ v3[t].heard => Kept(t)

\* While nothing is opened or asked meanwhile, turns go to the conversation shown.
OwnTurn(c, t) == v3[t].conv = c \/ (v3[t].conv = 0 /\ v3[t].to \in {c, 0})
Working == \E t \in {1, 2} : Live(t) \/ v3[t].stage \in {"sent", "open", "cars"}
TurnFits(t) ==
  /\ Live(t) => v3[t].to = v4.active
  /\ v3[t].stage \in {"sent", "open"} /\ ~v3[t].heard => v3[t].to # 0
  /\ v3[t].stage = "sent" /\ v3[t].to = 0 => \A c \in {1, 2} : \A i \in DOMAIN v5[c] : v5[c][i].t # t
  /\ v3[t].stage = "sent" /\ v3[t].to # 0 => v1[v3[t].to] # <<>>
  /\ v3[t].to # 0 /\ v3[t].conv # 0 => v3[t].conv = v3[t].to
  /\ v3[t].stage = "cars" => v4.active # 0 /\ Chat!Cid(t) = v4.active
  /\ Live(t) /\ v3[t].conv # 0 => v1[v3[t].conv] # <<>>
ShownOwn ==
  /\ \A i \in DOMAIN v4.messages :
       IF v4.active # 0 THEN OwnTurn(v4.active, v4.messages[i].t)
       ELSE LET t == v4.messages[i].t IN v3[t].to = 0 /\ (v3[t].conv = 0 \/ Live(t))
  /\ \A c \in {1, 2} : \A i \in DOMAIN v5[c] : OwnTurn(c, v5[c][i].t)
OneThing ==
  /\ v4.loads # {} \/ v6 # {} => ~Working
  /\ v4.active # 0 => v1[v4.active] # <<>> \/ \E d \in v6 : d.conv = v4.active
Deleted == \A c \in v2 : v1[c] = <<>> => c \in v7 \/ \E d \in v6 : d.conv = c

ChatInv ==
  /\ ChatTyped /\ (\A t \in {1, 2} : JobFits(t)) /\ OneLive /\ RowsAtHome /\ TellsWhole /\ Deleted
  /\ ~v9 => (\A t \in {1, 2} : TurnFits(t)) /\ ShownOwn /\ OneThing

LEMMA ChatSorts ==
  /\ Chat!None = 0 /\ Chat!NoJob \in ChatJobs /\ Chat!NoJob.stage = "idle" /\ Chat!NoJob.to = 0
  /\ Chat!NoJob.conv = 0 /\ ~Chat!NoJob.heard /\ ~Chat!NoJob.saved
BY DEF Chat!None, Chat!NoJob, ChatJobs

LEMMA ChatFields ==
  ASSUME ChatInv
  PROVE  /\ v1 \in [{1, 2} -> Seq(ChatRows)] /\ v2 \in {{}, {1}, {1, 2}} /\ v3 \in [{1, 2} -> ChatJobs]
         /\ \A t \in {1, 2} : v3[t].to \in {0, 1, 2} /\ v3[t].conv \in {0, 1, 2}
         /\ v4 \in ChatPages /\ v4.messages \in Seq(ChatShown) /\ v4.active \in {0} \cup v2
         /\ v4.streaming \in BOOLEAN /\ v4.loads \subseteq v2 /\ v4.loading \in BOOLEAN
         /\ v5 \in [{1, 2} -> Seq(ChatShown)]
         /\ v6 \subseteq ChatDels /\ (\A d \in v6 : d.conv \in v2) /\ v9 \in BOOLEAN
BY DEF ChatInv, ChatTyped, ChatPages, ChatJobs

LEMMA ChatListed ==
  ASSUME ChatInv
  PROVE  /\ \A i \in DOMAIN v4.messages : v4.messages[i] \in ChatShown /\ v4.messages[i].t \in {1, 2}
         /\ \A c \in {1, 2} : \A i \in DOMAIN v5[c] : v5[c][i] \in ChatShown /\ v5[c][i].t \in {1, 2}
         /\ \A c \in {1, 2} : \A i \in DOMAIN v1[c] : v1[c][i] \in ChatRows /\ v1[c][i].t \in {1, 2}
<1>1. \A list \in Seq(ChatShown) : \A i \in DOMAIN list : list[i] \in ChatShown /\ list[i].t \in {1, 2}
  <2>1. \A list \in Seq(ChatShown) : \A i \in DOMAIN list : list[i] \in ChatShown
    OBVIOUS
  <2> QED
    BY <2>1 DEF ChatShown
<1>2. \A list \in Seq(ChatRows) : \A i \in DOMAIN list : list[i] \in ChatRows /\ list[i].t \in {1, 2}
  <2>1. \A list \in Seq(ChatRows) : \A i \in DOMAIN list : list[i] \in ChatRows
    OBVIOUS
  <2> QED
    BY <2>1 DEF ChatRows
<1> QED
  BY <1>1, <1>2, ChatFields

LEMMA ChatExists == ASSUME ChatInv, NEW c \in {1, 2} PROVE Chat!Exists(c) <=> v1[c] # <<>>
BY DEF Chat!Exists, ChatInv, RowsAtHome

LEMMA ChatBusy == ASSUME ChatInv PROVE Chat!Busy <=> v4.streaming \/ v4.loads # {} \/ Working
<1>1. \A t \in {1, 2} : Live(t) => v4.streaming
  BY DEF ChatInv, JobFits
<1> QED
  BY <1>1 DEF Chat!Busy, Working

\* A list drawn anew, entry by entry.
LEMMA ChatMaps ==
  ASSUME NEW S, NEW s \in Seq(S), NEW f, DOMAIN f = DOMAIN s, f = [i \in DOMAIN f |-> f[i]],
         \A i \in DOMAIN s : f[i] \in S
  PROVE  f \in Seq(S) /\ Len(f) = Len(s) /\ (f = <<>> <=> s = <<>>)
<1>1. Len(s) \in Nat /\ DOMAIN s = 1..Len(s)
  OBVIOUS
<1>2. f \in [1..Len(s) -> S]
  BY <1>1
<1>3. f \in Seq(S) /\ Len(f) = Len(s)
  BY <1>1, <1>2
<1> QED
  BY <1>1, <1>3

LEMMA ChatInit == Chat!Init => ChatInv
<1> SUFFICES ASSUME Chat!Init PROVE ChatInv
  OBVIOUS
<1>1. /\ v1 = [c \in {1, 2} |-> <<>>] /\ v2 = {} /\ v3 = [t \in {1, 2} |-> Chat!NoJob]
      /\ v4 = [messages |-> <<>>, active |-> 0, streaming |-> FALSE, loads |-> {}, loading |-> FALSE]
      /\ v5 = [c \in {1, 2} |-> <<>>] /\ v6 = {} /\ v9 = FALSE
  BY ChatSorts DEF Chat!Init
<1>2. ChatTyped
  <2>1. <<>> \in Seq(ChatRows) /\ <<>> \in Seq(ChatShown)
    OBVIOUS
  <2>2. v4 \in ChatPages /\ v4.active = 0 /\ v4.loads = {}
    BY <1>1, <2>1 DEF ChatPages
  <2> QED
    BY <1>1, <2>1, <2>2, ChatSorts DEF ChatTyped
<1>3. /\ \A t \in {1, 2} : v3[t] = Chat!NoJob /\ ~Live(t)
      /\ \A c \in {1, 2} : v1[c] = <<>> /\ v5[c] = <<>>
      /\ v4.messages = <<>> /\ v4.active = 0 /\ v4.loads = {}
  BY <1>1, ChatSorts DEF Live
<1>4. \A t \in {1, 2} : JobFits(t) /\ TurnFits(t)
  BY <1>3, ChatSorts DEF JobFits, TurnFits
<1>5. OneLive /\ RowsAtHome /\ TellsWhole /\ Deleted /\ ShownOwn /\ OneThing
  BY <1>1, <1>3, ChatSorts DEF OneLive, RowsAtHome, TellsWhole, WholeKept, Deleted, ShownOwn, OneThing
<1> QED
  BY <1>2, <1>4, <1>5 DEF ChatInv

\* What is saved stays, or goes with its conversation.
RowsStay ==
  \A c \in {1, 2} :
    \/ v1'[c] = <<>>
    \/ c \in v2 => /\ v1[c] # <<>>
                   /\ \A j \in DOMAIN v1[c] : /\ j \in DOMAIN v1'[c] /\ v1'[c][j].t = v1[c][j].t
                                              /\ v1[c][j].answer = "whole" => v1'[c][j].answer = "whole"
\* A stream that came to its end stays there, and one asked for was asked for.
JobsGoOn ==
  \A t \in {1, 2} :
    /\ TurnEnded(t) => TurnEnded(t)' /\ v3'[t].conv = v3[t].conv
    /\ v3[t].conv # 0 => v3'[t].conv = v3[t].conv
    /\ v3[t].stage # "idle" => v3'[t].stage # "idle"

LEMMA KeptStays ==
  ASSUME ChatInv, RowsStay, NEW t \in {1, 2}, Kept(t), v3'[t].conv = v3[t].conv
  PROVE  Kept(t)'
<1>1. PICK c : c = v3[t].conv
  OBVIOUS
<1>2. c # 0 => c \in {1, 2} /\ c \in v2
  BY <1>1, ChatFields DEF ChatInv, JobFits
<1>3. ASSUME c # 0, v1'[c] # <<>> PROVE \E j \in DOMAIN v1'[c] : v1'[c][j].t = t /\ v1'[c][j].answer = "whole"
  <2>1. PICK j \in DOMAIN v1[c] : v1[c][j].t = t /\ v1[c][j].answer = "whole"
    BY <1>1, <1>2, <1>3 DEF Kept, RowsStay
  <2> QED
    <3>1. /\ j \in DOMAIN v1'[c] /\ v1'[c][j].t = v1[c][j].t
          /\ v1[c][j].answer = "whole" => v1'[c][j].answer = "whole"
      <4>1. c \in {1, 2} /\ c \in v2 /\ v1'[c] # <<>>
        BY <1>2, <1>3
      <4>2. \A i \in DOMAIN v1[c] : /\ i \in DOMAIN v1'[c] /\ v1'[c][i].t = v1[c][i].t
                                    /\ v1[c][i].answer = "whole" => v1'[c][i].answer = "whole"
        BY <4>1 DEF RowsStay
      <4> QED
        BY <4>2
    <3> QED
      BY <2>1, <3>1
<1> QED
  BY <1>1, <1>3 DEF Kept

LEMMA WholeStays ==
  ASSUME ChatInv, RowsStay, JobsGoOn, NEW list \in Seq(ChatShown), WholeKept(list)
  PROVE  WholeKept(list)'
<1>1. ASSUME NEW i \in DOMAIN list
      PROVE  /\ v3'[list[i].t].stage # "idle"
             /\ list[i].answer = "whole" => TurnEnded(list[i].t)' /\ Kept(list[i].t)'
  <2>1. PICK t \in {1, 2} : t = list[i].t
    <3>1. list[i] \in ChatShown
      OBVIOUS
    <3> QED
      BY <3>1 DEF ChatShown
  <2>2. v3[t].stage # "idle" /\ (list[i].answer = "whole" => TurnEnded(t) /\ Kept(t))
    BY <2>1 DEF WholeKept
  <2>3. v3'[t].stage # "idle" /\ (list[i].answer = "whole" => TurnEnded(t)' /\ Kept(t)')
    BY <2>2, KeptStays DEF JobsGoOn
  <2> QED
    BY <2>1, <2>3 DEF TurnEnded, Kept
<1> QED
  BY <1>1 DEF WholeKept

\* One stream goes on.
LEMMA ChatJob ==
  ASSUME ChatInv, NEW t \in {1, 2}, NEW k \in ChatJobs, v3' = [v3 EXCEPT ![t] = k]
  PROVE  v3' \in [{1, 2} -> ChatJobs] /\ v3'[t] = k /\ \A u \in {1, 2} : u # t => v3'[u] = v3[u]
BY ChatFields

LEMMA ChatRowsSame == ASSUME ChatInv, UNCHANGED <<v1, v2>> PROVE RowsStay
BY DEF RowsStay, ChatInv, RowsAtHome

\* The lists that stay, while nothing is saved.
LEMMA ChatStays ==
  ASSUME ChatInv, RowsStay, JobsGoOn
  PROVE  WholeKept(v4.messages) /\ \A c \in {1, 2} : WholeKept(v5[c])
BY DEF ChatInv, TellsWhole

LEMMA ChatHome ==
  ASSUME ChatInv, JobsGoOn, UNCHANGED <<v1, v2>>
  PROVE  RowsAtHome'
<1>1. ASSUME NEW c \in {1, 2}, NEW i \in DOMAIN v1[c]
      PROVE  v3'[v1[c][i].t].conv = c /\ (v1[c][i].answer = "whole" => TurnEnded(v1[c][i].t)')
  <2>1. PICK t \in {1, 2} : t = v1[c][i].t
    <3>1. v1[c] \in Seq(ChatRows)
      BY ChatFields
    <3>2. v1[c][i] \in ChatRows
      BY <3>1
    <3> QED
      BY <3>2 DEF ChatRows
  <2>2. v3[t].conv = c /\ (v1[c][i].answer = "whole" => TurnEnded(t))
    BY <2>1 DEF ChatInv, RowsAtHome
  <2>3. v3'[t].conv = c /\ (v1[c][i].answer = "whole" => TurnEnded(t)')
    BY <2>2 DEF JobsGoOn
  <2> QED
    BY <2>1, <2>3 DEF TurnEnded
<1>2. \A c \in {1, 2} : c \notin v2' => v1'[c] = <<>>
  BY DEF ChatInv, RowsAtHome
<1> QED
  BY <1>1, <1>2 DEF RowsAtHome, TurnEnded

\* A list of the page or the cache that stays is still told rightly.
LEMMA ChatTells ==
  ASSUME ChatInv, RowsStay, JobsGoOn, NEW list, NEW c \in {1, 2},
         list = v4.messages \/ list = v5[c]
  PROVE  WholeKept(list)'
<1>1. list \in Seq(ChatShown) /\ WholeKept(list)
  BY ChatFields, ChatStays
<1> QED
  BY <1>1, WholeStays

\* What is told stays told rightly, when the lists are old ones or are told rightly.
LEMMA ChatTold ==
  ASSUME ChatInv, RowsStay, JobsGoOn,
         v4'.messages = <<>> \/ v4'.messages = v4.messages \/ (\E c \in {1, 2} : v4'.messages = v5[c])
           \/ WholeKept(v4.messages)',
         \A c \in {1, 2} : v5'[c] = <<>> \/ v5'[c] = v5[c] \/ WholeKept(v5[c])',
         \A t \in {1, 2} : v3'[t].stage = "done" /\ v3'[t].heard => Kept(t)'
  PROVE  TellsWhole'
<1>1. \A list : (list = v4.messages \/ \E c \in {1, 2} : list = v5[c]) => WholeKept(list)'
  <2>1. ASSUME NEW list, list = v4.messages PROVE WholeKept(list)'
    <3>1. PICK c \in {1, 2} : c = 1
      OBVIOUS
    <3> QED
      BY <2>1, <3>1, ChatTells
  <2>2. ASSUME NEW list, NEW c \in {1, 2}, list = v5[c] PROVE WholeKept(list)'
    BY <2>2, ChatTells
  <2> QED
    BY <2>1, <2>2
<1>2. WholeKept(v4.messages)'
  <2>1. CASE v4'.messages = <<>>
    BY <2>1 DEF WholeKept
  <2>2. ASSUME NEW list, v4'.messages = list, WholeKept(list)' PROVE WholeKept(v4.messages)'
    BY <2>2 DEF WholeKept
  <2> QED
    BY <2>1, <2>2, <1>1
<1>3. ASSUME NEW c \in {1, 2} PROVE WholeKept(v5[c])'
  <2>1. CASE v5'[c] = <<>>
    BY <2>1 DEF WholeKept
  <2>2. ASSUME NEW list, v5'[c] = list, WholeKept(list)' PROVE WholeKept(v5[c])'
    BY <2>2 DEF WholeKept
  <2> QED
    BY <2>1, <2>2, <1>1
<1> QED
  BY <1>2, <1>3 DEF TellsWhole

\* A step that saves nothing.
LEMMA ChatBase ==
  ASSUME ChatInv, UNCHANGED <<v1, v2>>, JobsGoOn, ChatTyped', OneLive', Deleted',
         \A t \in {1, 2} : JobFits(t)',
         v4'.messages = <<>> \/ v4'.messages = v4.messages \/ (\E c \in {1, 2} : v4'.messages = v5[c])
           \/ WholeKept(v4.messages)',
         \A c \in {1, 2} : v5'[c] = <<>> \/ v5'[c] = v5[c] \/ WholeKept(v5[c])',
         \A t \in {1, 2} : v3'[t].stage = "done" /\ v3'[t].heard => Kept(t)'
  PROVE  /\ ChatTyped' /\ (\A t \in {1, 2} : JobFits(t)') /\ OneLive' /\ RowsAtHome' /\ TellsWhole' /\ Deleted'
<1>1. RowsStay
  BY ChatRowsSame
<1> QED
  BY <1>1, ChatTold, ChatHome

\* A step in which no stream goes on.
LEMMA ChatRests ==
  ASSUME ChatInv, UNCHANGED <<v1, v2, v3>>, ChatTyped', Deleted', v4'.streaming = v4.streaming,
         v4'.messages = <<>> \/ v4'.messages = v4.messages \/ (\E c \in {1, 2} : v4'.messages = v5[c])
           \/ WholeKept(v4.messages)',
         \A c \in {1, 2} : v5'[c] = <<>> \/ v5'[c] = v5[c] \/ WholeKept(v5[c])'
  PROVE  /\ ChatTyped' /\ (\A t \in {1, 2} : JobFits(t)') /\ OneLive' /\ RowsAtHome' /\ TellsWhole' /\ Deleted'
<1>1. JobsGoOn
  BY DEF JobsGoOn, TurnEnded
<1>2. OneLive' /\ \A t \in {1, 2} : JobFits(t)'
  BY DEF ChatInv, OneLive, JobFits, Live
<1>3. \A t \in {1, 2} : v3'[t].stage = "done" /\ v3'[t].heard => Kept(t)'
  BY DEF ChatInv, TellsWhole, Kept
<1> QED
  BY <1>1, <1>2, <1>3, ChatBase

\* Nothing is under way: the turns fit whatever is opened.
LEMMA ChatQuiet ==
  ASSUME ChatInv, UNCHANGED v3, ~v9, ~Working
  PROVE  \A t \in {1, 2} : TurnFits(t)'
<1>1. \A t \in {1, 2} : ~Live(t)' /\ v3'[t].stage \notin {"sent", "open", "cars"}
  BY DEF Working, Live
<1>2. \A t \in {1, 2} : v3'[t].to # 0 /\ v3'[t].conv # 0 => v3'[t].conv = v3'[t].to
  BY DEF ChatInv, TurnFits
<1> QED
  BY <1>1, <1>2 DEF TurnFits

\* A stream that is open goes on: it keeps its place and its conversation.
Goes(t, k) ==
  /\ k \in ChatJobs /\ v3' = [v3 EXCEPT ![t] = k] /\ v3[t].stage # "idle" /\ k.stage # "idle"
  /\ k.conv = v3[t].conv /\ k.to = v3[t].to /\ (k.heard => v3[t].heard) /\ (k.saved => k.conv # 0)
  /\ v3[t].stage \in {"done", "cars", "over"} => k.stage \in {"done", "cars", "over"}
  /\ k.heard /\ k.stage \in {"sent", "open", "done", "error"} => v3[t].stage \in {"sent", "open", "done", "error"}
  /\ k.stage = "error" => k.heard
  /\ k.stage \in {"sent", "open"} => k.stage = v3[t].stage

LEMMA ChatGoes ==
  ASSUME ChatInv, NEW t \in {1, 2}, NEW k, Goes(t, k)
  PROVE  /\ v3' \in [{1, 2} -> ChatJobs] /\ v3'[t] = k /\ (\A u \in {1, 2} : u # t => v3'[u] = v3[u])
         /\ JobsGoOn /\ OneLive'
         /\ \A u \in {1, 2} : Live(u)' => Live(u)
<1>1. v3' \in [{1, 2} -> ChatJobs] /\ v3'[t] = k /\ (\A u \in {1, 2} : u # t => v3'[u] = v3[u])
  BY ChatJob DEF Goes
<1>2. \A u \in {1, 2} : Live(u)' => Live(u)
  BY <1>1 DEF Live, Goes
<1>3. OneLive'
  BY <1>2 DEF ChatInv, OneLive
<1>4. JobsGoOn
  BY <1>1 DEF JobsGoOn, Goes, TurnEnded
<1> QED
  BY <1>1, <1>2, <1>3, <1>4

LEMMA ChatFits ==
  ASSUME ChatInv, NEW t \in {1, 2}, NEW k, Goes(t, k), RowsStay, v2' = v2,
         v4'.streaming = v4.streaming \/ \A u \in {1, 2} : ~Live(u)'
  PROVE  \A u \in {1, 2} : JobFits(u)'
<1>1. ASSUME NEW u \in {1, 2}, NEW c \in v2, c = v3[u].conv, v3[u].stage = "open", v1'[c] # <<>>
      PROVE  \E j \in DOMAIN v1'[c] : v1'[c][j].t = u
  <2>0. c \in {1, 2}
    BY ChatFields
  <2>1. /\ v1[c] # <<>>
        /\ \A j \in DOMAIN v1[c] : j \in DOMAIN v1'[c] /\ v1'[c][j].t = v1[c][j].t
    BY <1>1, <2>0 DEF RowsStay
  <2>2. PICK j \in DOMAIN v1[c] : v1[c][j].t = u
    BY <1>1, <2>1 DEF ChatInv, JobFits
  <2> QED
    BY <2>1, <2>2
<1>2. ASSUME NEW u \in {1, 2}, u # t PROVE JobFits(u)'
  <2>1. v3'[u] = v3[u] /\ JobFits(u)
    BY <1>2, ChatGoes DEF ChatInv
  <2>2. Live(u)' => v4'.streaming
    BY <2>1, ChatGoes DEF JobFits
  <2> QED
    BY <2>1, <2>2, <1>1 DEF JobFits
<1>3. JobFits(t)'
  <2>1. v3'[t] = k /\ JobFits(t)
    BY ChatGoes DEF ChatInv
  <2>2. Live(t)' => v4'.streaming
    BY <2>1, ChatGoes DEF JobFits
  <2>3. v3'[t].stage = "open" => v3[t].stage = "open" /\ v3'[t].conv = v3[t].conv
    BY <2>1 DEF Goes
  <2> QED
    BY <2>1, <2>2, <2>3, <1>1 DEF JobFits, Goes
<1> QED
  BY <1>2, <1>3

\* While a stream comes to an end nothing else is shown.
SameTurns(a, b) == DOMAIN a = DOMAIN b /\ \A i \in DOMAIN b : a[i].t = b[i].t

LEMMA ChatTurns ==
  ASSUME ChatInv, ~v9, NEW t \in {1, 2}, NEW k, Goes(t, k), UNCHANGED <<v2, v6>>,
         \A c \in {1, 2} : v1'[c] # <<>> <=> v1[c] # <<>>,
         v4'.active = v4.active, v4'.loads = v4.loads, SameTurns(v4'.messages, v4.messages),
         \A c \in {1, 2} : SameTurns(v5'[c], v5[c]), k.stage = "cars" => v3[t].stage = "cars",
         \/ v3[t].to # 0
         \/ k.heard = v3[t].heard /\ (Live(t) => k.stage \in {"sent", "open", "done", "error"})
  PROVE  (\A u \in {1, 2} : TurnFits(u)') /\ ShownOwn' /\ OneThing'
<1>1. (\A u \in {1, 2} : TurnFits(u)) /\ ShownOwn /\ OneThing /\ v4.active \in {0, 1, 2}
  BY ChatFields DEF ChatInv
<1>2. /\ v3'[t] = k /\ (\A u \in {1, 2} : u # t => v3'[u] = v3[u])
      /\ \A u \in {1, 2} : Live(u)' => Live(u)
  BY ChatGoes
<1>3. \A u \in {1, 2} : /\ v3'[u].to = v3[u].to /\ v3'[u].conv = v3[u].conv
                        /\ v3'[u].stage \in {"sent", "open", "cars"} => v3'[u].stage = v3[u].stage
                        /\ v3[u].to = 0 => v3'[u].heard = v3[u].heard /\ (Live(u) => Live(u)')
                        /\ v3[u].to \in {0, 1, 2} /\ v3[u].conv \in {0, 1, 2}
  BY <1>2, ChatFields DEF Goes, Live
<1>4. ASSUME NEW u \in {1, 2} PROVE TurnFits(u)'
  <2>1. TurnFits(u)
    BY <1>1
  <2>2. ASSUME v3'[u].stage = "sent", v3'[u].to = 0, NEW c \in {1, 2}, NEW i \in DOMAIN v5'[c]
        PROVE  v5'[c][i].t # u
    BY <2>1, <2>2, <1>3 DEF SameTurns, TurnFits
  <2>3. v3'[u].stage = "cars" => v4'.active # 0 /\ Chat!Cid(u)' = v4'.active
    BY <2>1, <1>3 DEF TurnFits, Chat!Cid
  <2> QED
    BY <2>1, <2>2, <2>3, <1>2, <1>3 DEF TurnFits
<1>5. \A c \in {1, 2} : \A u \in {1, 2} : OwnTurn(c, u) => OwnTurn(c, u)'
  BY <1>3 DEF OwnTurn
<1>6. ShownOwn'
  <2>1. ASSUME NEW i \in DOMAIN v4'.messages
        PROVE  IF v4'.active # 0 THEN OwnTurn(v4.active, v4.messages[i].t)'
               ELSE v3'[v4'.messages[i].t].to = 0 /\ (v3'[v4'.messages[i].t].conv = 0 \/ Live(v4.messages[i].t)')
    <3>1. PICK u \in {1, 2} : u = v4.messages[i].t /\ u = v4'.messages[i].t /\ i \in DOMAIN v4.messages
      BY ChatListed DEF SameTurns
    <3>2. IF v4.active # 0 THEN OwnTurn(v4.active, u) ELSE v3[u].to = 0 /\ (v3[u].conv = 0 \/ Live(u))
      BY <1>1, <3>1 DEF ShownOwn
    <3>3. IF v4.active # 0 THEN OwnTurn(v4.active, u)' ELSE v3'[u].to = 0 /\ (v3'[u].conv = 0 \/ Live(u)')
      BY <3>2, <1>1, <1>3 DEF OwnTurn
    <3> QED
      BY <3>1, <3>3 DEF OwnTurn, Live
  <2>2. ASSUME NEW c \in {1, 2}, NEW i \in DOMAIN v5'[c] PROVE OwnTurn(c, v5[c][i].t)'
    <3>1. PICK u \in {1, 2} : u = v5[c][i].t /\ u = v5'[c][i].t /\ i \in DOMAIN v5[c]
      BY ChatListed DEF SameTurns
    <3>2. OwnTurn(c, u)
      BY <1>1, <3>1 DEF ShownOwn
    <3> QED
      BY <3>1, <3>2, <1>5 DEF OwnTurn
  <2> QED
    BY <2>1, <2>2 DEF ShownOwn, OwnTurn, Live
<1>7. OneThing'
  <2>1. Working' => Working
    BY <1>2, <1>3 DEF Working
  <2> QED
    BY <2>1, <1>1 DEF OneThing
<1> QED
  BY <1>4, <1>6, <1>7

\* A stream that ends badly, or not for the page.
LEMMA ChatBreaks ==
  ASSUME ChatInv, NEW t \in {1, 2}, Chat!rejected(t) \/ Chat!Fails(t)
  PROVE  ChatInv'
<1>u. UNCHANGED <<v1, v2, v4, v5, v6, v7, v9>>
  BY DEF Chat!rejected, Chat!Fails
<1>1. PICK stage \in {"done", "error", "over"} :
        /\ v3' = [v3 EXCEPT ![t].stage = stage] /\ v3[t].stage \in {"sent", "open"}
        /\ stage = "done" => v3[t].stage = "sent"
        /\ stage = "error" <=> v3[t].heard /\ stage # "done"
  BY DEF Chat!rejected, Chat!Fails
<1>2. PICK k : k = [v3[t] EXCEPT !.stage = stage]
  OBVIOUS
<1>3. /\ k \in ChatJobs /\ k.stage = stage /\ k.to = v3[t].to /\ k.conv = v3[t].conv
      /\ k.heard = v3[t].heard /\ k.saved = v3[t].saved /\ v3[t] \in ChatJobs
  BY <1>2, ChatFields DEF ChatJobs
<1>4. Goes(t, k)
  <2>1. v3[t].saved => v3[t].conv # 0
    BY DEF ChatInv, JobFits
  <2> QED
    BY <1>1, <1>2, <1>3, <2>1 DEF Goes
<1>5. /\ v3' \in [{1, 2} -> ChatJobs] /\ v3'[t] = k /\ (\A u \in {1, 2} : u # t => v3'[u] = v3[u])
      /\ JobsGoOn /\ OneLive' /\ \A u \in {1, 2} : Live(u)' => Live(u)
  BY <1>4, ChatGoes
<1>6. \A u \in {1, 2} : JobFits(u)'
  <2>1. RowsStay
    BY <1>u, ChatRowsSame
  <2> QED
    BY <2>1, <1>4, <1>u, ChatFits
<1>7. ChatTyped' /\ Deleted'
  BY <1>u, <1>5 DEF ChatInv, ChatTyped, Deleted
<1>8. ASSUME NEW u \in {1, 2}, v3'[u].stage = "done", v3'[u].heard PROVE Kept(u)'
  <2>1. CASE u = t
    BY <2>1, <1>1, <1>3, <1>5, <1>8 DEF Kept, ChatInv, JobFits
  <2>2. CASE u # t
    BY <2>2, <1>u, <1>5, <1>8 DEF Kept, ChatInv, TellsWhole
  <2> QED
    BY <2>1, <2>2
<1>9. /\ ChatTyped' /\ (\A u \in {1, 2} : JobFits(u)') /\ OneLive' /\ RowsAtHome' /\ TellsWhole' /\ Deleted'
  BY <1>u, <1>5, <1>6, <1>7, <1>8, ChatBase
<1>10. ASSUME ~v9' PROVE (\A u \in {1, 2} : TurnFits(u)') /\ ShownOwn' /\ OneThing'
  <2>1. Live(t) => k.stage \in {"sent", "open", "done", "error"}
    BY <1>1, <1>3 DEF Live
  <2>2. SameTurns(v4.messages, v4.messages) /\ \A c \in {1, 2} : SameTurns(v5[c], v5[c])
    BY DEF SameTurns
  <2> QED
    BY <1>10, <2>1, <2>2, <1>u, <1>1, <1>3, <1>4, ChatTurns
<1> QED
  BY <1>9, <1>10 DEF ChatInv

\* A list drawn anew from one told rightly: only the turn at hand may be whole now.
LEMMA ChatDrawn ==
  ASSUME ChatInv, RowsStay, JobsGoOn, NEW t \in {1, 2}, NEW list \in Seq(ChatShown), WholeKept(list),
         NEW f, DOMAIN f = DOMAIN list, f = [i \in DOMAIN f |-> f[i]],
         \A i \in DOMAIN list : /\ f[i] \in ChatShown /\ f[i].t = list[i].t
                                /\ f[i].answer = "whole" => \/ list[i].answer = "whole"
                                                            \/ list[i].t = t /\ TurnEnded(t)' /\ Kept(t)'
  PROVE  f \in Seq(ChatShown) /\ WholeKept(f)' /\ SameTurns(f, list)
<1>1. f \in Seq(ChatShown)
  BY ChatMaps
<1>2. \A i \in DOMAIN list : /\ v3'[list[i].t].stage # "idle"
                             /\ list[i].answer = "whole" => TurnEnded(list[i].t)' /\ Kept(list[i].t)'
  <2>1. WholeKept(list)'
    BY WholeStays
  <2> QED
    BY <2>1 DEF WholeKept, TurnEnded, Kept
<1>3. ASSUME NEW i \in DOMAIN f
      PROVE  /\ v3'[f[i].t].stage # "idle"
             /\ f[i].answer = "whole" => TurnEnded(f[i].t)' /\ Kept(f[i].t)'
  <2>1. PICK u : u = f[i].t /\ u = list[i].t
    OBVIOUS
  <2>2. /\ v3'[u].stage # "idle" /\ (list[i].answer = "whole" => TurnEnded(u)' /\ Kept(u)')
        /\ f[i].answer = "whole" => list[i].answer = "whole" \/ (u = t /\ TurnEnded(u)' /\ Kept(u)')
    BY <1>2, <2>1 DEF TurnEnded, Kept
  <2> QED
    BY <2>1, <2>2 DEF TurnEnded, Kept
<1> QED
  BY <1>1, <1>3 DEF WholeKept, TurnEnded, Kept, SameTurns

LEMMA ChatMarked ==
  ASSUME NEW list \in Seq(ChatShown), NEW t, NEW answer \in {"whole", "error"}, NEW f, f = Chat!Marked(list, t, answer)
  PROVE  /\ DOMAIN f = DOMAIN list /\ f = [i \in DOMAIN f |-> f[i]]
         /\ \A i \in DOMAIN list : /\ f[i] \in ChatShown /\ f[i].t = list[i].t
                                   /\ f[i].answer = IF list[i].t = t THEN answer ELSE list[i].answer
<1>1. f = [i \in DOMAIN list |-> IF list[i].t = t THEN [list[i] EXCEPT !.answer = answer] ELSE list[i]]
  BY DEF Chat!Marked
<1>2. ASSUME NEW i \in DOMAIN list
      PROVE  /\ f[i] \in ChatShown /\ f[i].t = list[i].t
             /\ f[i].answer = IF list[i].t = t THEN answer ELSE list[i].answer
  <2>1. list[i] \in ChatShown
    OBVIOUS
  <2>2. PICK r : r = list[i]
    OBVIOUS
  <2>3. f[i] = IF r.t = t THEN [r EXCEPT !.answer = answer] ELSE r
    BY <1>1, <2>2
  <2> QED
    BY <2>1, <2>2, <2>3 DEF ChatShown
<1> QED
  BY <1>1, <1>2

LEMMA ChatError ==
  ASSUME ChatInv, NEW t \in {1, 2}, Chat!onError(t)
  PROVE  ChatInv'
<1>u. UNCHANGED <<v1, v2, v5, v6, v7>>
  BY DEF Chat!onError
<1>1. PICK k, f : /\ k = [v3[t] EXCEPT !.stage = "over"] /\ f = Chat!Marked(v4.messages, t, "error")
  OBVIOUS
<1>2. /\ v3[t].stage = "error" /\ v3' = [v3 EXCEPT ![t] = k]
      /\ v4' = [v4 EXCEPT !.messages = f, !.streaming = FALSE]
      /\ v9' = (v9 \/ v3[t].to = 0)
  BY <1>1, ChatFields, ChatSorts DEF Chat!onError, Chat!None
<1>3. /\ k \in ChatJobs /\ k.stage = "over" /\ k.to = v3[t].to /\ k.conv = v3[t].conv
      /\ k.heard = v3[t].heard /\ k.saved = v3[t].saved /\ v3[t] \in ChatJobs
  BY <1>1, ChatFields DEF ChatJobs
<1>4. Goes(t, k)
  <2>1. v3[t].saved => v3[t].conv # 0
    BY DEF ChatInv, JobFits
  <2> QED
    BY <1>2, <1>3, <2>1 DEF Goes
<1>5. /\ v3' \in [{1, 2} -> ChatJobs] /\ v3'[t] = k /\ (\A u \in {1, 2} : u # t => v3'[u] = v3[u])
      /\ JobsGoOn /\ OneLive' /\ \A u \in {1, 2} : Live(u)' => Live(u)
  BY <1>4, ChatGoes
<1>r. RowsStay
  BY <1>u, ChatRowsSame
<1>6. \A u \in {1, 2} : ~Live(u)'
  <2>1. Live(t) /\ ~Live(t)'
    BY <1>2, <1>3, <1>5 DEF Live, ChatInv, JobFits
  <2> QED
    BY <1>5, <2>1 DEF ChatInv, OneLive
<1>7. \A u \in {1, 2} : JobFits(u)'
  BY <1>4, <1>u, <1>r, <1>6, ChatFits
<1>8. f \in Seq(ChatShown) /\ WholeKept(f)' /\ SameTurns(f, v4.messages)
  <2>1. v4.messages \in Seq(ChatShown) /\ WholeKept(v4.messages)
    BY ChatFields DEF ChatInv, TellsWhole
  <2>2. PICK list : list = v4.messages
    OBVIOUS
  <2>3. f = Chat!Marked(list, t, "error")
    BY <1>1, <2>2
  <2>4. /\ DOMAIN f = DOMAIN list /\ f = [i \in DOMAIN f |-> f[i]]
        /\ \A i \in DOMAIN list : /\ f[i] \in ChatShown /\ f[i].t = list[i].t
                                  /\ f[i].answer = IF list[i].t = t THEN "error" ELSE list[i].answer
    BY <2>1, <2>2, <2>3, ChatMarked
  <2>5. f \in Seq(ChatShown) /\ WholeKept(f)' /\ SameTurns(f, list)
    BY <2>1, <2>2, <2>4, <1>5, <1>r, ChatDrawn
  <2> QED
    BY <2>2, <2>5
<1>9. /\ v4' \in ChatPages /\ v4'.messages = f /\ v4'.active = v4.active /\ v4'.loads = v4.loads
      /\ v4'.streaming = FALSE
  BY <1>2, <1>8, ChatFields DEF ChatPages
<1>10. ChatTyped' /\ Deleted'
  BY <1>u, <1>2, <1>5, <1>9 DEF ChatInv, ChatTyped, Deleted
<1>11. ASSUME NEW u \in {1, 2}, v3'[u].stage = "done", v3'[u].heard PROVE Kept(u)'
  BY <1>u, <1>3, <1>5, <1>11 DEF Kept, ChatInv, TellsWhole
<1>12. /\ ChatTyped' /\ (\A u \in {1, 2} : JobFits(u)') /\ OneLive' /\ RowsAtHome' /\ TellsWhole' /\ Deleted'
  <2>1. WholeKept(v4.messages)'
    BY <1>8, <1>9 DEF WholeKept, TurnEnded, Kept
  <2> QED
    BY <2>1, <1>u, <1>5, <1>7, <1>10, <1>11, ChatBase
<1>13. ASSUME ~v9' PROVE (\A u \in {1, 2} : TurnFits(u)') /\ ShownOwn' /\ OneThing'
  <2>1. SameTurns(v4'.messages, v4.messages) /\ \A c \in {1, 2} : SameTurns(v5'[c], v5[c])
    BY <1>u, <1>8, <1>9 DEF SameTurns
  <2> QED
    BY <1>13, <2>1, <1>u, <1>2, <1>3, <1>4, <1>9, ChatTurns
<1> QED
  BY <1>12, <1>13 DEF ChatInv

\* The aborted stream was the live one.
LEMMA ChatCancelled ==
  ASSUME NEW list \in Seq(ChatShown), NEW f,
         f = [i \in DOMAIN list |-> IF list[i].answer = "streaming" THEN [list[i] EXCEPT !.answer = "part"] ELSE list[i]]
  PROVE  /\ DOMAIN f = DOMAIN list /\ f = [i \in DOMAIN f |-> f[i]]
         /\ \A i \in DOMAIN list : /\ f[i] \in ChatShown /\ f[i].t = list[i].t
                                   /\ f[i].answer = "whole" => list[i].answer = "whole"
<1>2. ASSUME NEW i \in DOMAIN list
      PROVE  f[i] \in ChatShown /\ f[i].t = list[i].t /\ (f[i].answer = "whole" => list[i].answer = "whole")
  <2>1. list[i] \in ChatShown
    OBVIOUS
  <2>2. PICK r : r = list[i]
    OBVIOUS
  <2>3. f[i] = IF r.answer = "streaming" THEN [r EXCEPT !.answer = "part"] ELSE r
    BY <2>2
  <2> QED
    BY <2>1, <2>2, <2>3 DEF ChatShown
<1> QED
  BY <1>2

LEMMA ChatCancels ==
  ASSUME ChatInv, NEW t \in {1, 2}, Chat!cancelStream(t)
  PROVE  ChatInv'
<1>u. UNCHANGED <<v1, v2, v5, v6, v7>>
  BY DEF Chat!cancelStream
<1>1. PICK k, f, list :
        /\ k = [v3[t] EXCEPT !.heard = FALSE, !.stage = IF @ \in {"done", "error"} THEN "over" ELSE @]
        /\ list = v4.messages
        /\ f = [i \in DOMAIN list |-> IF list[i].answer = "streaming" THEN [list[i] EXCEPT !.answer = "part"] ELSE list[i]]
  OBVIOUS
<1>2. /\ v3[t].heard /\ v3[t].stage \in {"sent", "open", "done", "error"} /\ v3' = [v3 EXCEPT ![t] = k]
      /\ v4' = [v4 EXCEPT !.streaming = FALSE, !.messages = f]
      /\ v9' = (v9 \/ v3[t].to = 0)
  <2>1. v3' = [v3 EXCEPT ![t].heard = FALSE, ![t].stage = IF @ \in {"done", "error"} THEN "over" ELSE @]
    BY DEF Chat!cancelStream
  <2>2. v3' = [v3 EXCEPT ![t] = k]
    BY <1>1, <2>1, ChatFields DEF ChatJobs
  <2>3. v4' = [v4 EXCEPT !.streaming = FALSE, !.messages = f]
    BY <1>1, ChatFields DEF Chat!cancelStream, ChatPages
  <2> QED
    BY <2>2, <2>3, ChatSorts DEF Chat!cancelStream
<1>3. /\ k \in ChatJobs /\ k.stage \in {"sent", "open", "over"} /\ (k.stage # "over" => k.stage = v3[t].stage)
      /\ k.to = v3[t].to /\ k.conv = v3[t].conv
      /\ ~k.heard /\ k.saved = v3[t].saved /\ v3[t] \in ChatJobs
  BY <1>1, <1>2, ChatFields DEF ChatJobs
<1>4. Goes(t, k)
  <2>1. v3[t].saved => v3[t].conv # 0
    BY DEF ChatInv, JobFits
  <2>2. v3[t].stage = "done" => k.stage = "over"
    BY <1>1, <1>3 DEF ChatJobs
  <2> QED
    BY <1>2, <1>3, <2>1, <2>2 DEF Goes
<1>5. /\ v3' \in [{1, 2} -> ChatJobs] /\ v3'[t] = k /\ (\A u \in {1, 2} : u # t => v3'[u] = v3[u])
      /\ JobsGoOn /\ OneLive' /\ \A u \in {1, 2} : Live(u)' => Live(u)
  BY <1>4, ChatGoes
<1>r. RowsStay
  BY <1>u, ChatRowsSame
<1>6. \A u \in {1, 2} : ~Live(u)'
  <2>1. Live(t) /\ ~Live(t)'
    BY <1>2, <1>3, <1>5 DEF Live
  <2> QED
    BY <1>5, <2>1 DEF ChatInv, OneLive
<1>7. \A u \in {1, 2} : JobFits(u)'
  BY <1>4, <1>u, <1>r, <1>6, ChatFits
<1>8. f \in Seq(ChatShown) /\ WholeKept(f)' /\ SameTurns(f, list)
  <2>1. list \in Seq(ChatShown) /\ WholeKept(list)
    BY <1>1, ChatFields DEF ChatInv, TellsWhole
  <2>2. /\ DOMAIN f = DOMAIN list /\ f = [i \in DOMAIN f |-> f[i]]
        /\ \A i \in DOMAIN list : /\ f[i] \in ChatShown /\ f[i].t = list[i].t
                                  /\ f[i].answer = "whole" => list[i].answer = "whole"
    BY <1>1, <2>1, ChatCancelled
  <2> QED
    BY <2>1, <2>2, <1>5, <1>r, ChatDrawn
<1>9. /\ v4' \in ChatPages /\ v4'.messages = f /\ v4'.active = v4.active /\ v4'.loads = v4.loads
      /\ v4'.streaming = FALSE
  BY <1>2, <1>8, ChatFields DEF ChatPages
<1>10. ChatTyped' /\ Deleted'
  BY <1>u, <1>2, <1>5, <1>9 DEF ChatInv, ChatTyped, Deleted
<1>11. ASSUME NEW u \in {1, 2}, v3'[u].stage = "done", v3'[u].heard PROVE Kept(u)'
  BY <1>u, <1>3, <1>5, <1>11 DEF Kept, ChatInv, TellsWhole
<1>12. /\ ChatTyped' /\ (\A u \in {1, 2} : JobFits(u)') /\ OneLive' /\ RowsAtHome' /\ TellsWhole' /\ Deleted'
  <2>1. WholeKept(v4.messages)'
    BY <1>8, <1>9 DEF WholeKept, TurnEnded, Kept
  <2> QED
    BY <2>1, <1>u, <1>5, <1>7, <1>10, <1>11, ChatBase
<1>13. ASSUME ~v9' PROVE (\A u \in {1, 2} : TurnFits(u)') /\ ShownOwn' /\ OneThing'
  <2>1. SameTurns(v4'.messages, v4.messages) /\ \A c \in {1, 2} : SameTurns(v5'[c], v5[c])
    BY <1>u, <1>1, <1>8, <1>9 DEF SameTurns
  <2> QED
    BY <1>13, <2>1, <1>u, <1>2, <1>3, <1>4, <1>9, ChatTurns
<1> QED
  BY <1>12, <1>13 DEF ChatInv

LEMMA ChatNewOne ==
  ASSUME ChatInv, Chat!startNewConversation
  PROVE  ChatInv'
<1>u. UNCHANGED <<v1, v2, v3, v5, v6, v7>>
  BY DEF Chat!startNewConversation
<1>1. v4' = [v4 EXCEPT !.messages = <<>>, !.active = 0] /\ v9' = (v9 \/ Chat!Busy)
  BY ChatSorts DEF Chat!startNewConversation, Chat!Emptied, Chat!Leaves
<1>2. <<>> \in Seq(ChatShown)
  OBVIOUS
<1>3. /\ v4' \in ChatPages /\ v4'.messages = <<>> /\ v4'.active = 0 /\ v4'.loads = v4.loads
      /\ v4'.streaming = v4.streaming
  BY <1>1, <1>2, ChatFields DEF ChatPages
<1>4. ChatTyped' /\ Deleted'
  BY <1>u, <1>1, <1>3, ChatFields DEF ChatInv, ChatTyped, Deleted
<1>5. /\ ChatTyped' /\ (\A u \in {1, 2} : JobFits(u)') /\ OneLive' /\ RowsAtHome' /\ TellsWhole' /\ Deleted'
  BY <1>u, <1>3, <1>4, ChatRests
<1>6. ASSUME ~v9' PROVE (\A u \in {1, 2} : TurnFits(u)') /\ ShownOwn' /\ OneThing'
  <2>1. ~v9 /\ ~Working /\ v4.loads = {} /\ ShownOwn /\ OneThing
    BY <1>1, <1>6, ChatBusy DEF ChatInv
  <2>2. ShownOwn'
    BY <2>1, <1>u, <1>3 DEF ShownOwn, OwnTurn
  <2>3. OneThing'
    BY <2>1, <1>u, <1>3 DEF OneThing, Working, Live
  <2> QED
    BY <2>1, <2>2, <2>3, <1>u, ChatQuiet
<1> QED
  BY <1>5, <1>6 DEF ChatInv

LEMMA ChatReloads ==
  ASSUME ChatInv, Chat!Reloaded
  PROVE  ChatInv'
<1>u. UNCHANGED <<v1, v2, v3, v6, v7, v9>>
  BY DEF Chat!Reloaded
<1>1. /\ v4' = [[v4 EXCEPT !.messages = <<>>, !.active = 0] EXCEPT !.loads = {v4.active}, !.loading = TRUE]
      /\ v5' = [c \in {1, 2} |-> <<>>] /\ ~Chat!Busy /\ v4.active # 0
  BY ChatSorts DEF Chat!Reloaded, Chat!Emptied
<1>2. <<>> \in Seq(ChatShown)
  OBVIOUS
<1>3. /\ v4' \in ChatPages /\ v4'.messages = <<>> /\ v4'.active = 0 /\ v4'.loads = {v4.active}
      /\ v4'.streaming = v4.streaming
  BY <1>1, <1>2, ChatFields DEF ChatPages
<1>4. ChatTyped' /\ Deleted'
  <2>1. v5' \in [{1, 2} -> Seq(ChatShown)]
    BY <1>1, <1>2
  <2> QED
    BY <2>1, <1>u, <1>1, <1>3, ChatFields DEF ChatInv, ChatTyped, Deleted
<1>5. /\ ChatTyped' /\ (\A u \in {1, 2} : JobFits(u)') /\ OneLive' /\ RowsAtHome' /\ TellsWhole' /\ Deleted'
  BY <1>u, <1>1, <1>3, <1>4, ChatRests
<1>6. ASSUME ~v9' PROVE (\A u \in {1, 2} : TurnFits(u)') /\ ShownOwn' /\ OneThing'
  <2>1. ~v9 /\ ~Working
    BY <1>1, <1>6, <1>u, ChatBusy
  <2>2. ShownOwn'
    BY <1>1, <1>3 DEF ShownOwn
  <2>3. OneThing'
    BY <2>1, <1>u, <1>3 DEF OneThing, Working, Live
  <2> QED
    BY <2>1, <2>2, <2>3, <1>u, ChatQuiet
<1> QED
  BY <1>5, <1>6 DEF ChatInv

LEMMA ChatAsksDelete ==
  ASSUME ChatInv, NEW c \in {1, 2}, Chat!onDelete(c)
  PROVE  ChatInv'
<1>u. UNCHANGED <<v1, v2, v3, v4, v5, v7>>
  BY DEF Chat!onDelete
<1>1. PICK d : d = [conv |-> c, sent |-> TRUE, shown |-> v4.active]
  OBVIOUS
<1>2. v6' = v6 \cup {d} /\ v9' = (v9 \/ Chat!Busy) /\ c \in v2
  BY <1>1 DEF Chat!onDelete, Chat!Listed
<1>3. d \in ChatDels /\ d.conv = c
  BY <1>1, ChatFields DEF ChatDels
<1>4. ChatTyped' /\ Deleted'
  BY <1>u, <1>2, <1>3 DEF ChatInv, ChatTyped, Deleted
<1>5. /\ ChatTyped' /\ (\A u \in {1, 2} : JobFits(u)') /\ OneLive' /\ RowsAtHome' /\ TellsWhole' /\ Deleted'
  BY <1>u, <1>4, ChatRests
<1>6. ASSUME ~v9' PROVE (\A u \in {1, 2} : TurnFits(u)') /\ ShownOwn' /\ OneThing'
  <2>1. ~v9 /\ ~Working /\ ShownOwn /\ OneThing
    BY <1>2, <1>6, ChatBusy DEF ChatInv
  <2>2. ShownOwn'
    BY <2>1, <1>u DEF ShownOwn, OwnTurn, Live
  <2>3. OneThing'
    BY <2>1, <1>u, <1>2 DEF OneThing, Working, Live
  <2> QED
    BY <2>1, <2>2, <2>3, <1>u, ChatQuiet
<1> QED
  BY <1>5, <1>6 DEF ChatInv

LEMMA ChatDeletes ==
  ASSUME ChatInv, NEW d \in v6, Chat!delete_conversation(d)
  PROVE  ChatInv'
<1>u. UNCHANGED <<v2, v3, v4, v5, v7, v9>>
  BY DEF Chat!delete_conversation
<1>0. d \in ChatDels /\ d.conv \in v2 /\ d.conv \in {1, 2}
  BY ChatFields DEF ChatDels
<1>1. PICK e : e = [d EXCEPT !.sent = FALSE]
  OBVIOUS
<1>2. /\ v1' = v1 \/ v1' = [v1 EXCEPT ![d.conv] = <<>>]
      /\ v6' = (v6 \ {d}) \cup {e}
  BY <1>1 DEF Chat!delete_conversation
<1>3. e \in ChatDels /\ e.conv = d.conv
  BY <1>0, <1>1 DEF ChatDels
<1>4. \A c \in {1, 2} : v1'[c] = v1[c] \/ (v1'[c] = <<>> /\ c = d.conv)
  BY <1>0, <1>2, ChatFields
<1>5. ChatTyped'
  <2>1. v1' \in [{1, 2} -> Seq(ChatRows)]
    <3>0. <<>> \in Seq(ChatRows)
      OBVIOUS
    <3>1. PICK none \in Seq(ChatRows) : none = <<>>
      BY <3>0
    <3>2. v1' = v1 \/ v1' = [v1 EXCEPT ![d.conv] = none]
      BY <3>1, <1>2
    <3>3. v1 \in [{1, 2} -> Seq(ChatRows)]
      BY ChatFields
    <3> QED
      BY <3>2, <3>3
  <2> QED
    BY <2>1, <1>u, <1>0, <1>2, <1>3 DEF ChatInv, ChatTyped
<1>6. \A x \in v6 : \E y \in v6' : y.conv = x.conv
  BY <1>2, <1>3
<1>7. Deleted'
  BY <1>u, <1>2, <1>3, <1>4, <1>6, ChatFields DEF ChatInv, Deleted
<1>8. RowsStay /\ JobsGoOn
  BY <1>u, <1>4 DEF RowsStay, JobsGoOn, TurnEnded, ChatInv, RowsAtHome
<1>9. OneLive' /\ \A u \in {1, 2} : JobFits(u)'
  <2>1. OneLive'
    BY <1>u DEF ChatInv, OneLive, Live
  <2>2. ASSUME NEW u \in {1, 2} PROVE JobFits(u)'
    <3>1. JobFits(u) /\ v3[u].conv \in {0, 1, 2}
      BY ChatFields DEF ChatInv
    <3>2. PICK c : c = v3[u].conv
      OBVIOUS
    <3>3. v3'[u].stage = "open" =>
            c # 0 /\ (v1'[c] # <<>> => \E j \in DOMAIN v1'[c] : v1'[c][j].t = u)
      BY <3>1, <3>2, <1>u, <1>4 DEF JobFits
    <3> QED
      BY <3>1, <3>2, <3>3, <1>u DEF JobFits, Live
  <2> QED
    BY <2>1, <2>2
<1>10. RowsAtHome'
  BY <1>u, <1>4 DEF ChatInv, RowsAtHome, TurnEnded
<1>11. TellsWhole'
  <2>1. \A u \in {1, 2} : v3'[u].stage = "done" /\ v3'[u].heard => Kept(u)'
    BY <1>u, <1>8, KeptStays DEF ChatInv, TellsWhole
  <2> QED
    BY <2>1, <1>u, <1>8, ChatTold
<1>12. ASSUME ~v9' PROVE (\A u \in {1, 2} : TurnFits(u)') /\ ShownOwn' /\ OneThing'
  <2>1. ~v9 /\ ~Working /\ ShownOwn /\ OneThing
    BY <1>u, <1>12 DEF ChatInv, OneThing
  <2>2. ShownOwn'
    BY <2>1, <1>u DEF ShownOwn, OwnTurn, Live
  <2>3. OneThing'
    <3>1. ~Working'
      BY <2>1, <1>u DEF Working, Live
    <3>2. v4'.active # 0 => v1'[v4'.active] # <<>> \/ \E x \in v6' : x.conv = v4'.active
      <4>1. v4'.active # 0 => v4'.active \in {1, 2} /\ v4'.active = v4.active
        BY <1>u, ChatFields
      <4> QED
        BY <4>1, <2>1, <1>2, <1>3, <1>4, <1>6 DEF OneThing
    <3> QED
      BY <3>1, <3>2 DEF OneThing
  <2> QED
    BY <2>1, <2>2, <2>3, <1>u, ChatQuiet
<1> QED
  BY <1>5, <1>7, <1>9, <1>10, <1>11, <1>12 DEF ChatInv

LEMMA ChatSaysDeleted ==
  ASSUME ChatInv, NEW d \in v6, Chat!handleDeleteConversation(d)
  PROVE  ChatInv'
<1>u. UNCHANGED <<v1, v2, v3, v5>>
  BY DEF Chat!handleDeleteConversation
<1>0. d \in ChatDels /\ d.conv \in v2 /\ d.conv \in {1, 2}
  BY ChatFields DEF ChatDels
<1>1. /\ v6' = v6 \ {d} /\ v7' = v7 \cup {d.conv}
      /\ v4' = IF d.shown = d.conv THEN [v4 EXCEPT !.messages = <<>>, !.active = 0] ELSE v4
      /\ v9' = (v9 \/ Chat!Busy \/ v4.active # d.shown)
  BY ChatSorts DEF Chat!handleDeleteConversation, Chat!Emptied
<1>2. /\ v4' \in ChatPages /\ v4'.loads = v4.loads /\ v4'.streaming = v4.streaming
      /\ IF d.shown = d.conv THEN v4'.messages = <<>> /\ v4'.active = 0 ELSE v4' = v4
  <2>1. <<>> \in Seq(ChatShown)
    OBVIOUS
  <2> QED
    BY <2>1, <1>1, ChatFields DEF ChatPages
<1>3. ChatTyped' /\ Deleted'
  BY <1>u, <1>1, <1>2, ChatFields DEF ChatInv, ChatTyped, Deleted
<1>4. /\ ChatTyped' /\ (\A u \in {1, 2} : JobFits(u)') /\ OneLive' /\ RowsAtHome' /\ TellsWhole' /\ Deleted'
  BY <1>u, <1>2, <1>3, ChatRests
<1>5. ASSUME ~v9' PROVE (\A u \in {1, 2} : TurnFits(u)') /\ ShownOwn' /\ OneThing'
  <2>1. ~v9 /\ ~Working /\ v4.active = d.shown /\ ShownOwn /\ OneThing
    BY <1>1, <1>5, ChatBusy DEF ChatInv
  <2>2. ShownOwn'
    BY <2>1, <1>u, <1>2 DEF ShownOwn, OwnTurn, Live
  <2>3. ~Working'
    BY <2>1, <1>u DEF Working, Live
  <2>4. OneThing'
    BY <2>1, <2>3, <1>u, <1>1, <1>2 DEF OneThing
  <2> QED
    BY <2>1, <2>2, <2>4, <1>u, ChatQuiet
<1> QED
  BY <1>4, <1>5 DEF ChatInv

LEMMA ChatOpens ==
  ASSUME ChatInv, NEW c \in {1, 2}, Chat!loadConversation(c)
  PROVE  ChatInv'
<1>u. UNCHANGED <<v1, v2, v3, v5, v6, v7>>
  BY DEF Chat!loadConversation
<1>1. /\ c \in v2 /\ c \notin v7 /\ v9' = (v9 \/ Chat!Busy)
      /\ v4' = IF v5[c] # <<>> THEN [v4 EXCEPT !.messages = v5[c], !.active = c]
               ELSE [v4 EXCEPT !.loads = @ \cup {c}, !.loading = TRUE]
  BY DEF Chat!loadConversation, Chat!Listed, Chat!Leaves
<1>2. /\ v4' \in ChatPages /\ v4'.streaming = v4.streaming
      /\ IF v5[c] # <<>> THEN v4'.messages = v5[c] /\ v4'.active = c /\ v4'.loads = v4.loads
         ELSE v4'.messages = v4.messages /\ v4'.active = v4.active /\ v4'.loads = v4.loads \cup {c}
  BY <1>1, ChatFields DEF ChatPages
<1>3. ChatTyped' /\ Deleted'
  BY <1>u, <1>1, <1>2, ChatFields DEF ChatInv, ChatTyped, Deleted
<1>4. /\ ChatTyped' /\ (\A u \in {1, 2} : JobFits(u)') /\ OneLive' /\ RowsAtHome' /\ TellsWhole' /\ Deleted'
  BY <1>u, <1>2, <1>3, ChatRests
<1>5. ASSUME ~v9' PROVE (\A u \in {1, 2} : TurnFits(u)') /\ ShownOwn' /\ OneThing'
  <2>1. ~v9 /\ ~Working /\ ShownOwn /\ OneThing /\ Deleted
    BY <1>1, <1>5, ChatBusy DEF ChatInv
  <2>2. ShownOwn'
    BY <2>1, <1>u, <1>2 DEF ShownOwn, OwnTurn, Live
  <2>3. ~Working'
    BY <2>1, <1>u DEF Working, Live
  <2>4. v1[c] # <<>> \/ \E d \in v6 : d.conv = c
    BY <2>1, <1>1 DEF Deleted
  <2>5. OneThing'
    BY <2>1, <2>3, <2>4, <1>u, <1>2 DEF OneThing
  <2> QED
    BY <2>1, <2>2, <2>5, <1>u, ChatQuiet
<1> QED
  BY <1>4, <1>5 DEF ChatInv

\* What is saved, as the page shows it.
LEMMA ChatSaved ==
  ASSUME ChatInv, NEW c \in {1, 2}, NEW f, f = Chat!Saved(c)
  PROVE  /\ f \in Seq(ChatShown) /\ DOMAIN f = DOMAIN v1[c] /\ WholeKept(f)
         /\ \A i \in DOMAIN f : f[i].t \in {1, 2} /\ v3[f[i].t].conv = c
<1>1. f = [i \in DOMAIN v1[c] |-> IF v1[c][i].answer = "none" THEN v1[c][i]
                                  ELSE [v1[c][i] EXCEPT !.cars = "cars" \in Acts.chat]]
  BY DEF Chat!Saved
<1>2. v1[c] \in Seq(ChatRows)
  BY ChatFields
<1>3. ASSUME NEW i \in DOMAIN v1[c]
      PROVE  f[i] \in ChatShown /\ f[i].t = v1[c][i].t /\ f[i].answer = v1[c][i].answer /\ v1[c][i] \in ChatRows
  <2>1. v1[c][i] \in ChatRows
    BY <1>2
  <2>2. PICK r, b : r = v1[c][i] /\ b = ("cars" \in Acts.chat)
    OBVIOUS
  <2>3. f[i] = IF r.answer = "none" THEN r ELSE [r EXCEPT !.cars = b]
    BY <1>1, <2>2
  <2>4. b \in BOOLEAN
    BY <2>2
  <2> QED
    BY <2>1, <2>2, <2>3, <2>4 DEF ChatRows, ChatShown
<1>4. f \in Seq(ChatShown)
  <2>1. Len(v1[c]) \in Nat /\ DOMAIN v1[c] = 1..Len(v1[c])
    BY <1>2
  <2>2. f \in [1..Len(v1[c]) -> ChatShown]
    BY <1>1, <1>3, <2>1
  <2> QED
    BY <2>1, <2>2
<1>5. ASSUME NEW i \in DOMAIN f
      PROVE  /\ f[i].t \in {1, 2} /\ v3[f[i].t].conv = c /\ v3[f[i].t].stage # "idle"
             /\ f[i].answer = "whole" => TurnEnded(f[i].t) /\ Kept(f[i].t)
  <2>1. i \in DOMAIN v1[c]
    BY <1>1
  <2>2. PICK t \in {1, 2} : t = v1[c][i].t /\ t = f[i].t
    BY <2>1, <1>3 DEF ChatRows
  <2>3. v3[t].conv = c /\ (v1[c][i].answer = "whole" => TurnEnded(t))
    BY <2>1, <2>2 DEF ChatInv, RowsAtHome
  <2>4. v3[t].stage # "idle"
    <3>1. v3[t].stage = "idle" => v3[t] = Chat!NoJob
      BY DEF ChatInv, JobFits
    <3> QED
      BY <3>1, <2>3, ChatSorts
  <2>5. v1[c][i].answer = "whole" => Kept(t)
    BY <2>1, <2>2, <2>3 DEF Kept
  <2> QED
    BY <2>1, <2>2, <2>3, <2>4, <2>5, <1>3 DEF TurnEnded, Kept
<1> QED
  BY <1>1, <1>4, <1>5 DEF WholeKept

LEMMA ChatLoads ==
  ASSUME ChatInv, NEW c \in {1, 2}, Chat!loaded(c) \/ Chat!notLoaded(c)
  PROVE  ChatInv'
<1>u. UNCHANGED <<v1, v2, v3, v6, v7, v9>>
  BY DEF Chat!loaded, Chat!notLoaded
<1>1. PICK f : f = Chat!Saved(c)
  OBVIOUS
<1>2. /\ c \in v4.loads
      /\ \/ /\ v1[c] # <<>> /\ v5' = [v5 EXCEPT ![c] = f]
            /\ v4' = [v4 EXCEPT !.messages = f, !.active = c, !.loads = @ \ {c}, !.loading = FALSE]
         \/ v4' = [v4 EXCEPT !.loads = @ \ {c}, !.loading = FALSE] /\ v5' = v5
  BY <1>1, ChatExists DEF Chat!loaded, Chat!notLoaded
<1>3. /\ f \in Seq(ChatShown) /\ DOMAIN f = DOMAIN v1[c] /\ WholeKept(f)
      /\ \A i \in DOMAIN f : f[i].t \in {1, 2} /\ v3[f[i].t].conv = c
  BY <1>1, ChatSaved
<1>4. /\ v4' \in ChatPages /\ v4'.streaming = v4.streaming /\ v4'.loads = v4.loads \ {c}
      /\ \/ /\ v1[c] # <<>> /\ v4'.messages = f /\ v4'.active = c /\ v5'[c] = f
            /\ \A b \in {1, 2} : b # c => v5'[b] = v5[b]
         \/ v4'.messages = v4.messages /\ v4'.active = v4.active /\ v5' = v5
  BY <1>2, <1>3, ChatFields DEF ChatPages
<1>5. ChatTyped' /\ Deleted'
  <2>1. v5' \in [{1, 2} -> Seq(ChatShown)]
    BY <1>2, <1>3, ChatFields
  <2>2. c \in v2
    BY <1>2, ChatFields
  <2> QED
    BY <2>1, <2>2, <1>u, <1>4, ChatFields DEF ChatInv, ChatTyped, Deleted
<1>6. WholeKept(f)'
  BY <1>u, <1>3 DEF WholeKept, TurnEnded, Kept
<1>7. /\ ChatTyped' /\ (\A u \in {1, 2} : JobFits(u)') /\ OneLive' /\ RowsAtHome' /\ TellsWhole' /\ Deleted'
  <2>1. v4'.messages = v4.messages \/ WholeKept(v4.messages)'
    BY <1>4, <1>6 DEF WholeKept
  <2>2. ASSUME NEW b \in {1, 2} PROVE v5'[b] = v5[b] \/ WholeKept(v5[b])'
    BY <1>4, <1>6 DEF WholeKept
  <2> QED
    BY <2>1, <2>2, <1>u, <1>4, <1>5, ChatRests
<1>8. ASSUME ~v9' PROVE (\A u \in {1, 2} : TurnFits(u)') /\ ShownOwn' /\ OneThing'
  <2>1. ~v9 /\ ~Working /\ ShownOwn /\ OneThing
    BY <1>u, <1>2, <1>8 DEF ChatInv, OneThing
  <2>2. ~Working'
    BY <2>1, <1>u DEF Working, Live
  <2>3. CASE v4'.messages = v4.messages /\ v4'.active = v4.active /\ v5' = v5
    <3>1. ShownOwn'
      BY <2>1, <2>3, <1>u DEF ShownOwn, OwnTurn, Live
    <3>2. OneThing'
      BY <2>1, <2>2, <2>3, <1>u DEF OneThing
    <3> QED
      BY <2>1, <3>1, <3>2, <1>u, ChatQuiet
  <2>4. CASE /\ v1[c] # <<>> /\ v4'.messages = f /\ v4'.active = c /\ v5'[c] = f
             /\ \A b \in {1, 2} : b # c => v5'[b] = v5[b]
    <3>1. ShownOwn'
      BY <2>1, <2>4, <1>u, <1>3 DEF ShownOwn, OwnTurn
    <3>2. OneThing'
      BY <2>2, <2>4, <1>u DEF OneThing
    <3> QED
      BY <2>1, <3>1, <3>2, <1>u, ChatQuiet
  <2> QED
    BY <1>4, <2>3, <2>4
<1> QED
  BY <1>7, <1>8 DEF ChatInv

LEMMA ChatSends ==
  ASSUME ChatInv, NEW t \in {1, 2}, Chat!sendMessage(t)
  PROVE  ChatInv'
<1>u. UNCHANGED <<v1, v2, v5, v6, v7>>
  BY DEF Chat!sendMessage
<1>1. PICK k, q, list : /\ k = [Chat!NoJob EXCEPT !.stage = "sent", !.to = v4.active, !.heard = TRUE]
                        /\ q = Chat!Turn(t, "streaming") /\ list = v4.messages
  OBVIOUS
<1>2. /\ ~v4.streaming /\ v3[t] = Chat!NoJob /\ v3' = [v3 EXCEPT ![t] = k]
      /\ v4' = [v4 EXCEPT !.messages = Append(list, q), !.streaming = TRUE]
      /\ v9' = (v9 \/ v4.loads # {} \/ v6 # {})
  BY <1>1, ChatFields DEF Chat!sendMessage, Chat!Asked
<1>3. /\ k \in ChatJobs /\ k.stage = "sent" /\ k.to = v4.active /\ k.conv = 0 /\ k.heard /\ ~k.saved
      /\ q \in ChatShown /\ q.t = t /\ q.answer = "streaming" /\ v4.active \in {0, 1, 2}
  BY <1>1, ChatFields DEF ChatJobs, ChatShown, Chat!NoJob, Chat!None, Chat!Turn
<1>4. v3' \in [{1, 2} -> ChatJobs] /\ v3'[t] = k /\ \A u \in {1, 2} : u # t => v3'[u] = v3[u]
  BY <1>2, <1>3, ChatJob
<1>5. list \in Seq(ChatShown) /\ WholeKept(list)
  BY <1>1, ChatFields DEF ChatInv, TellsWhole
<1>6. /\ v4' \in ChatPages /\ v4'.messages = Append(list, q) /\ v4'.active = v4.active
      /\ v4'.loads = v4.loads /\ v4'.streaming
  <2>1. Append(list, q) \in Seq(ChatShown)
    BY <1>3, <1>5
  <2> QED
    BY <2>1, <1>2, ChatFields DEF ChatPages
<1>7. /\ Len(list) \in Nat /\ DOMAIN list = 1..Len(list)
      /\ DOMAIN Append(list, q) = 1..(Len(list) + 1)
      /\ (\A i \in DOMAIN list : Append(list, q)[i] = list[i]) /\ Append(list, q)[Len(list) + 1] = q
  BY <1>3, <1>5
<1>8. ChatTyped' /\ Deleted'
  BY <1>u, <1>2, <1>4, <1>6 DEF ChatInv, ChatTyped, Deleted
<1>9. JobsGoOn
  BY <1>2, <1>4, ChatSorts DEF JobsGoOn, TurnEnded
<1>10. \A u \in {1, 2} : ~Live(u) /\ (Live(u)' <=> u = t)
  <2>1. \A u \in {1, 2} : ~Live(u)
    BY <1>2 DEF ChatInv, JobFits
  <2> QED
    BY <2>1, <1>3, <1>4 DEF Live
<1>11. OneLive'
  BY <1>10 DEF OneLive
<1>12. \A u \in {1, 2} : JobFits(u)'
  <2>1. JobFits(t)'
    BY <1>3, <1>4, <1>6 DEF JobFits
  <2>2. ASSUME NEW u \in {1, 2}, u # t PROVE JobFits(u)'
    <3>1. JobFits(u) /\ v3'[u] = v3[u]
      BY <2>2, <1>4 DEF ChatInv
    <3> QED
      BY <3>1, <1>u, <1>6 DEF JobFits
  <2> QED
    BY <2>1, <2>2
<1>r. RowsStay
  BY <1>u, ChatRowsSame
<1>13. WholeKept(v4.messages)'
  <2>1. WholeKept(list)'
    BY <1>5, <1>9, <1>r, WholeStays
  <2>2. ASSUME NEW i \in DOMAIN v4'.messages
        PROVE  /\ v3'[v4'.messages[i].t].stage # "idle"
               /\ v4'.messages[i].answer = "whole" => TurnEnded(v4.messages[i].t)' /\ Kept(v4.messages[i].t)'
    <3>1. CASE i \in DOMAIN list
      <4>1. v4'.messages[i] = list[i]
        BY <3>1, <1>6, <1>7
      <4> QED
        BY <4>1, <3>1, <2>1 DEF WholeKept, TurnEnded, Kept
    <3>2. CASE i \notin DOMAIN list
      <4>1. v4'.messages[i] = q
        BY <3>2, <2>2, <1>6, <1>7
      <4> QED
        BY <4>1, <1>3, <1>4
    <3> QED
      BY <3>1, <3>2
  <2> QED
    BY <2>2 DEF WholeKept, TurnEnded, Kept
<1>14. ASSUME NEW u \in {1, 2}, v3'[u].stage = "done", v3'[u].heard PROVE Kept(u)'
  BY <1>u, <1>3, <1>4, <1>14 DEF Kept, ChatInv, TellsWhole
<1>15. /\ ChatTyped' /\ (\A u \in {1, 2} : JobFits(u)') /\ OneLive' /\ RowsAtHome' /\ TellsWhole' /\ Deleted'
  BY <1>u, <1>8, <1>9, <1>11, <1>12, <1>13, <1>14, ChatBase
<1>16. ASSUME ~v9' PROVE (\A u \in {1, 2} : TurnFits(u)') /\ ShownOwn' /\ OneThing'
  <2>1. /\ ~v9 /\ v4.loads = {} /\ v6 = {} /\ ShownOwn /\ OneThing
        /\ \A u \in {1, 2} : TurnFits(u)
    BY <1>2, <1>16, ChatFields DEF ChatInv
  <2>2. \A c \in {1, 2} : \A i \in DOMAIN v5[c] : v5[c][i].t # t
    BY <1>2, ChatSorts DEF ChatInv, TellsWhole, WholeKept
  <2>3. TurnFits(t)'
    <3>1. v4.active # 0 => v1[v4.active] # <<>>
      BY <2>1 DEF OneThing
    <3> QED
      BY <3>1, <2>2, <1>u, <1>3, <1>4, <1>6 DEF TurnFits
  <2>4. ASSUME NEW u \in {1, 2}, u # t PROVE TurnFits(u)'
    <3>1. TurnFits(u) /\ v3'[u] = v3[u] /\ ~Live(u)'
      BY <2>1, <2>4, <1>4, <1>10
    <3> QED
      BY <3>1, <1>u, <1>6 DEF TurnFits, Chat!Cid
  <2>5. \A c \in {1, 2} : \A u \in {1, 2} : u # t => (OwnTurn(c, u)' <=> OwnTurn(c, u))
    BY <1>4 DEF OwnTurn
  <2>6. ShownOwn'
    <3>1. ASSUME NEW i \in DOMAIN v4'.messages, NEW u, u = v4'.messages[i].t
          PROVE  IF v4'.active # 0 THEN OwnTurn(v4.active, u)'
                 ELSE v3'[u].to = 0 /\ (v3'[u].conv = 0 \/ Live(u)')
      <4>1. CASE i \in DOMAIN list
        <5>1. u = list[i].t /\ u \in {1, 2} /\ v3[u].stage # "idle"
          BY <4>1, <3>1, <1>1, <1>5, <1>6, <1>7, ChatListed DEF WholeKept
        <5>2. u # t /\ v3'[u] = v3[u]
          BY <5>1, <1>2, <1>4, ChatSorts
        <5>3. IF v4.active # 0 THEN OwnTurn(v4.active, u) ELSE v3[u].to = 0 /\ (v3[u].conv = 0 \/ Live(u))
          BY <5>1, <4>1, <1>1, <2>1 DEF ShownOwn
        <5> QED
          BY <5>1, <5>2, <5>3, <1>3, <1>6, <1>10 DEF OwnTurn
      <4>2. CASE i \notin DOMAIN list
        <5>1. u = t
          BY <4>2, <3>1, <1>3, <1>6, <1>7
        <5> QED
          BY <5>1, <1>3, <1>4, <1>6 DEF OwnTurn
      <4> QED
        BY <4>1, <4>2
    <3>2. ASSUME NEW c \in {1, 2}, NEW i \in DOMAIN v5[c] PROVE OwnTurn(c, v5[c][i].t)'
      <4>1. PICK u \in {1, 2} : u = v5[c][i].t
        BY ChatListed
      <4>2. OwnTurn(c, u) /\ u # t
        BY <4>1, <2>1, <2>2 DEF ShownOwn
      <4> QED
        BY <4>1, <4>2, <2>5, <1>u DEF OwnTurn
    <3> QED
      BY <3>1, <3>2, <1>u DEF ShownOwn, OwnTurn, Live
  <2>7. OneThing'
    BY <2>1, <1>u, <1>6 DEF OneThing
  <2> QED
    BY <2>3, <2>4, <2>6, <2>7
<1> QED
  BY <1>15, <1>16 DEF ChatInv

\* The conversation of a question is the one it was asked in, or the next.
LEMMA ChatHomeOf ==
  ASSUME ChatInv, NEW t \in {1, 2}, NEW h \in {1, 2}, h = Chat!HomeOf(t)
  PROVE  /\ v2 \cup {h} \in {{}, {1}, {1, 2}}
         /\ \/ v3[t].to = h /\ h \in v2 /\ v1[h] # <<>>
            \/ h \notin v2 /\ v1[h] = <<>> /\ (v3[t].to # 0 => v1[v3[t].to] = <<>>)
<1>1. v3[t].to \in {0, 1, 2} /\ v2 \in {{}, {1}, {1, 2}} /\ \A c \in {1, 2} : c \notin v2 => v1[c] = <<>>
  BY ChatFields DEF ChatInv, RowsAtHome
<1>2. CASE v3[t].to # 0 /\ v1[v3[t].to] # <<>>
  <2>1. v3[t].to \in {1, 2} /\ v3[t].to \in v2
    BY <1>1, <1>2
  <2>2. h = v3[t].to
    BY <2>1, <1>2, ChatSorts, ChatExists DEF Chat!HomeOf
  <2> QED
    BY <2>1, <2>2, <1>1, <1>2
<1>3. CASE ~(v3[t].to # 0 /\ v1[v3[t].to] # <<>>)
  <2>1. h = 1 + Cardinality(v2)
    BY <1>1, <1>3, ChatSorts, ChatExists DEF Chat!HomeOf, Chat!Cardinality, Cardinality
  <2>2. Cardinality({}) = 0 /\ Cardinality({1}) = 1 /\ Cardinality({1, 2}) = 2
    <3>1. IsFiniteSet({1}) /\ Cardinality({1}) = 1
      BY FS_Singleton
    <3>2. Cardinality({1} \cup {2}) = Cardinality({1}) + 1
      BY <3>1, FS_AddElement
    <3>3. {1, 2} = {1} \cup {2}
      OBVIOUS
    <3>4. Cardinality({}) = 0
      BY FS_EmptySet
    <3> QED
      BY <3>1, <3>2, <3>3, <3>4
  <2>3. (v2 = {} /\ h = 1) \/ (v2 = {1} /\ h = 2)
    <3>1. v2 # {1, 2}
      <4>1. CASE v2 = {1, 2}
        <5>1. h = 3
          BY <4>1, <2>1, <2>2
        <5> QED
          BY <5>1
      <4> QED
        BY <4>1
    <3>2. v2 = {} => h = 1
      BY <2>1, <2>2
    <3>3. v2 = {1} => h = 2
      BY <2>1, <2>2
    <3> QED
      BY <3>1, <3>2, <3>3, <1>1
  <2>4. h \notin v2 /\ v2 \cup {h} \in {{}, {1}, {1, 2}}
    BY <2>3
  <2> QED
    BY <2>4, <1>1, <1>3
<1> QED
  BY <1>2, <1>3

LEMMA ChatCreates ==
  ASSUME ChatInv, NEW t \in {1, 2}, Chat!load_or_create_conversation(t)
  PROVE  ChatInv'
<1>u. UNCHANGED <<v4, v5, v6, v7, v9>>
  BY DEF Chat!load_or_create_conversation
<1>1. PICK h, k, q : /\ h = Chat!HomeOf(t) /\ k = [v3[t] EXCEPT !.stage = "open", !.conv = h]
                     /\ q = Chat!Turn(t, "none")
  OBVIOUS
<1>2. /\ v3[t].stage = "sent" /\ h \in {1, 2} /\ v2' = v2 \cup {h}
      /\ v1' = [v1 EXCEPT ![h] = Append(@, q)] /\ v3' = [v3 EXCEPT ![t] = k]
  <2>1. v3' = [v3 EXCEPT ![t].stage = "open", ![t].conv = h]
    BY <1>1 DEF Chat!load_or_create_conversation
  <2>2. v3' = [v3 EXCEPT ![t] = k]
    BY <1>1, <2>1, ChatFields DEF ChatJobs
  <2> QED
    BY <1>1, <2>2 DEF Chat!load_or_create_conversation
<1>3. /\ v2 \cup {h} \in {{}, {1}, {1, 2}}
      /\ \/ v3[t].to = h /\ h \in v2 /\ v1[h] # <<>>
         \/ h \notin v2 /\ v1[h] = <<>> /\ (v3[t].to # 0 => v1[v3[t].to] = <<>>)
  BY <1>1, <1>2, ChatHomeOf
<1>4. /\ k \in ChatJobs /\ k.stage = "open" /\ k.conv = h /\ k.to = v3[t].to /\ k.heard = v3[t].heard
      /\ v3[t].conv = 0 /\ ~v3[t].saved /\ ~k.saved /\ q \in ChatRows /\ q.t = t /\ q.answer = "none"
  <2>1. v3[t] \in ChatJobs /\ v3[t].conv = 0 /\ (v3[t].saved => v3[t].conv # 0)
    BY <1>2, ChatFields DEF ChatInv, JobFits
  <2>2. k \in ChatJobs /\ k.stage = "open" /\ k.conv = h /\ k.to = v3[t].to /\ k.heard = v3[t].heard /\ k.saved = v3[t].saved
    BY <1>1, <1>2, <2>1 DEF ChatJobs
  <2>3. q \in ChatRows /\ q.t = t /\ q.answer = "none"
    BY <1>1 DEF ChatRows, Chat!Turn
  <2> QED
    BY <2>1, <2>2, <2>3
<1>5. v3' \in [{1, 2} -> ChatJobs] /\ v3'[t] = k /\ \A u \in {1, 2} : u # t => v3'[u] = v3[u]
  BY <1>2, <1>4, ChatJob
<1>6. PICK list : list = v1[h] /\ list \in Seq(ChatRows)
  BY <1>2, ChatFields
<1>7. /\ Append(list, q) \in Seq(ChatRows) /\ Len(list) \in Nat /\ DOMAIN list = 1..Len(list)
      /\ DOMAIN Append(list, q) = 1..(Len(list) + 1) /\ Append(list, q) # <<>>
      /\ (\A i \in DOMAIN list : Append(list, q)[i] = list[i]) /\ Append(list, q)[Len(list) + 1] = q
  BY <1>4, <1>6
<1>8. /\ v1' \in [{1, 2} -> Seq(ChatRows)] /\ v1'[h] = Append(list, q)
      /\ \A c \in {1, 2} : c # h => v1'[c] = v1[c]
  BY <1>2, <1>6, <1>7, ChatFields
<1>9. ChatTyped' /\ Deleted'
  <2>1. ChatTyped'
    BY <1>u, <1>2, <1>3, <1>5, <1>8, ChatFields DEF ChatInv, ChatTyped
  <2>2. Deleted'
    BY <1>u, <1>2, <1>7, <1>8, ChatFields DEF ChatInv, Deleted
  <2> QED
    BY <2>1, <2>2
<1>10. JobsGoOn
  BY <1>2, <1>4, <1>5 DEF JobsGoOn, TurnEnded
<1>11. RowsStay
  <2>1. ASSUME NEW c \in {1, 2}, c \in v2, c # h, v1'[c] # <<>>
        PROVE  /\ v1[c] # <<>>
               /\ \A j \in DOMAIN v1[c] : /\ j \in DOMAIN v1'[c] /\ v1'[c][j].t = v1[c][j].t
                                          /\ v1[c][j].answer = "whole" => v1'[c][j].answer = "whole"
    BY <2>1, <1>8
  <2>2. ASSUME h \in v2
        PROVE  /\ v1[h] # <<>>
               /\ \A j \in DOMAIN v1[h] : /\ j \in DOMAIN v1'[h] /\ v1'[h][j].t = v1[h][j].t
                                          /\ v1[h][j].answer = "whole" => v1'[h][j].answer = "whole"
    BY <2>2, <1>3, <1>6, <1>7, <1>8
  <2> QED
    BY <2>1, <2>2 DEF RowsStay
<1>12. \A u \in {1, 2} : Live(u)' <=> Live(u)
  BY <1>2, <1>4, <1>5 DEF Live
<1>13. OneLive' /\ \A u \in {1, 2} : JobFits(u)'
  <2>1. OneLive'
    BY <1>12 DEF ChatInv, OneLive
  <2>2. JobFits(t)'
    <3>1. JobFits(t)
      BY DEF ChatInv
    <3>2. \E j \in DOMAIN v1'[h] : v1'[h][j].t = t
      <4>1. Len(list) + 1 \in DOMAIN v1'[h] /\ v1'[h][Len(list) + 1] = q
        BY <1>7, <1>8
      <4> QED
        BY <4>1, <1>4
    <3>3. Live(t)' => v4'.streaming
      BY <3>1, <1>u, <1>12 DEF JobFits
    <3> QED
      BY <3>1, <3>2, <3>3, <1>2, <1>4, <1>5 DEF JobFits
  <2>3. ASSUME NEW u \in {1, 2}, u # t PROVE JobFits(u)'
    <3>1. JobFits(u) /\ v3'[u] = v3[u] /\ v3[u].conv \in {0, 1, 2}
      BY <2>3, <1>5, ChatFields DEF ChatInv
    <3>2. ASSUME NEW c \in {1, 2}, c = v3[u].conv, c # 0, v3[u].stage = "open", v1'[c] # <<>>
          PROVE  \E j \in DOMAIN v1'[c] : v1'[c][j].t = u
      <4>1. c \in v2
        BY <3>1, <3>2 DEF JobFits
      <4>2. /\ v1[c] # <<>>
            /\ \A j \in DOMAIN v1[c] : j \in DOMAIN v1'[c] /\ v1'[c][j].t = v1[c][j].t
        BY <3>2, <4>1, <1>11 DEF RowsStay
      <4>3. PICK j \in DOMAIN v1[c] : v1[c][j].t = u
        BY <3>1, <3>2, <4>2 DEF JobFits
      <4> QED
        BY <4>2, <4>3
    <3>3. Live(u)' => v4'.streaming
      BY <3>1, <1>u, <1>12 DEF JobFits
    <3> QED
      BY <3>1, <3>2, <3>3, <1>2 DEF JobFits
  <2> QED
    BY <2>1, <2>2, <2>3
<1>14. RowsAtHome'
  <2>1. ASSUME NEW c \in {1, 2} PROVE c \notin v2' => v1'[c] = <<>>
    BY <1>2, <1>8 DEF ChatInv, RowsAtHome
  <2>2. ASSUME NEW c \in {1, 2}, NEW i \in DOMAIN v1'[c], NEW u, u = v1'[c][i].t
        PROVE  v3'[u].conv = c /\ (v1'[c][i].answer = "whole" => TurnEnded(u)')
    <3>1. CASE i \in DOMAIN v1[c] /\ v1'[c][i] = v1[c][i]
      <4>1. v3[u].conv = c /\ (v1[c][i].answer = "whole" => TurnEnded(u)) /\ u \in {1, 2}
        BY <2>2, <3>1, ChatListed DEF ChatInv, RowsAtHome
      <4> QED
        BY <3>1, <4>1, <1>10 DEF JobsGoOn
    <3>2. CASE c = h /\ v1'[c][i] = q
      BY <2>2, <3>2, <1>4, <1>5
    <3>3. c # h => i \in DOMAIN v1[c] /\ v1'[c][i] = v1[c][i]
      BY <2>2, <1>8
    <3>4. ASSUME c = h PROVE (i \in DOMAIN v1[c] /\ v1'[c][i] = v1[c][i]) \/ v1'[c][i] = q
      BY <2>2, <3>4, <1>6, <1>7, <1>8
    <3> QED
      BY <3>1, <3>2, <3>3, <3>4
  <2> QED
    BY <2>1, <2>2 DEF RowsAtHome, TurnEnded
<1>15. TellsWhole'
  <2>1. ASSUME NEW u \in {1, 2}, v3'[u].stage = "done", v3'[u].heard PROVE Kept(u)'
    <3>1. u # t /\ v3'[u] = v3[u] /\ Kept(u)
      BY <2>1, <1>4, <1>5 DEF ChatInv, TellsWhole
    <3> QED
      BY <3>1, <1>11, KeptStays
  <2> QED
    BY <2>1, <1>u, <1>10, <1>11, ChatTold
<1>16. ASSUME ~v9' PROVE (\A u \in {1, 2} : TurnFits(u)') /\ ShownOwn' /\ OneThing'
  <2>1. (\A u \in {1, 2} : TurnFits(u)) /\ ShownOwn /\ OneThing /\ v4.active \in {0, 1, 2}
    BY <1>u, <1>16, ChatFields DEF ChatInv
  <2>2. v3[t].to # 0 => h = v3[t].to
    BY <2>1, <1>2, <1>3 DEF TurnFits
  <2>3. v3[t].to = 0 => Live(t) /\ v4.active = 0
    BY <2>1, <1>2, ChatFields DEF TurnFits, Live, ChatJobs
  <2>4. \A c \in {1, 2} : v1[c] # <<>> => v1'[c] # <<>>
    BY <1>7, <1>8
  <2>5. TurnFits(t)'
    <3>1. TurnFits(t)
      BY <2>1
    <3> QED
      BY <3>1, <2>2, <1>u, <1>2, <1>4, <1>5, <1>7, <1>8, <1>12 DEF TurnFits
  <2>6. ASSUME NEW u \in {1, 2}, u # t PROVE TurnFits(u)'
    <3>1. TurnFits(u) /\ v3'[u] = v3[u] /\ (Live(u)' <=> Live(u)) /\ v3[u].to \in {0, 1, 2} /\ v3[u].conv \in {0, 1, 2}
      BY <2>1, <2>6, <1>5, <1>12, ChatFields
    <3> QED
      BY <3>1, <2>4, <1>u DEF TurnFits, Chat!Cid
  <2>7. ASSUME NEW c \in {1, 2}, NEW u \in {1, 2}, OwnTurn(c, u), u = t => v3[t].to # 0 PROVE OwnTurn(c, u)'
    BY <2>2, <2>7, <1>4, <1>5 DEF OwnTurn
  <2>8. ShownOwn'
    <3>1. ASSUME NEW i \in DOMAIN v4.messages, NEW u, u = v4.messages[i].t
          PROVE  IF v4.active # 0 THEN OwnTurn(v4.active, u)'
                 ELSE v3'[u].to = 0 /\ (v3'[u].conv = 0 \/ Live(u)')
      <4>1. u \in {1, 2} /\ IF v4.active # 0 THEN OwnTurn(v4.active, u)
                            ELSE v3[u].to = 0 /\ (v3[u].conv = 0 \/ Live(u))
        BY <2>1, <3>1, ChatListed DEF ShownOwn
      <4>2. CASE v4.active # 0
        <5>1. v4.active \in {1, 2} /\ OwnTurn(v4.active, u) /\ v3[t].to # 0
          BY <4>1, <4>2, <2>1, <2>3
        <5>2. OwnTurn(v4.active, u)'
          BY <4>1, <5>1, <1>u, <2>7
        <5> QED
          BY <4>2, <5>2, <1>u
      <4>3. CASE v4.active = 0
        <5>1. v3[u].to = 0 /\ (u = t => Live(t))
          BY <4>1, <4>3, <2>3
        <5> QED
          BY <4>1, <4>3, <5>1, <1>4, <1>5, <1>12
      <4> QED
        BY <4>2, <4>3
    <3>2. ASSUME NEW c \in {1, 2}, NEW i \in DOMAIN v5[c], NEW u, u = v5[c][i].t PROVE OwnTurn(c, u)'
      <4>1. u \in {1, 2} /\ OwnTurn(c, u)
        BY <2>1, <3>2, ChatListed DEF ShownOwn
      <4>2. u = t => v3[t].to # 0
        BY <2>1, <3>2, <1>2 DEF TurnFits
      <4> QED
        BY <4>1, <4>2, <2>7
    <3> QED
      BY <3>1, <3>2, <1>u DEF ShownOwn, OwnTurn, Live
  <2>9. OneThing'
    <3>1. Working
      BY <1>2 DEF Working
    <3> QED
      BY <3>1, <2>1, <2>4, <1>u DEF OneThing
  <2> QED
    BY <2>5, <2>6, <2>8, <2>9
<1> QED
  BY <1>9, <1>13, <1>14, <1>15, <1>16 DEF ChatInv

\* The answer among the rows of its conversation.
LEMMA ChatMarkedRows ==
  ASSUME NEW list \in Seq(ChatRows), NEW t, NEW f, f = Chat!Marked(list, t, "whole")
  PROVE  /\ f \in Seq(ChatRows) /\ DOMAIN f = DOMAIN list /\ (f = <<>> <=> list = <<>>)
         /\ \A i \in DOMAIN list : /\ f[i] \in ChatRows /\ f[i].t = list[i].t
                                   /\ f[i].answer = IF list[i].t = t THEN "whole" ELSE list[i].answer
<1>1. f = [i \in DOMAIN list |-> IF list[i].t = t THEN [list[i] EXCEPT !.answer = "whole"] ELSE list[i]]
  BY DEF Chat!Marked
<1>2. ASSUME NEW i \in DOMAIN list
      PROVE  /\ f[i] \in ChatRows /\ f[i].t = list[i].t
             /\ f[i].answer = IF list[i].t = t THEN "whole" ELSE list[i].answer
  <2>1. list[i] \in ChatRows
    OBVIOUS
  <2>2. PICK r : r = list[i]
    OBVIOUS
  <2>3. f[i] = IF r.t = t THEN [r EXCEPT !.answer = "whole"] ELSE r
    BY <1>1, <2>2
  <2> QED
    BY <2>1, <2>2, <2>3 DEF ChatRows
<1>3. DOMAIN f = DOMAIN list /\ f = [i \in DOMAIN f |-> f[i]]
  BY <1>1
<1> QED
  BY <1>2, <1>3, ChatMaps

LEMMA ChatAnswers ==
  ASSUME ChatInv, AnswersSaved, NEW t \in {1, 2}, Chat!answered(t) \/ Chat!fallback(t)
  PROVE  ChatInv'
<1>a. "tools" \notin Acts.chat /\ "fallback" \notin Acts.chat
  BY DEF AnswersSaved
<1>u. UNCHANGED <<v2, v4, v5, v6, v7, v9>>
  BY <1>a DEF Chat!answered, Chat!fallback
<1>0. PICK c, list, f : c = v3[t].conv /\ list = v1[c] /\ f = Chat!Marked(list, t, "whole")
  OBVIOUS
<1>1. PICK saved, k : /\ v3[t].stage = "open" /\ saved \in BOOLEAN
                      /\ k = [v3[t] EXCEPT !.stage = IF v3[t].heard THEN "done" ELSE "over", !.saved = saved]
                      /\ v1' = IF saved THEN [v1 EXCEPT ![c] = f] ELSE v1
                      /\ v3' = [v3 EXCEPT ![t].stage = IF v3[t].heard THEN "done" ELSE "over", ![t].saved = saved]
                      /\ v3[t].heard => saved = Chat!Exists(c)
                      /\ saved => Chat!Exists(c)
  <2>1. PICK saved \in {Chat!Saves(t, 0)} \cup (IF v3[t].heard THEN {} ELSE {FALSE}) :
          /\ v3[t].stage = "open"
          /\ v1' = IF saved THEN [v1 EXCEPT ![c] = f] ELSE v1
          /\ v3' = [v3 EXCEPT ![t].stage = IF v3[t].heard THEN "done" ELSE "over", ![t].saved = saved]
    BY <1>a, <1>0 DEF Chat!answered, Chat!fallback
  <2>2. Chat!Saves(t, 0) = Chat!Exists(c)
    BY <1>0 DEF Chat!Saves, Chat!Exists
  <2>3. saved \in BOOLEAN
    BY <2>2 DEF Chat!Exists
  <2> QED
    BY <2>1, <2>2, <2>3
<1>2. v3' = [v3 EXCEPT ![t] = k]
  BY <1>1, ChatFields DEF ChatJobs
<1>3. /\ c \in {1, 2} /\ c \in v2
      /\ v1[c] # <<>> => \E j \in DOMAIN v1[c] : v1[c][j].t = t
  BY <1>0, <1>1, ChatFields DEF ChatInv, JobFits
<1>4. (v3[t].heard => (saved <=> v1[c] # <<>>)) /\ (saved => v1[c] # <<>>)
  BY <1>1, <1>3, ChatExists
<1>5. /\ k \in ChatJobs /\ k.stage \in {"done", "over"} /\ (k.stage = "done" <=> v3[t].heard)
      /\ k.to = v3[t].to /\ k.conv = v3[t].conv /\ k.heard = v3[t].heard /\ k.saved = saved
  BY <1>1, ChatFields DEF ChatJobs
<1>6. Goes(t, k)
  <2>1. v3[t].stage = "open" /\ v3[t].conv # 0
    BY <1>0, <1>1, <1>3
  <2> QED
    BY <2>1, <1>2, <1>5 DEF Goes
<1>7. /\ v3' \in [{1, 2} -> ChatJobs] /\ v3'[t] = k /\ (\A u \in {1, 2} : u # t => v3'[u] = v3[u])
      /\ JobsGoOn /\ OneLive' /\ \A u \in {1, 2} : Live(u)' => Live(u)
  BY <1>6, ChatGoes
<1>8. list \in Seq(ChatRows)
  BY <1>0, <1>3, ChatFields
<1>9. /\ f \in Seq(ChatRows) /\ DOMAIN f = DOMAIN list /\ (f = <<>> <=> list = <<>>)
      /\ \A i \in DOMAIN list : /\ f[i] \in ChatRows /\ f[i].t = list[i].t
                                /\ f[i].answer = IF list[i].t = t THEN "whole" ELSE list[i].answer
  BY <1>0, <1>8, ChatMarkedRows
<1>10. /\ v1' \in [{1, 2} -> Seq(ChatRows)] /\ (v1'[c] = IF saved THEN f ELSE list)
       /\ \A b \in {1, 2} : b # c => v1'[b] = v1[b]
  BY <1>0, <1>1, <1>3, <1>9, ChatFields
<1>11. \A b \in {1, 2} : /\ v1'[b] # <<>> <=> v1[b] # <<>>
                         /\ DOMAIN v1'[b] = DOMAIN v1[b]
                         /\ \A i \in DOMAIN v1[b] : /\ v1'[b][i].t = v1[b][i].t
                                                    /\ v1[b][i].answer = "whole" => v1'[b][i].answer = "whole"
                                                    /\ v1'[b][i].answer = "whole" => v1[b][i].answer = "whole" \/ v1[b][i].t = t
  BY <1>0, <1>9, <1>10
<1>12. RowsStay
  BY <1>11 DEF RowsStay
<1>13. ChatTyped' /\ Deleted'
  <2>1. ChatTyped'
    BY <1>u, <1>7, <1>10 DEF ChatInv, ChatTyped
  <2>2. \A b \in {1, 2} : v1'[b] = <<>> => v1[b] = <<>>
    BY <1>11
  <2>3. Deleted'
    BY <1>u, <2>2, ChatFields DEF ChatInv, Deleted
  <2> QED
    BY <2>1, <2>3
<1>14. \A u \in {1, 2} : JobFits(u)'
  BY <1>6, <1>12, <1>u, ChatFits
<1>15. RowsAtHome'
  <2>1. ASSUME NEW b \in {1, 2} PROVE b \notin v2' => v1'[b] = <<>>
    BY <1>u, <1>11 DEF ChatInv, RowsAtHome
  <2>2. ASSUME NEW b \in {1, 2}, NEW i \in DOMAIN v1'[b], NEW u, u = v1'[b][i].t
        PROVE  v3'[u].conv = b /\ (v1'[b][i].answer = "whole" => TurnEnded(u)')
    <3>1. i \in DOMAIN v1[b] /\ u = v1[b][i].t /\ u \in {1, 2}
      BY <2>2, <1>11, ChatListed
    <3>2. v3[u].conv = b /\ (v1[b][i].answer = "whole" => TurnEnded(u))
      BY <3>1 DEF ChatInv, RowsAtHome
    <3>3. v3'[u].conv = b /\ (TurnEnded(u) => TurnEnded(u)')
      BY <3>1, <3>2, <1>7 DEF JobsGoOn
    <3>4. u = t => TurnEnded(u)'
      BY <1>5, <1>7 DEF TurnEnded
    <3>5. v1'[b][i].answer = "whole" => v1[b][i].answer = "whole" \/ u = t
      BY <3>1, <1>11
    <3> QED
      BY <3>2, <3>3, <3>4, <3>5
  <2> QED
    BY <2>1, <2>2 DEF RowsAtHome, TurnEnded
<1>16. TellsWhole'
  <2>1. ASSUME NEW u \in {1, 2}, v3'[u].stage = "done", v3'[u].heard PROVE Kept(u)'
    <3>1. CASE u # t
      <4>1. v3'[u] = v3[u] /\ Kept(u)
        BY <2>1, <3>1, <1>7 DEF ChatInv, TellsWhole
      <4> QED
        BY <4>1, <1>12, KeptStays
    <3>2. CASE u = t
      <4>1. v3'[t].conv = c /\ v3[t].heard
        BY <2>1, <3>2, <1>0, <1>5, <1>7
      <4>2. ASSUME v1'[c] # <<>>
            PROVE  \E j \in DOMAIN v1'[c] : v1'[c][j].t = t /\ v1'[c][j].answer = "whole"
        <5>1. saved /\ v1'[c] = f
          BY <4>1, <4>2, <1>4, <1>10, <1>11, <1>3
        <5>2. PICK j \in DOMAIN v1[c] : v1[c][j].t = t
          BY <5>1, <1>3, <1>4
        <5> QED
          BY <5>1, <5>2, <1>0, <1>9
      <4> QED
        BY <3>2, <4>1, <4>2 DEF Kept
    <3> QED
      BY <3>1, <3>2
  <2> QED
    BY <2>1, <1>u, <1>7, <1>12, ChatTold
<1>17. ASSUME ~v9' PROVE (\A u \in {1, 2} : TurnFits(u)') /\ ShownOwn' /\ OneThing'
  <2>1. Live(t) => k.stage \in {"sent", "open", "done", "error"}
    BY <1>5 DEF Live
  <2>2. SameTurns(v4.messages, v4.messages) /\ \A b \in {1, 2} : SameTurns(v5[b], v5[b])
    BY DEF SameTurns
  <2>3. \A b \in {1, 2} : v1'[b] # <<>> <=> v1[b] # <<>>
    BY <1>11
  <2> QED
    BY <1>17, <2>1, <2>2, <2>3, <1>u, <1>5, <1>6, ChatTurns
<1> QED
  BY <1>7, <1>13, <1>14, <1>15, <1>16, <1>17 DEF ChatInv

LEMMA ChatEnds ==
  ASSUME ChatInv, NEW t \in {1, 2}, Chat!onDone(t)
  PROVE  ChatInv'
<1>u. UNCHANGED <<v1, v2, v6, v7, v9>>
  BY DEF Chat!onDone
<1>0. PICK list, f, a, b : /\ list = v4.messages /\ f = Chat!Marked(list, t, "whole")
                           /\ a = Chat!Active(t) /\ b = Chat!Cid(t)
  OBVIOUS
<1>1. PICK stage, k :
        /\ stage \in {"over", "cars"} /\ v3[t].stage = "done" /\ v3[t].heard /\ k = [v3[t] EXCEPT !.stage = stage]
        /\ v3' = [v3 EXCEPT ![t].stage = stage] /\ (stage = "cars" => v3[t].saved)
        /\ v4' = [v4 EXCEPT !.messages = f, !.active = a, !.streaming = FALSE]
        /\ v5' = IF b # 0 THEN [v5 EXCEPT ![b] = f] ELSE v5
  BY <1>0, ChatSorts DEF Chat!onDone
<1>2. v3' = [v3 EXCEPT ![t] = k]
  BY <1>1, ChatFields
<1>3. /\ k \in ChatJobs /\ k.stage = stage /\ k.to = v3[t].to /\ k.conv = v3[t].conv
      /\ k.heard /\ k.saved = v3[t].saved /\ v3[t] \in ChatJobs /\ (v3[t].saved => v3[t].conv # 0)
      /\ v3[t].to \in {0, 1, 2} /\ v3[t].conv \in {0, 1, 2}
  <2>1. v3[t] \in ChatJobs /\ (v3[t].saved => v3[t].conv # 0)
    BY ChatFields DEF ChatInv, JobFits
  <2> QED
    BY <2>1, <1>1 DEF ChatJobs
<1>4. Goes(t, k)
  BY <1>1, <1>2, <1>3 DEF Goes
<1>5. /\ v3' \in [{1, 2} -> ChatJobs] /\ v3'[t] = k /\ (\A u \in {1, 2} : u # t => v3'[u] = v3[u])
      /\ JobsGoOn /\ OneLive' /\ \A u \in {1, 2} : Live(u)' => Live(u)
  BY <1>4, ChatGoes
<1>r. RowsStay
  BY <1>u, ChatRowsSame
<1>6. /\ Live(t) /\ ~Live(t)' /\ (\A u \in {1, 2} : ~Live(u)') /\ (\A u \in {1, 2} : Live(u) => u = t)
      /\ TurnEnded(t)' /\ Kept(t)'
  <2>1. Live(t) /\ ~Live(t)'
    BY <1>1, <1>3, <1>5 DEF Live
  <2>2. TurnEnded(t)' /\ Kept(t)
    BY <1>1, <1>3, <1>5 DEF TurnEnded, ChatInv, TellsWhole
  <2>3. Kept(t)'
    BY <2>2, <1>3, <1>5, <1>r, KeptStays
  <2> QED
    BY <2>1, <2>2, <2>3, <1>5 DEF ChatInv, OneLive
<1>7. \A u \in {1, 2} : JobFits(u)'
  BY <1>4, <1>u, <1>r, <1>6, ChatFits
<1>8. f \in Seq(ChatShown) /\ WholeKept(f)' /\ SameTurns(f, list)
  <2>1. list \in Seq(ChatShown) /\ WholeKept(list)
    BY <1>0, ChatFields DEF ChatInv, TellsWhole
  <2>2. /\ DOMAIN f = DOMAIN list /\ f = [i \in DOMAIN f |-> f[i]]
        /\ \A i \in DOMAIN list : /\ f[i] \in ChatShown /\ f[i].t = list[i].t
                                  /\ f[i].answer = IF list[i].t = t THEN "whole" ELSE list[i].answer
    BY <1>0, <2>1, ChatMarked
  <2> QED
    BY <2>1, <2>2, <1>5, <1>6, <1>r, ChatDrawn
<1>9. /\ a = IF v3[t].conv # 0 /\ v3[t].to = 0 THEN v3[t].conv ELSE v4.active
      /\ b = IF v3[t].conv # 0 THEN v3[t].conv ELSE v3[t].to
      /\ b \in {0, 1, 2} /\ a \in {0} \cup v2 /\ a \in {0, 1, 2}
  <2>1. v3[t].conv # 0 => v3[t].conv \in v2
    BY DEF ChatInv, JobFits
  <2> QED
    BY <2>1, <1>0, <1>3, ChatSorts, ChatFields DEF Chat!Active, Chat!Cid
<1>10. /\ v4' \in ChatPages /\ v4'.messages = f /\ v4'.active = a /\ v4'.loads = v4.loads
       /\ v4'.streaming = FALSE
  BY <1>1, <1>8, <1>9, ChatFields DEF ChatPages
<1>11. /\ v5' \in [{1, 2} -> Seq(ChatShown)]
       /\ \A c \in {1, 2} : v5'[c] = IF c = b THEN f ELSE v5[c]
  BY <1>1, <1>8, <1>9, ChatFields
<1>12. ChatTyped' /\ Deleted'
  BY <1>u, <1>5, <1>9, <1>10, <1>11 DEF ChatInv, ChatTyped, Deleted
<1>13. ASSUME NEW u \in {1, 2}, v3'[u].stage = "done", v3'[u].heard PROVE Kept(u)'
  BY <1>6, <1>13 DEF Live
<1>14. /\ ChatTyped' /\ (\A u \in {1, 2} : JobFits(u)') /\ OneLive' /\ RowsAtHome' /\ TellsWhole' /\ Deleted'
  <2>1. WholeKept(v4.messages)'
    BY <1>8, <1>10 DEF WholeKept, TurnEnded, Kept
  <2>2. ASSUME NEW c \in {1, 2} PROVE v5'[c] = v5[c] \/ WholeKept(v5[c])'
    <3>1. CASE c = b
      <4>1. v5'[c] = f
        BY <3>1, <1>11
      <4> QED
        BY <4>1, <1>8 DEF WholeKept, TurnEnded, Kept
    <3>2. CASE c # b
      BY <3>2, <1>11
    <3> QED
      BY <3>1, <3>2
  <2> QED
    BY <2>1, <2>2, <1>u, <1>5, <1>7, <1>12, <1>13, ChatBase
<1>15. ASSUME ~v9' PROVE (\A u \in {1, 2} : TurnFits(u)') /\ ShownOwn' /\ OneThing'
  <2>1. /\ ~v9 /\ (\A u \in {1, 2} : TurnFits(u)) /\ ShownOwn /\ OneThing /\ v4.active \in {0, 1, 2}
        /\ Working /\ v4.loads = {} /\ v6 = {}
    <3>1. ~v9 /\ (\A u \in {1, 2} : TurnFits(u)) /\ ShownOwn /\ OneThing /\ v4.active \in {0, 1, 2}
      BY <1>u, <1>15, ChatFields DEF ChatInv
    <3>2. Working
      BY <1>6 DEF Working
    <3> QED
      BY <3>1, <3>2 DEF OneThing
  <2>2. v3[t].to = v4.active /\ (v3[t].to # 0 /\ v3[t].conv # 0 => v3[t].conv = v3[t].to)
    BY <2>1, <1>6 DEF TurnFits
  <2>3. \/ v4.active # 0 /\ a = v4.active /\ b = v4.active
        \/ v4.active = 0 /\ a = v3[t].conv /\ b = v3[t].conv /\ v3[t].to = 0
    BY <2>2, <1>9
  <2>4. \A u \in {1, 2} : /\ v3'[u].to = v3[u].to /\ v3'[u].conv = v3[u].conv
                          /\ v3'[u].stage \in {"sent", "open"} => v3'[u].stage = v3[u].stage /\ u # t
                          /\ v3'[u].stage = "cars" => v3[u].stage = "cars" \/ (u = t /\ v3[t].conv # 0)
                          /\ v3[u].to \in {0, 1, 2} /\ v3[u].conv \in {0, 1, 2}
    BY <1>1, <1>3, <1>5, ChatFields
  <2>5. ASSUME NEW u \in {1, 2}, v3'[u].stage = "sent" PROVE v3'[u].to # 0
    <3>1. v3[u].stage = "sent" /\ ~Live(u) /\ TurnFits(u) /\ v3'[u].to = v3[u].to
      BY <2>1, <2>4, <2>5, <1>6
    <3> QED
      BY <3>1 DEF TurnFits, Live
  <2>6. ASSUME NEW u \in {1, 2} PROVE TurnFits(u)'
    <3>1. TurnFits(u)
      BY <2>1
    <3>2. v3'[u].stage = "cars" => v4'.active # 0 /\ Chat!Cid(u)' = v4'.active
      <4>1. CASE u = t /\ v3[t].conv # 0
        BY <4>1, <2>2, <2>3, <2>4, <1>10, ChatSorts DEF Chat!Cid
      <4>2. CASE v3[u].stage = "cars"
        BY <4>2, <3>1, <2>3, <2>4, <1>10 DEF TurnFits, Chat!Cid
      <4> QED
        BY <4>1, <4>2, <2>4
    <3>3. v3'[u].stage \in {"sent", "open"} /\ ~v3'[u].heard => v3'[u].to # 0
      BY <3>1, <2>4, <1>5 DEF TurnFits
    <3> QED
      BY <3>1, <3>2, <3>3, <2>4, <2>5, <1>u, <1>6 DEF TurnFits
  <2>7. \A c \in {1, 2} : \A u \in {1, 2} : OwnTurn(c, u) => OwnTurn(c, u)'
    BY <2>4 DEF OwnTurn
  <2>8. ASSUME NEW i \in DOMAIN f, NEW u, u = f[i].t
        PROVE  /\ u \in {1, 2}
               /\ IF a # 0 THEN OwnTurn(a, u)' ELSE v3'[u].to = 0 /\ v3'[u].conv = 0
    <3>1. i \in DOMAIN list /\ u = list[i].t /\ u \in {1, 2}
      BY <2>8, <1>0, <1>8, ChatListed DEF SameTurns
    <3>2. IF v4.active # 0 THEN OwnTurn(v4.active, u) ELSE v3[u].to = 0 /\ (v3[u].conv = 0 \/ Live(u))
      BY <3>1, <2>1, <1>0 DEF ShownOwn
    <3>3. CASE v4.active # 0
      BY <3>1, <3>2, <3>3, <2>1, <2>3, <2>7
    <3>4. CASE v4.active = 0
      <4>1. v3[u].to = 0 /\ (v3[u].conv = 0 \/ v3[u].conv = a)
        BY <3>1, <3>2, <3>4, <2>3, <1>6
      <4> QED
        BY <3>1, <4>1, <2>4, <1>9 DEF OwnTurn
    <3> QED
      BY <3>3, <3>4
  <2>9. ShownOwn'
    <3>1. ASSUME NEW c \in {1, 2}, NEW i \in DOMAIN v5'[c], NEW u, u = v5'[c][i].t PROVE OwnTurn(c, u)'
      <4>1. CASE c = b
        BY <3>1, <4>1, <2>3, <2>8, <1>11
      <4>2. CASE c # b
        <5>1. u \in {1, 2} /\ OwnTurn(c, u)
          BY <3>1, <4>2, <2>1, <1>11, ChatListed DEF ShownOwn
        <5> QED
          BY <5>1, <2>7
      <4> QED
        BY <4>1, <4>2
    <3> QED
      BY <3>1, <2>8, <1>10 DEF ShownOwn, OwnTurn, Live
  <2>10. OneThing'
    <3>1. a # 0 => v1[a] # <<>>
      <4>1. v3[t].conv # 0 => v1[v3[t].conv] # <<>>
        BY <2>1, <1>6 DEF TurnFits
      <4> QED
        BY <4>1, <2>1, <2>3 DEF OneThing
    <3> QED
      BY <3>1, <2>1, <1>u, <1>10 DEF OneThing
  <2> QED
    BY <2>6, <2>9, <2>10
<1> QED
  BY <1>14, <1>15, <1>5 DEF ChatInv

LEMMA ChatWithCars ==
  ASSUME NEW list \in Seq(ChatShown), NEW t, NEW f, f = Chat!WithCars(list, t)
  PROVE  /\ DOMAIN f = DOMAIN list /\ f = [i \in DOMAIN f |-> f[i]]
         /\ \A i \in DOMAIN list : /\ f[i] \in ChatShown /\ f[i].t = list[i].t
                                   /\ f[i].answer = list[i].answer
<1>1. f = [i \in DOMAIN list |-> IF list[i].t = t THEN [list[i] EXCEPT !.cars = TRUE] ELSE list[i]]
  BY DEF Chat!WithCars
<1>2. ASSUME NEW i \in DOMAIN list
      PROVE  f[i] \in ChatShown /\ f[i].t = list[i].t /\ f[i].answer = list[i].answer
  <2>1. list[i] \in ChatShown
    OBVIOUS
  <2>2. PICK r : r = list[i]
    OBVIOUS
  <2>3. f[i] = IF r.t = t THEN [r EXCEPT !.cars = TRUE] ELSE r
    BY <1>1, <2>2
  <2> QED
    BY <2>1, <2>2, <2>3 DEF ChatShown
<1> QED
  BY <1>1, <1>2

LEMMA ChatPreviews ==
  ASSUME ChatInv, NEW t \in {1, 2}, Chat!loadPreviews(t)
  PROVE  ChatInv'
<1>u. UNCHANGED <<v1, v2, v6, v7, v9>>
  BY DEF Chat!loadPreviews
<1>0. PICK list, f, k, b : /\ list = v4.messages /\ f = Chat!WithCars(list, t) /\ b = Chat!Cid(t)
                           /\ k = [v3[t] EXCEPT !.stage = "over"]
  OBVIOUS
<1>1. /\ v3[t].stage = "cars" /\ v3' = [v3 EXCEPT ![t] = k]
      /\ v4' = [v4 EXCEPT !.messages = f] /\ v5' = [v5 EXCEPT ![b] = f]
  BY <1>0, ChatFields DEF Chat!loadPreviews
<1>3. /\ k \in ChatJobs /\ k.stage = "over" /\ k.to = v3[t].to /\ k.conv = v3[t].conv
      /\ k.heard = v3[t].heard /\ k.saved = v3[t].saved /\ v3[t] \in ChatJobs /\ (v3[t].saved => v3[t].conv # 0)
  BY <1>0, ChatFields DEF ChatJobs, ChatInv, JobFits
<1>4. Goes(t, k)
  BY <1>1, <1>3 DEF Goes
<1>5. /\ v3' \in [{1, 2} -> ChatJobs] /\ v3'[t] = k /\ (\A u \in {1, 2} : u # t => v3'[u] = v3[u])
      /\ JobsGoOn /\ OneLive' /\ \A u \in {1, 2} : Live(u)' => Live(u)
  BY <1>4, ChatGoes
<1>r. RowsStay
  BY <1>u, ChatRowsSame
<1>8. f \in Seq(ChatShown) /\ WholeKept(f)' /\ SameTurns(f, list)
  <2>1. list \in Seq(ChatShown) /\ WholeKept(list)
    BY <1>0, ChatFields DEF ChatInv, TellsWhole
  <2>2. /\ DOMAIN f = DOMAIN list /\ f = [i \in DOMAIN f |-> f[i]]
        /\ \A i \in DOMAIN list : /\ f[i] \in ChatShown /\ f[i].t = list[i].t
                                  /\ f[i].answer = list[i].answer
    BY <1>0, <2>1, ChatWithCars
  <2> QED
    BY <2>1, <2>2, <1>5, <1>r, ChatDrawn
<1>10. /\ v4' \in ChatPages /\ v4'.messages = f /\ v4'.active = v4.active /\ v4'.loads = v4.loads
       /\ v4'.streaming = v4.streaming
  BY <1>1, <1>8, ChatFields DEF ChatPages
<1>11. /\ v5' \in [{1, 2} -> Seq(ChatShown)]
       /\ \A c \in {1, 2} : v5'[c] = IF c = b THEN f ELSE v5[c]
  BY <1>1, <1>8, ChatFields
<1>7. \A u \in {1, 2} : JobFits(u)'
  BY <1>4, <1>u, <1>r, <1>10, ChatFits
<1>12. ChatTyped' /\ Deleted'
  BY <1>u, <1>5, <1>10, <1>11 DEF ChatInv, ChatTyped, Deleted
<1>13. ASSUME NEW u \in {1, 2}, v3'[u].stage = "done", v3'[u].heard PROVE Kept(u)'
  BY <1>u, <1>3, <1>5, <1>13 DEF Kept, ChatInv, TellsWhole
<1>14. /\ ChatTyped' /\ (\A u \in {1, 2} : JobFits(u)') /\ OneLive' /\ RowsAtHome' /\ TellsWhole' /\ Deleted'
  <2>1. WholeKept(v4.messages)'
    BY <1>8, <1>10 DEF WholeKept, TurnEnded, Kept
  <2>2. ASSUME NEW c \in {1, 2} PROVE v5'[c] = v5[c] \/ WholeKept(v5[c])'
    <3>1. CASE c = b
      <4>1. v5'[c] = f
        BY <3>1, <1>11
      <4> QED
        BY <4>1, <1>8 DEF WholeKept, TurnEnded, Kept
    <3>2. CASE c # b
      BY <3>2, <1>11
    <3> QED
      BY <3>1, <3>2
  <2> QED
    BY <2>1, <2>2, <1>u, <1>5, <1>7, <1>12, <1>13, ChatBase
<1>15. ASSUME ~v9' PROVE (\A u \in {1, 2} : TurnFits(u)') /\ ShownOwn' /\ OneThing'
  <2>1. /\ ~v9 /\ (\A u \in {1, 2} : TurnFits(u)) /\ ShownOwn /\ OneThing /\ v4.active \in {0, 1, 2}
    BY <1>u, <1>15, ChatFields DEF ChatInv
  <2>2. v4.active # 0 /\ b = v4.active
    BY <2>1, <1>0, <1>1 DEF TurnFits
  <2>4. \A u \in {1, 2} : /\ v3'[u].to = v3[u].to /\ v3'[u].conv = v3[u].conv /\ v3'[u].heard = v3[u].heard
                          /\ v3'[u].stage \in {"sent", "open", "cars"} => v3'[u].stage = v3[u].stage
                          /\ Live(u)' => Live(u)
                          /\ v3[u].to \in {0, 1, 2} /\ v3[u].conv \in {0, 1, 2}
    BY <1>3, <1>5, ChatFields
  <2>5. ASSUME NEW u \in {1, 2}, v3'[u].stage = "sent" PROVE v3'[u].to # 0
    <3>1. v3[u].stage = "sent" /\ TurnFits(u) /\ v3'[u].to = v3[u].to
      BY <2>1, <2>4, <2>5
    <3> QED
      BY <3>1, <2>2 DEF TurnFits, Live
  <2>6. ASSUME NEW u \in {1, 2} PROVE TurnFits(u)'
    <3>1. TurnFits(u)
      BY <2>1
    <3>2. v3'[u].stage = "cars" => v4'.active # 0 /\ Chat!Cid(u)' = v4'.active
      BY <3>1, <2>4, <1>10 DEF TurnFits, Chat!Cid
    <3> QED
      BY <3>1, <3>2, <2>4, <2>5, <1>u, <1>10 DEF TurnFits
  <2>7. \A c \in {1, 2} : \A u \in {1, 2} : OwnTurn(c, u) => OwnTurn(c, u)'
    BY <2>4 DEF OwnTurn
  <2>8. ASSUME NEW i \in DOMAIN f, NEW u, u = f[i].t PROVE u \in {1, 2} /\ OwnTurn(v4.active, u)'
    <3>1. i \in DOMAIN list /\ u = list[i].t /\ u \in {1, 2}
      BY <2>8, <1>0, <1>8, ChatListed DEF SameTurns
    <3>2. OwnTurn(v4.active, u)
      BY <3>1, <2>1, <2>2, <1>0 DEF ShownOwn
    <3>3. PICK c \in {1, 2} : c = v4.active
      BY <2>1, <2>2
    <3>4. OwnTurn(c, u)'
      BY <3>1, <3>2, <3>3, <2>7
    <3> QED
      BY <3>1, <3>3, <3>4, <1>10
  <2>9. ShownOwn'
    <3>1. ASSUME NEW c \in {1, 2}, NEW i \in DOMAIN v5'[c], NEW u, u = v5'[c][i].t PROVE OwnTurn(c, u)'
      <4>1. CASE c = b
        <5>1. v5'[c] = f /\ c = v4.active
          BY <4>1, <2>2, <1>11
        <5>2. u \in {1, 2} /\ OwnTurn(c, u)'
          BY <3>1, <5>1, <2>8, <1>10
        <5> QED
          BY <5>2
      <4>2. CASE c # b
        <5>1. u \in {1, 2} /\ OwnTurn(c, u)
          BY <3>1, <4>2, <2>1, <1>11, ChatListed DEF ShownOwn
        <5> QED
          BY <5>1, <2>7
      <4> QED
        BY <4>1, <4>2
    <3> QED
      BY <3>1, <2>2, <2>8, <1>10 DEF ShownOwn, OwnTurn, Live
  <2>10. OneThing'
    <3>1. Working
      BY <1>1 DEF Working
    <3> QED
      BY <3>1, <2>1, <1>u, <1>10 DEF OneThing
  <2> QED
    BY <2>6, <2>9, <2>10
<1> QED
  BY <1>14, <1>15, <1>5 DEF ChatInv

LEMMA ChatNext == ASSUME AnswersSaved, ChatInv, Chat!Next PROVE ChatInv'
<1>1. ASSUME NEW t \in {1, 2}, Chat!sendMessage(t) \/ Chat!Streams(t) \/ Chat!Fails(t) \/ Chat!cancelStream(t)
      PROVE  ChatInv'
  BY <1>1, ChatSends, ChatCreates, ChatBreaks, ChatAnswers, ChatEnds, ChatPreviews, ChatError, ChatCancels
     DEF Chat!Streams
<1>2. ASSUME NEW c \in {1, 2},
             Chat!loadConversation(c) \/ Chat!loaded(c) \/ Chat!notLoaded(c) \/ Chat!onDelete(c)
      PROVE  ChatInv'
  BY <1>2, ChatOpens, ChatLoads, ChatAsksDelete
<1>3. ASSUME NEW d \in v6, Chat!delete_conversation(d) \/ Chat!handleDeleteConversation(d)
      PROVE  ChatInv'
  BY <1>3, ChatDeletes, ChatSaysDeleted
<1> QED
  BY <1>1, <1>2, <1>3, ChatNewOne, ChatReloads DEF Chat!Next

LEMMA ChatSays == ChatInv => Chat!WholeIsSaved /\ Chat!NothingForeign
<1> SUFFICES ASSUME ChatInv PROVE Chat!WholeIsSaved /\ Chat!NothingForeign
  OBVIOUS
<1>1. Chat!WholeIsSaved
  <2>1. ASSUME NEW i \in DOMAIN v4.messages, NEW t, t = v4.messages[i].t,
               v4.messages[i].answer = "whole", v3[t].conv # 0, Chat!Exists(v3[t].conv)
        PROVE  \E j \in DOMAIN v1[v3[t].conv] : v1[v3[t].conv][j].t = t /\ v1[v3[t].conv][j].answer = "whole"
    <3>1. t \in {1, 2} /\ Kept(t)
      BY <2>1, ChatListed DEF ChatInv, TellsWhole, WholeKept
    <3>2. v1[v3[t].conv] # <<>>
      BY <2>1 DEF Chat!Exists
    <3> QED
      BY <2>1, <3>1, <3>2 DEF Kept
  <2> QED
    BY <2>1, ChatSorts DEF Chat!WholeIsSaved
<1>2. Chat!NothingForeign
  <2>1. ASSUME ~v9 PROVE ShownOwn /\ v4.active \in {0, 1, 2}
    BY <2>1, ChatFields DEF ChatInv
  <2>2. \A c, t : Chat!Own(c, t) <=> OwnTurn(c, t)
    BY ChatSorts DEF Chat!Own, OwnTurn
  <2> QED
    BY <2>1, <2>2, ChatSorts DEF Chat!NothingForeign, Chat!Rows, ShownOwn
<1> QED
  BY <1>1, <1>2

LEMMA ChatStill == ChatInv /\ UNCHANGED <<v1, v2, v3, v4, v5, v6, v7, v9>> => ChatInv'
<1> SUFFICES ASSUME ChatInv, UNCHANGED <<v1, v2, v3, v4, v5, v6, v7, v9>> PROVE ChatInv'
  OBVIOUS
<1>1. ChatTyped' /\ OneLive' /\ RowsAtHome' /\ Deleted' /\ \A t \in {1, 2} : JobFits(t)'
  BY DEF ChatInv, ChatTyped, OneLive, RowsAtHome, TurnEnded, Deleted, JobFits, Live
<1>2. TellsWhole'
  BY DEF ChatInv, TellsWhole, WholeKept, Kept, TurnEnded
<1>3. ~v9 => (\A t \in {1, 2} : TurnFits(t)') /\ ShownOwn' /\ OneThing'
  BY DEF ChatInv, TurnFits, Chat!Cid, ShownOwn, OwnTurn, OneThing, Working, Live
<1> QED
  BY <1>1, <1>2, <1>3 DEF ChatInv

-----------------------------------------------------------------------------
(* NewListing: v1 the listings, v2 the page, v3 the chains, v4 the forms they submitted. *)
New == INSTANCE NewListing WITH
  MaxPhotos <- Cardinality(Numbers), MaxWindows <- 1, MaxListings <- Cardinality(Numbers), Acts <- Acts.new,
  row <- v1, form <- v2, chain <- v3, sent <- v4

NewRows == [status : {"draft", "pending_review"}, viewing : BOOLEAN, photos : Nat, windows : Nat]
NewFields == [step : 0..2, given : SUBSET {"car", "data"}, photos : 0..Cardinality(Numbers), days : 0..1]
NewForms == [fields : NewFields, open : BOOLEAN, submitting : BOOLEAN]
NewChains == [at : {"create", "upload", "windows", "publish", "done"}, step : {"sent", "ok", "failed"},
              l : Nat, left : Nat, said : SUBSET {"error", "photos", "published", "drafts"}, here : BOOLEAN]

NewTyped ==
  /\ v1 \in Seq(NewRows) /\ v2 \in NewForms /\ v3 \in Seq(NewChains) /\ v4 \in Seq(NewFields)
  /\ Len(v4) = Len(v3)

Complete(l) == l.status = "pending_review" /\ New!Valid(l)

\* What is so of the listing of a chain r that submitted the form u.
ChainFits(r, u, rows) ==
  /\ r.l <= Len(rows)
  /\ r.at # "done" => r.said \subseteq {"photos"}
  /\ r.at = "create" => /\ r.said = {} /\ (r.step = "sent" => r.l = 0)
                        /\ r.step = "ok" => r.l > 0
                        /\ r.l > 0 => rows[r.l].photos = 0
  /\ r.at = "upload" => /\ r.l > 0 /\ r.left > 0 /\ r.said = {}
                        /\ r.step = "sent" => rows[r.l].photos + r.left = u.photos
                        /\ r.step = "ok" => rows[r.l].photos + r.left = u.photos + 1
  /\ r.at \in {"windows", "publish"} \/ (r.at = "done" /\ "error" \notin r.said) =>
       r.l > 0 /\ ("photos" \notin r.said => rows[r.l].photos = u.photos)
  /\ r.at = "publish" /\ r.step = "ok" => Complete(rows[r.l])
  /\ "published" \in r.said => r.l > 0 /\ Complete(rows[r.l])

\* No two chains write to one listing.
ChainsApart == \A s, t \in DOMAIN v3 : v3[s].l = v3[t].l /\ v3[s].l > 0 => s = t

SubmitWaits == v2.open /\ v2.submitting => \E s \in DOMAIN v3 : v3[s].here /\ v3[s].at # "done"

NewInv == NewTyped /\ (\A s \in DOMAIN v3 : ChainFits(v3[s], v4[s], v1)) /\ ChainsApart /\ SubmitWaits

LEMMA SeqOf ==
  ASSUME NEW S, NEW n \in Nat, NEW f \in [1..n -> S]
  PROVE  f \in Seq(S) /\ Len(f) = n
<1>1. f \in Seq(S)
  BY SeqDef
<1>2. Len(f) \in Nat /\ DOMAIN f = 1..Len(f)
  BY <1>1, LenProperties
<1>3. 1..n = 1..Len(f)
  BY <1>2
<1> QED
  BY <1>1, <1>2, <1>3

LEMMA SeqIs ==
  ASSUME NEW S, NEW f \in Seq(S)
  PROVE  Len(f) \in Nat /\ DOMAIN f = 1..Len(f) /\ f \in [1..Len(f) -> S] /\ \A i \in DOMAIN f : f[i] \in S
BY LenProperties

LEMMA SeqGrows ==
  ASSUME NEW S, NEW f \in Seq(S), NEW e \in S
  PROVE  /\ Append(f, e) \in Seq(S) /\ Len(Append(f, e)) = Len(f) + 1
         /\ Append(f, e)[Len(f) + 1] = e /\ \A i \in DOMAIN f : Append(f, e)[i] = f[i]
         /\ DOMAIN Append(f, e) = DOMAIN f \cup {Len(f) + 1}
BY AppendProperties, LenProperties

LEMMA NewIs ==
  ASSUME NewInv
  PROVE  /\ Len(v1) \in Nat /\ DOMAIN v1 = 1..Len(v1) /\ \A l \in 1..Len(v1) : v1[l] \in NewRows
         /\ Len(v3) \in Nat /\ DOMAIN v3 = 1..Len(v3) /\ \A s \in DOMAIN v3 : v3[s] \in NewChains
         /\ DOMAIN v4 = DOMAIN v3 /\ \A s \in DOMAIN v3 : v4[s] \in NewFields
         /\ v2 \in NewForms
<1>1. v1 \in Seq(NewRows) /\ v3 \in Seq(NewChains) /\ v4 \in Seq(NewFields) /\ Len(v4) = Len(v3) /\ v2 \in NewForms
  BY DEF NewInv, NewTyped
<1>2. Len(v1) \in Nat /\ DOMAIN v1 = 1..Len(v1) /\ \A l \in DOMAIN v1 : v1[l] \in NewRows
  BY <1>1, SeqIs
<1>3. Len(v3) \in Nat /\ DOMAIN v3 = 1..Len(v3) /\ \A l \in DOMAIN v3 : v3[l] \in NewChains
  BY <1>1, SeqIs
<1>4. DOMAIN v4 = 1..Len(v4) /\ \A l \in DOMAIN v4 : v4[l] \in NewFields
  BY <1>1, SeqIs
<1> QED
  BY <1>1, <1>2, <1>3, <1>4

LEMMA NewInit ==
  ASSUME NumbersFinite
  PROVE  New!Init => NewInv
<1> SUFFICES ASSUME New!Init PROVE NewInv
  OBVIOUS
<1>1. v1 = <<>> /\ v3 = <<>> /\ v4 = <<>> /\ v2 = New!Opened
  BY DEF New!Init
<1>2. Cardinality(Numbers) \in Nat
  BY FS_CardinalityType DEF NumbersFinite
<1>3. New!Opened \in NewForms /\ ~New!Opened.submitting
  BY <1>2 DEF New!Opened, New!Blank, NewForms, NewFields
<1>4. /\ v1 \in Seq(NewRows) /\ v3 \in Seq(NewChains) /\ v4 \in Seq(NewFields) /\ Len(v3) = 0 /\ Len(v4) = 0
  BY <1>1, EmptySeq
<1>5. DOMAIN v3 = {}
  BY <1>4, LenProperties
<1> QED
  BY <1>1, <1>3, <1>4, <1>5 DEF NewInv, NewTyped, ChainsApart, SubmitWaits

\* One chain goes on, and writes to its own listing or to a new one.
Alike(q, r) == q.at = r.at /\ q.step = r.step /\ q.l = r.l /\ q.left = r.left /\ q.said = r.said

LEMMA NewOne ==
  ASSUME NewInv, NEW s \in DOMAIN v3, v4' = v4, v3' \in Seq(NewChains), Len(v3') = Len(v3),
         \A t \in DOMAIN v3 \ {s} : Alike(v3'[t], v3[t]),
         v1' \in Seq(NewRows), Len(v1) <= Len(v1'), \A l \in 1..Len(v1) : l # v3[s].l => v1'[l] = v1[l],
         v3'[s].l = v3[s].l \/ v3'[s].l = Len(v1) + 1,
         ChainFits(v3'[s], v4[s], v1'), v2' \in NewForms, SubmitWaits'
  PROVE  NewInv'
<1>t. /\ Len(v1) \in Nat /\ DOMAIN v3 = 1..Len(v3) /\ DOMAIN v3' = DOMAIN v3 /\ Len(v1') \in Nat
      /\ \A t \in DOMAIN v3 : v3[t] \in NewChains /\ v3[t].l \in Nat /\ v3[t].l <= Len(v1)
  <2>1. /\ Len(v1) \in Nat /\ DOMAIN v3 = 1..Len(v3) /\ \A t \in DOMAIN v3 : v3[t] \in NewChains
    BY NewIs
  <2>2. DOMAIN v3' = 1..Len(v3') /\ Len(v1') \in Nat
    BY SeqIs
  <2>3. \A t \in DOMAIN v3 : v3[t].l \in Nat /\ v3[t].l <= Len(v1)
    BY <2>1 DEF NewInv, ChainFits, NewChains
  <2> QED
    BY <2>1, <2>2, <2>3
<1>1. NewTyped'
  BY DEF NewInv, NewTyped
<1>2. ChainsApart'
  <2>1. \A a, b \in DOMAIN v3 : v3[a].l = v3[b].l /\ v3[a].l > 0 => a = b
    BY DEF NewInv, ChainsApart
  <2>2. \A a \in DOMAIN v3 : v3'[a].l = v3[a].l \/ (a = s /\ v3'[a].l = Len(v1) + 1)
    BY DEF Alike
  <2>3. ASSUME NEW a \in DOMAIN v3, NEW b \in DOMAIN v3, v3'[a].l = v3'[b].l, v3'[a].l > 0 PROVE a = b
    BY <1>t, <2>1, <2>2, <2>3
  <2> QED
    BY <1>t, <2>3 DEF ChainsApart
<1>3. ASSUME NEW t \in DOMAIN v3, t # s PROVE ChainFits(v3'[t], v4[t], v1')
  <2>1. ChainFits(v3[t], v4[t], v1) /\ Alike(v3'[t], v3[t])
    BY <1>3 DEF NewInv
  <2>2. v3[t].l > 0 => v1'[v3[t].l] = v1[v3[t].l]
    BY <1>t, <1>3 DEF NewInv, ChainsApart
  <2>3. v3[t].l <= Len(v1')
    BY <1>t
  <2> QED
    BY <2>1, <2>2, <2>3 DEF ChainFits, Alike
<1> QED
  BY <1>t, <1>1, <1>2, <1>3 DEF NewInv

LEMMA NewPageActs ==
  ASSUME NumbersFinite, NewInv,
         \/ New!edit \/ New!next \/ New!back \/ New!handleImageRemove \/ New!open
         \/ \E n \in 0..1 : New!toggleDay(n)
         \/ \E n \in 1..Cardinality(Numbers) : New!handleImageAdd(n)
  PROVE  NewInv'
<1>t. /\ v2 \in NewForms /\ v2.fields \in NewFields /\ Cardinality(Numbers) \in Nat
      /\ v2.fields.given \in SUBSET {"car", "data"}
  BY NewIs, FS_CardinalityType DEF NewForms, NewFields, NumbersFinite
<1>1. ASSUME v2' \in NewForms, UNCHANGED <<v1, v3, v4>>, v2'.open /\ v2'.submitting => v2.open /\ v2.submitting
      PROVE  NewInv'
  BY <1>1 DEF NewInv, NewTyped, ChainsApart, SubmitWaits
<1>2. ASSUME NEW f \in NewFields, New!Set(f) PROVE NewInv'
  <2>1. v2' = [v2 EXCEPT !.fields = f] /\ UNCHANGED <<v1, v3, v4>>
    BY <1>2 DEF New!Set
  <2>2. v2' \in NewForms /\ v2'.open = v2.open /\ v2'.submitting = v2.submitting
    BY <1>t, <2>1 DEF NewForms
  <2> QED
    BY <1>1, <2>1, <2>2
<1> DEFINE u == v2.fields
<1>3. CASE New!edit
  <2> DEFINE f == [u EXCEPT !.given = IF New!Field(u.step) \in u.given THEN u.given \ {New!Field(u.step)}
                                      ELSE u.given \cup {New!Field(u.step)}]
  <2>1. New!Set(f)
    BY <1>3 DEF New!edit
  <2>2. f \in NewFields
    BY <1>t DEF NewFields, New!Field
  <2> HIDE DEF f
  <2> QED
    BY <1>2, <2>1, <2>2
<1>4. CASE New!next
  <2> DEFINE f == [u EXCEPT !.step = @ + 1]
  <2>1. New!Set(f) /\ u.step < 2
    BY <1>4 DEF New!next
  <2>2. f \in NewFields
    BY <1>t, <2>1 DEF NewFields
  <2> HIDE DEF f
  <2> QED
    BY <1>2, <2>1, <2>2
<1>5. CASE New!back
  <2> DEFINE f == [u EXCEPT !.step = @ - 1]
  <2>1. New!Set(f) /\ u.step > 0
    BY <1>5 DEF New!back
  <2>2. f \in NewFields
    BY <1>t, <2>1 DEF NewFields
  <2> HIDE DEF f
  <2> QED
    BY <1>2, <2>1, <2>2
<1>6. CASE New!handleImageRemove
  <2> DEFINE f == [u EXCEPT !.photos = @ - 1]
  <2>1. New!Set(f) /\ u.photos > 0
    BY <1>6 DEF New!handleImageRemove
  <2>2. f \in NewFields
    BY <1>t, <2>1 DEF NewFields
  <2> HIDE DEF f
  <2> QED
    BY <1>2, <2>1, <2>2
<1>7. ASSUME NEW n \in 0..1, New!toggleDay(n) PROVE NewInv'
  <2> DEFINE f == [u EXCEPT !.days = n]
  <2>1. New!Set(f)
    BY <1>7 DEF New!toggleDay
  <2>2. f \in NewFields
    BY <1>t DEF NewFields
  <2> HIDE DEF f
  <2> QED
    BY <1>2, <2>1, <2>2
<1>8. ASSUME NEW n \in 1..Cardinality(Numbers), New!handleImageAdd(n) PROVE NewInv'
  <2> DEFINE f == [u EXCEPT !.photos = New!Kept(@ + n)]
  <2>1. New!Set(f)
    BY <1>8 DEF New!handleImageAdd
  <2>3. u.photos + n \in Nat
    BY <1>t DEF NewFields
  <2>4. New!Kept(u.photos + n) \in 0..Cardinality(Numbers)
    BY <1>t, <2>3 DEF New!Kept
  <2>5. f \in NewFields
    BY <1>t, <2>4 DEF NewFields
  <2> HIDE DEF f
  <2> QED
    BY <1>2, <2>1, <2>5
<1>9. CASE New!open
  <2>1. v2' = New!Opened /\ UNCHANGED <<v1, v3, v4>>
    BY <1>9 DEF New!open
  <2>2. New!Opened \in NewForms /\ ~New!Opened.submitting
    BY <1>t DEF New!Opened, New!Blank, NewForms, NewFields
  <2> QED
    BY <1>1, <2>1, <2>2
<1> QED
  BY <1>3, <1>4, <1>5, <1>6, <1>7, <1>8, <1>9

\* The page of every chain is left.
LEMMA NewLeft ==
  ASSUME NewInv
  PROVE  /\ New!Left \in Seq(NewChains) /\ Len(New!Left) = Len(v3) /\ DOMAIN New!Left = DOMAIN v3
         /\ \A s \in DOMAIN v3 : Alike(New!Left[s], v3[s]) /\ New!Left[s] \in NewChains
<1>1. Len(v3) \in Nat /\ DOMAIN v3 = 1..Len(v3) /\ \A s \in DOMAIN v3 : v3[s] \in NewChains
  BY NewIs
<1>2. ASSUME NEW s \in DOMAIN v3 PROVE New!Left[s] \in NewChains /\ Alike(New!Left[s], v3[s])
  <2>1. New!Left[s] = [v3[s] EXCEPT !.here = FALSE]
    BY DEF New!Left
  <2> QED
    BY <1>1, <2>1 DEF NewChains, Alike
<1>3. New!Left \in [1..Len(v3) -> NewChains]
  BY <1>1, <1>2 DEF New!Left
<1> QED
  BY <1>1, <1>2, <1>3, SeqOf

LEMMA NewLeaves == NewInv /\ New!leave => NewInv'
<1> SUFFICES ASSUME NewInv, New!leave PROVE NewInv'
  OBVIOUS
<1>1. v2' = [v2 EXCEPT !.open = FALSE] /\ v3' = New!Left /\ UNCHANGED <<v1, v4>>
  BY DEF New!leave
<1>2. v2' \in NewForms /\ ~v2'.open
  BY <1>1, NewIs DEF NewForms
<1>3. NewTyped' /\ SubmitWaits'
  BY <1>1, <1>2, NewLeft DEF NewInv, NewTyped, SubmitWaits
<1>4. DOMAIN v3' = DOMAIN v3 /\ \A s \in DOMAIN v3 : Alike(v3'[s], v3[s])
  BY <1>1, NewLeft
<1>5. ChainsApart'
  BY <1>4 DEF NewInv, ChainsApart, Alike
<1>6. ASSUME NEW s \in DOMAIN v3 PROVE ChainFits(v3'[s], v4'[s], v1')
  <2>1. ChainFits(v3[s], v4[s], v1) /\ Alike(v3'[s], v3[s]) /\ v4' = v4 /\ v1' = v1
    BY <1>1, <1>4 DEF NewInv
  <2> QED
    BY <2>1 DEF ChainFits, Alike
<1> QED
  BY <1>3, <1>4, <1>5, <1>6 DEF NewInv

LEMMA NewSubmits == NewInv /\ New!handleSubmit => NewInv'
<1> SUFFICES ASSUME NewInv, New!handleSubmit PROVE NewInv'
  OBVIOUS
<1> DEFINE r == [at |-> "create", step |-> "sent", l |-> 0, left |-> 1, said |-> {}, here |-> TRUE]
           n == Len(v3) + 1
<1>1. /\ v2' = [v2 EXCEPT !.submitting = TRUE] /\ v3' = Append(v3, r) /\ v4' = Append(v4, v2.fields) /\ v1' = v1
  BY DEF New!handleSubmit
<1>t. /\ Len(v3) \in Nat /\ DOMAIN v3 = 1..Len(v3) /\ DOMAIN v4 = DOMAIN v3 /\ v2 \in NewForms /\ v2.fields \in NewFields
      /\ \A s \in DOMAIN v3 : v3[s] \in NewChains
      /\ v3 \in Seq(NewChains) /\ v4 \in Seq(NewFields) /\ Len(v4) = Len(v3) /\ v1 \in Seq(NewRows) /\ Len(v1) \in Nat
  BY NewIs DEF NewInv, NewTyped, NewForms
<1>2. r \in NewChains /\ r.here /\ r.at = "create" /\ r.l = 0 /\ r.step = "sent" /\ r.said = {}
  BY DEF NewChains
<1> HIDE DEF r
<1>3. /\ v3' \in Seq(NewChains) /\ Len(v3') = n /\ v3'[n] = r /\ DOMAIN v3' = DOMAIN v3 \cup {n}
      /\ \A s \in DOMAIN v3 : v3'[s] = v3[s]
  BY <1>1, <1>2, <1>t, SeqGrows
<1>4. /\ v4' \in Seq(NewFields) /\ Len(v4') = n /\ \A s \in DOMAIN v3 : v4'[s] = v4[s]
  BY <1>1, <1>t, SeqGrows
<1>5. v2' \in NewForms
  BY <1>1, <1>t DEF NewForms
<1>6. NewTyped'
  BY <1>1, <1>t, <1>3, <1>4, <1>5 DEF NewTyped
<1>7. SubmitWaits'
  BY <1>2, <1>3 DEF SubmitWaits
<1>8. ChainsApart'
  <2>1. \A a, b \in DOMAIN v3 : v3[a].l = v3[b].l /\ v3[a].l > 0 => a = b
    BY DEF NewInv, ChainsApart
  <2> QED
    BY <1>2, <1>3, <2>1 DEF ChainsApart
<1>9. ASSUME NEW s \in DOMAIN v3' PROVE ChainFits(v3'[s], v4'[s], v1')
  <2>1. CASE s \in DOMAIN v3
    BY <1>1, <1>3, <1>4, <2>1 DEF NewInv
  <2>2. CASE s = n
    BY <1>1, <1>2, <1>3, <1>t, <2>2 DEF ChainFits
  <2> QED
    BY <1>3, <2>1, <2>2
<1> QED
  BY <1>6, <1>7, <1>8, <1>9 DEF NewInv

\* A chain goes on under a page that does not change.
LEMMA NewChain ==
  ASSUME NewInv, NEW s \in DOMAIN v3, NEW r \in NewChains, v3' = [v3 EXCEPT ![s] = r], UNCHANGED <<v2, v4>>,
         v1' \in Seq(NewRows), Len(v1) <= Len(v1'), \A l \in 1..Len(v1) : l # v3[s].l => v1'[l] = v1[l],
         r.l = v3[s].l \/ r.l = Len(v1) + 1, r.here = v3[s].here, r.at # "done",
         ChainFits(r, v4[s], v1')
  PROVE  NewInv'
<1>1. v3 \in Seq(NewChains) /\ DOMAIN v3 = 1..Len(v3) /\ Len(v3) \in Nat
  BY NewIs DEF NewInv, NewTyped
<1>2. v3' \in Seq(NewChains) /\ Len(v3') = Len(v3)
  BY <1>1, ExceptSeq
<1>3. v3'[s] = r /\ \A t \in DOMAIN v3 \ {s} : v3'[t] = v3[t]
  OBVIOUS
<1>4. DOMAIN v3' = DOMAIN v3
  OBVIOUS
<1>5. SubmitWaits'
  BY <1>3, <1>4 DEF NewInv, SubmitWaits
<1>6. \A t \in DOMAIN v3 \ {s} : Alike(v3'[t], v3[t])
  BY <1>3 DEF Alike
<1>7. v2' \in NewForms
  BY NewIs
<1>8. v4' = v4
  OBVIOUS
<1> QED
  BY <1>2, <1>3, <1>5, <1>6, <1>7, <1>8, NewOne

LEMMA NewGoesOn ==
  ASSUME NumbersFinite, NewInv, NEW s \in DOMAIN v3, NEW r \in NewChains, New!GoOn(s, r), UNCHANGED <<v1, v2, v4>>,
         r.l = v3[s].l, r.here = v3[s].here, r.l > 0, r.l <= Len(v1), r.said \subseteq {"photos"},
         r.at \in {"create", "upload", "windows"},
         r.at = "create" => r.said = {} /\ v1[r.l].photos = 0,
         "photos" \notin r.said /\ r.at # "create" => v1[r.l].photos = v4[s].photos
  PROVE  NewInv'
<1> DEFINE n == New!After(r.at, s)
           q == [r EXCEPT !.at = n.at, !.left = n.left, !.step = "sent"]
           u == v4[s]
<1>1. v3' = [v3 EXCEPT ![s] = q]
  BY DEF New!GoOn
<1>2. u \in NewFields /\ u.photos \in Nat /\ u.days \in Nat
  BY NewIs, FS_CardinalityType DEF NewFields, NumbersFinite
<1>3. /\ n.at \in {"upload", "windows", "publish"} /\ n.left \in Nat
      /\ n.at = "upload" => r.at = "create" /\ n.left = u.photos /\ u.photos > 0
      /\ r.at = "create" /\ n.at # "upload" => u.photos = 0
  BY <1>2 DEF New!After
<1> HIDE DEF n
<1>4. q \in NewChains /\ q.at = n.at /\ q.left = n.left /\ q.step = "sent" /\ q.l = r.l /\ q.said = r.said /\ q.here = r.here
  BY <1>3 DEF NewChains
<1> HIDE DEF q
<1>5. PICK p \in NewChains : p = q
  BY <1>4
<1>6. v1 \in Seq(NewRows) /\ v1' = v1 /\ Len(v1) \in Nat
  BY NewIs DEF NewInv, NewTyped
<1>f. p.at = n.at /\ p.left = n.left /\ p.step = "sent" /\ p.l = r.l /\ p.said = r.said /\ p.here = r.here
  BY <1>4, <1>5
<1>7. ChainFits(p, v4[s], v1')
  BY <1>2, <1>3, <1>6, <1>f DEF ChainFits
<1>8. /\ v3' = [v3 EXCEPT ![s] = p] /\ Len(v1) <= Len(v1') /\ v1' \in Seq(NewRows)
      /\ p.l = v3[s].l /\ p.here = v3[s].here /\ p.at # "done"
      /\ \A l \in 1..Len(v1) : l # v3[s].l => v1'[l] = v1[l]
  BY <1>1, <1>3, <1>5, <1>6, <1>f
<1> QED
  BY <1>7, <1>8, NewChain

\* A chain ends, and every page was left or the one that waited is free again.
LEMMA NewEnds ==
  ASSUME NewInv, NEW s \in DOMAIN v3, NEW said \in {"error", "published", "drafts"}, New!Ends(s, said),
         UNCHANGED <<v1, v4>>, v3[s].at # "done",
         said = "error" => v3[s].at = "create",
         said # "error" => v3[s].at = "publish",
         said = "published" => v3[s].step = "ok"
  PROVE  NewInv'
<1> DEFINE Ended(c) == [c EXCEPT ![s].at = "done", ![s].said = @ \cup {said}]
           r == [v3[s] EXCEPT !.at = "done", !.said = @ \cup {said}]
<1>t. /\ v3 \in Seq(NewChains) /\ DOMAIN v3 = 1..Len(v3) /\ Len(v3) \in Nat /\ v3[s] \in NewChains /\ v2 \in NewForms
      /\ v1 \in Seq(NewRows) /\ Len(v1) \in Nat /\ ChainFits(v3[s], v4[s], v1)
  BY NewIs DEF NewInv, NewTyped
<1>1. ASSUME NEW c \in Seq(NewChains), Len(c) = Len(v3), \A t \in DOMAIN v3 : Alike(c[t], v3[t]), v3' = Ended(c)
      PROVE  /\ v3' \in Seq(NewChains) /\ Len(v3') = Len(v3) /\ DOMAIN v3' = DOMAIN v3
             /\ \A t \in DOMAIN v3 \ {s} : Alike(v3'[t], v3[t]) /\ v3'[t].here = c[t].here
             /\ v3'[s].l = v3[s].l /\ v3'[s].at = "done" /\ v3'[s].said = v3[s].said \cup {said}
  <2> DEFINE q == [c[s] EXCEPT !.at = "done", !.said = @ \cup {said}]
  <2>1. DOMAIN c = 1..Len(c) /\ c[s] \in NewChains /\ s \in 1..Len(c)
    BY <1>t, <1>1, SeqIs
  <2>2. v3' = [c EXCEPT ![s] = q]
    BY <1>1, <2>1
  <2>3. q \in NewChains /\ q.at = "done" /\ q.said = c[s].said \cup {said} /\ q.l = c[s].l
    BY <2>1 DEF NewChains
  <2> HIDE DEF q
  <2>4. v3' \in Seq(NewChains) /\ Len(v3') = Len(v3)
    <3>1. PICK p \in NewChains : p = q
      BY <2>3
    <3>2. v3' = [c EXCEPT ![s] = p]
      BY <2>2, <3>1
    <3>3. Len(c) = Len(v3) /\ s \in 1..Len(c)
      BY <1>1, <2>1
    <3>4. [c EXCEPT ![s] = p] \in Seq(NewChains) /\ Len([c EXCEPT ![s] = p]) = Len(c)
      BY <3>3, ExceptSeq
    <3> QED
      BY <3>2, <3>3, <3>4
  <2>5. DOMAIN v3' = DOMAIN v3 /\ v3'[s] = q /\ \A t \in DOMAIN v3 \ {s} : v3'[t] = c[t]
    <3>1. DOMAIN c = DOMAIN v3 /\ s \in DOMAIN c
      BY <1>t, <1>1, <2>1
    <3>2. /\ DOMAIN [c EXCEPT ![s] = q] = DOMAIN c /\ [c EXCEPT ![s] = q][s] = q
          /\ \A t \in DOMAIN c \ {s} : [c EXCEPT ![s] = q][t] = c[t]
      BY <3>1
    <3> QED
      BY <2>2, <3>1, <3>2
  <2> QED
    BY <1>1, <2>3, <2>4, <2>5 DEF Alike
<1>2. ASSUME v3'[s].l = v3[s].l, v3'[s].at = "done", v3'[s].said = v3[s].said \cup {said}
      PROVE  ChainFits(v3'[s], v4[s], v1)
  BY <1>t, <1>2 DEF ChainFits
<1>3. CASE said = "error"
  <2>1. v3' = Ended(v3) /\ v2' = [v2 EXCEPT !.submitting = @ /\ ~v3[s].here]
    BY <1>3 DEF New!Ends
  <2>2. v2' \in NewForms /\ v2'.open = v2.open /\ (v2'.submitting => v2.submitting /\ ~v3[s].here)
    BY <1>t, <2>1 DEF NewForms
  <2>3. \A t \in DOMAIN v3 : Alike(v3[t], v3[t])
    BY DEF Alike
  <2>4. /\ v3' \in Seq(NewChains) /\ Len(v3') = Len(v3) /\ DOMAIN v3' = DOMAIN v3
        /\ \A t \in DOMAIN v3 \ {s} : Alike(v3'[t], v3[t]) /\ v3'[t].here = v3[t].here
        /\ v3'[s].l = v3[s].l /\ v3'[s].at = "done" /\ v3'[s].said = v3[s].said \cup {said}
    BY <1>t, <1>1, <2>1, <2>3
  <2>5. SubmitWaits'
    BY <2>2, <2>4 DEF NewInv, SubmitWaits, Alike
  <2> QED
    BY <1>t, <1>2, <2>2, <2>4, <2>5, NewOne
<1>4. CASE said # "error"
  <2>1. v3' = Ended(New!Left) /\ v2' = [v2 EXCEPT !.open = FALSE]
    BY <1>4 DEF New!Ends
  <2>2. v2' \in NewForms /\ ~v2'.open
    BY <1>t, <2>1 DEF NewForms
  <2>3. PICK c \in Seq(NewChains) : c = New!Left
    BY NewLeft
  <2>4. /\ v3' \in Seq(NewChains) /\ Len(v3') = Len(v3) /\ DOMAIN v3' = DOMAIN v3
        /\ \A t \in DOMAIN v3 \ {s} : Alike(v3'[t], v3[t])
        /\ v3'[s].l = v3[s].l /\ v3'[s].at = "done" /\ v3'[s].said = v3[s].said \cup {said}
    BY <1>t, <1>1, <2>1, <2>3, NewLeft
  <2>5. SubmitWaits'
    BY <2>2 DEF SubmitWaits
  <2> QED
    BY <1>t, <1>2, <2>2, <2>4, <2>5, NewOne
<1> QED
  BY <1>3, <1>4

LEMMA NewHears ==
  ASSUME NumbersFinite
  PROVE  NewInv /\ (\E s \in DOMAIN v3 : New!Hear(s)) => NewInv'
<1> SUFFICES ASSUME NewInv, NEW s \in DOMAIN v3, New!Hear(s) PROVE NewInv'
  OBVIOUS
<1> DEFINE u == v4[s]
<1>1. PICK r \in NewChains : r = v3[s]
  BY NewIs
<1>t. /\ Len(v1) \in Nat /\ \A l \in 1..Len(v1) : v1[l] \in NewRows
      /\ v3 \in Seq(NewChains) /\ DOMAIN v3 = 1..Len(v3) /\ Len(v3) \in Nat /\ v1 \in Seq(NewRows)
      /\ ChainFits(r, u, v1) /\ u.photos \in Nat
  BY <1>1, NewIs, FS_CardinalityType DEF NewInv, NewTyped, NewFields, NumbersFinite
<1>r. r.l \in Nat /\ r.left \in Nat /\ r.step \in {"sent", "ok", "failed"} /\ r.said \in SUBSET {"error", "photos", "published", "drafts"}
  BY DEF NewChains
<1>2. CASE New!created(s)
  <2>1. /\ r.at = "create" /\ r.step # "sent" /\ UNCHANGED <<v1, v4>>
        /\ IF r.step = "failed" THEN New!Ends(s, "error") ELSE New!GoOn(s, r) /\ UNCHANGED v2
    BY <1>1, <1>2 DEF New!created
  <2>2. CASE r.step = "failed"
    BY <1>1, <2>1, <2>2, NewEnds
  <2>3. CASE r.step = "ok"
    BY <1>1, <1>t, <2>1, <2>3, NewGoesOn DEF ChainFits
  <2> QED
    BY <1>r, <2>1, <2>2, <2>3
<1>3. CASE New!published(s)
  <2>1. /\ r.at = "publish" /\ UNCHANGED <<v1, v4>> /\ New!Ends(s, New!Says(r))
    BY <1>1, <1>3 DEF New!published
  <2>2. New!Says(r) \in {"published", "drafts"} /\ (New!Says(r) = "published" => r.step = "ok")
    BY DEF New!Says
  <2> QED
    BY <1>1, <2>1, <2>2, NewEnds
<1>4. CASE New!windowsSaved(s)
  <2>1. r.at = "windows" /\ New!GoOn(s, r) /\ UNCHANGED <<v1, v2, v4>>
    BY <1>1, <1>4 DEF New!windowsSaved
  <2> QED
    BY <1>1, <1>t, <2>1, NewGoesOn DEF ChainFits
<1>5. CASE New!uploaded(s)
  <2>1. /\ r.at = "upload" /\ r.step # "sent" /\ UNCHANGED <<v1, v2, v4>>
        /\ IF r.step = "ok" /\ r.left > 1
           THEN v3' = [v3 EXCEPT ![s].left = @ - 1, ![s].step = "sent"]
           ELSE New!GoOn(s, IF r.step = "ok" THEN r ELSE New!Told(r))
    BY <1>1, <1>5 DEF New!uploaded
  <2>2. r.l > 0 /\ r.l <= Len(v1) /\ r.left > 0 /\ r.said = {} /\ v1[r.l].photos \in Nat
        /\ (r.step = "ok" => v1[r.l].photos + r.left = u.photos + 1)
    <3>1. r.l > 0 /\ r.l <= Len(v1) /\ r.left > 0 /\ r.said = {}
          /\ (r.step = "ok" => v1[r.l].photos + r.left = u.photos + 1)
      BY <1>t, <2>1 DEF ChainFits
    <3>2. v1[r.l] \in NewRows
      BY <1>t, <1>r, <3>1
    <3> QED
      BY <3>1, <3>2 DEF NewRows
  <2>3. CASE r.step = "ok" /\ r.left > 1
    <3> DEFINE q == [r EXCEPT !.left = @ - 1, !.step = "sent"]
    <3>1. v3' = [v3 EXCEPT ![s] = q]
      BY <1>1, <2>1, <2>3
    <3>2. q \in NewChains /\ q.at = "upload" /\ q.step = "sent" /\ q.left = r.left - 1 /\ q.l = r.l /\ q.said = {} /\ q.here = r.here
      <4>1. r.left - 1 \in Nat /\ r.at = "upload" /\ r.said = {}
        BY <1>r, <2>1, <2>2
      <4> QED
        BY <4>1 DEF NewChains
    <3> HIDE DEF q
    <3>3. PICK p \in NewChains : p = q
      BY <3>2
    <3>4. ChainFits(p, v4[s], v1')
      <4>1. /\ p.at = "upload" /\ p.step = "sent" /\ p.l > 0 /\ p.l <= Len(v1) /\ p.said = {}
            /\ p.left > 0 /\ v1[p.l].photos + p.left = u.photos
        <5>1. p.left = r.left - 1 /\ p.l = r.l /\ p.at = "upload" /\ p.step = "sent" /\ p.said = {}
          BY <3>2, <3>3
        <5>2. \A a, b \in Nat : r.left > 1 /\ a + r.left = b + 1 => r.left - 1 > 0 /\ a + (r.left - 1) = b
          BY <1>r
        <5>3. r.l > 0 /\ r.l <= Len(v1) /\ v1[r.l].photos \in Nat /\ u.photos \in Nat /\ v1[r.l].photos + r.left = u.photos + 1
          BY <1>t, <2>2, <2>3
        <5> HIDE DEF u
        <5> QED
          BY <2>3, <5>1, <5>2, <5>3
      <4> QED
        BY <2>1, <4>1 DEF ChainFits
    <3>5. v3' = [v3 EXCEPT ![s] = p] /\ p.l = v3[s].l /\ p.here = v3[s].here /\ p.at # "done"
      BY <1>1, <3>1, <3>2, <3>3
    <3>6. v1' \in Seq(NewRows) /\ Len(v1) <= Len(v1') /\ \A l \in 1..Len(v1) : l # v3[s].l => v1'[l] = v1[l]
      BY <1>t, <2>1
    <3> QED
      BY <2>1, <3>4, <3>5, <3>6, NewChain
  <2>4. CASE r.step = "ok" /\ ~(r.left > 1)
    <3>1. r.left = 1
      BY <1>r, <2>2, <2>4
    <3>2. v1[r.l].photos = u.photos
      BY <1>t, <2>2, <2>4, <3>1
    <3> QED
      BY <1>1, <2>1, <2>2, <2>4, <3>2, NewGoesOn
  <2>5. CASE r.step = "failed"
    <3> DEFINE q == New!Told(r)
    <3>1. q \in NewChains /\ q.at = "upload" /\ q.l = r.l /\ q.said = {"photos"} /\ q.here = r.here
      BY <2>1, <2>2 DEF New!Told, NewChains
    <3>2. New!GoOn(s, q)
      BY <2>1, <2>5
    <3> HIDE DEF q
    <3>3. PICK p \in NewChains : p = q
      BY <3>1
    <3> QED
      BY <1>1, <2>1, <2>2, <3>1, <3>2, <3>3, NewGoesOn
  <2> QED
    BY <1>r, <2>1, <2>3, <2>4, <2>5
<1> QED
  BY <1>2, <1>3, <1>4, <1>5 DEF New!Hear

LEMMA NewServed ==
  ASSUME NumbersFinite, NewInv, NEW s \in DOMAIN v3, New!Serve(s) \/ New!NoWindow(s) \/ New!Fails(s)
  PROVE  NewInv'
<1> DEFINE u == v4[s]
<1>1. PICK r \in NewChains : r = v3[s]
  BY NewIs
<1>t. /\ Len(v1) \in Nat /\ DOMAIN v1 = 1..Len(v1) /\ \A l \in 1..Len(v1) : v1[l] \in NewRows
      /\ v3 \in Seq(NewChains) /\ DOMAIN v3 = 1..Len(v3) /\ Len(v3) \in Nat /\ v1 \in Seq(NewRows)
      /\ ChainFits(r, u, v1) /\ u.photos \in Nat /\ u.days \in Nat
  BY <1>1, NewIs, FS_CardinalityType DEF NewInv, NewTyped, NewFields, NumbersFinite
<1>r. r.l \in Nat /\ r.left \in Nat /\ r.step \in {"sent", "ok", "failed"}
  BY DEF NewChains
\* The request is answered and, but for the first, the listing of the chain is written to.
<1>2. ASSUME NEW q \in NewChains, v3' = [v3 EXCEPT ![s] = q], UNCHANGED <<v1, v2, v4>>,
             q.l = r.l, q.here = r.here, q.at # "done", ChainFits(q, u, v1)
      PROVE  NewInv'
  <2>1. v1' \in Seq(NewRows) /\ Len(v1) <= Len(v1') /\ \A l \in 1..Len(v1) : l # v3[s].l => v1'[l] = v1[l]
    BY <1>t, <1>2
  <2>2. ChainFits(q, v4[s], v1')
    BY <1>2
  <2> QED
    BY <1>1, <1>2, <2>1, <2>2, NewChain
<1>3. ASSUME NEW q \in NewChains, NEW row \in NewRows, r.l > 0, v3' = [v3 EXCEPT ![s] = q], UNCHANGED <<v2, v4>>,
             v1' = [v1 EXCEPT ![r.l] = row], q.l = r.l, q.here = r.here, q.at # "done",
             row.photos \in Nat,
             \A rows : Len(rows) = Len(v1) /\ rows[r.l] = row => ChainFits(q, u, rows)
      PROVE  NewInv'
  <2>1. r.l \in 1..Len(v1)
    BY <1>t, <1>r, <1>3 DEF ChainFits
  <2>2. v1' \in Seq(NewRows) /\ Len(v1') = Len(v1) /\ v1'[r.l] = row
    BY <1>t, <1>3, <2>1, ExceptSeq
  <2>3. \A l \in 1..Len(v1) : l # v3[s].l => v1'[l] = v1[l]
    BY <1>1, <1>t, <1>3, <2>1
  <2>4. ChainFits(q, v4[s], v1')
    BY <1>3, <2>2
  <2>5. Len(v1) <= Len(v1')
    BY <1>t, <2>2
  <2> QED
    BY <1>1, <1>3, <2>2, <2>3, <2>4, <2>5, NewChain
<1>4. CASE New!create_listing(s)
  <2> DEFINE q == [r EXCEPT !.step = "ok", !.l = Len(v1) + 1]
             row == [status |-> "draft", viewing |-> u.days > 0, photos |-> 0, windows |-> 0]
  <2>1. /\ r.at = "create" /\ r.step = "sent" /\ v1' = Append(v1, row) /\ UNCHANGED <<v2, v4>>
        /\ v3' = [v3 EXCEPT ![s] = q]
    BY <1>1, <1>4 DEF New!create_listing, New!Waits
  <2>2. row \in NewRows /\ row.photos = 0
    BY <1>t DEF NewRows
  <2>3. q \in NewChains /\ q.at = "create" /\ q.step = "ok" /\ q.l = Len(v1) + 1 /\ q.said = r.said /\ q.here = r.here
    <3>1. Len(v1) + 1 \in Nat /\ r.at = "create"
      BY <1>t, <2>1
    <3> QED
      BY <3>1 DEF NewChains
  <2> HIDE DEF q, row
  <2>4. PICK p \in NewChains : p = q
    BY <2>3
  <2>5. PICK w \in NewRows : w = row
    BY <2>2
  <2>6. v1' \in Seq(NewRows) /\ Len(v1') = Len(v1) + 1 /\ v1'[Len(v1) + 1] = w /\ \A l \in DOMAIN v1 : v1'[l] = v1[l]
    BY <1>t, <2>1, <2>5, SeqGrows
  <2>7. ChainFits(p, v4[s], v1')
    BY <1>t, <2>1, <2>2, <2>3, <2>4, <2>5, <2>6 DEF ChainFits
  <2>8. v3' = [v3 EXCEPT ![s] = p] /\ p.l = Len(v1) + 1 /\ p.here = v3[s].here /\ p.at # "done"
    BY <1>1, <2>1, <2>3, <2>4
  <2>9. Len(v1) <= Len(v1') /\ \A l \in 1..Len(v1) : l # v3[s].l => v1'[l] = v1[l]
    BY <1>t, <2>6
  <2> QED
    BY <2>1, <2>6, <2>7, <2>8, <2>9, NewChain
<1>5. CASE New!upload_listing_image(s)
  <2> DEFINE q == [r EXCEPT !.step = "ok"]
             row == [v1[r.l] EXCEPT !.photos = @ + 1]
  <2>1. /\ r.at = "upload" /\ r.step = "sent" /\ v1' = [v1 EXCEPT ![r.l] = row] /\ UNCHANGED <<v2, v4>>
        /\ v3' = [v3 EXCEPT ![s] = q]
    BY <1>1, <1>5 DEF New!upload_listing_image, New!Waits, New!Answer
  <2>2. r.l > 0 /\ r.l <= Len(v1) /\ v1[r.l].photos + r.left = u.photos /\ r.said = {} /\ r.left > 0
    BY <1>t, <2>1 DEF ChainFits
  <2>3. v1[r.l] \in NewRows /\ v1[r.l].photos \in Nat
    BY <1>t, <1>r, <2>2 DEF NewRows
  <2>4. row \in NewRows /\ row.photos = v1[r.l].photos + 1
    BY <2>3 DEF NewRows
  <2>5. q \in NewChains /\ q.at = "upload" /\ q.step = "ok" /\ q.l = r.l /\ q.said = {} /\ q.here = r.here /\ q.left = r.left
    BY <2>1, <2>2 DEF NewChains
  <2> HIDE DEF q, row
  <2>6. PICK p \in NewChains : p = q
    BY <2>5
  <2>7. PICK w \in NewRows : w = row
    BY <2>4
  <2>8. \A rows : Len(rows) = Len(v1) /\ rows[r.l] = w => ChainFits(p, u, rows)
    <3>1. /\ p.at = "upload" /\ p.step = "ok" /\ p.l = r.l /\ p.l > 0 /\ p.l <= Len(v1) /\ p.said = {}
          /\ p.left > 0 /\ w.photos + p.left = u.photos + 1
      <4>1. p.left = r.left /\ p.l = r.l /\ p.at = "upload" /\ p.step = "ok" /\ p.said = {} /\ w.photos = v1[r.l].photos + 1
        BY <2>4, <2>5, <2>6, <2>7
      <4>2. \A a, b \in Nat : a + r.left = b => (a + 1) + r.left = b + 1
        BY <1>r
      <4>3. r.l > 0 /\ r.l <= Len(v1) /\ r.left > 0 /\ v1[r.l].photos \in Nat /\ u.photos \in Nat /\ v1[r.l].photos + r.left = u.photos
        BY <1>t, <2>2, <2>3
      <4> HIDE DEF u
      <4> QED
        BY <4>1, <4>2, <4>3
    <3> QED
      BY <3>1 DEF ChainFits
  <2> HIDE DEF u
  <2>9. p.l = r.l /\ p.here = r.here /\ p.at # "done" /\ w.photos \in Nat /\ v3' = [v3 EXCEPT ![s] = p] /\ v1' = [v1 EXCEPT ![r.l] = w]
    BY <2>1, <2>3, <2>4, <2>5, <2>6, <2>7
  <2> QED
    BY <1>3, <2>1, <2>2, <2>8, <2>9
<1>6. ASSUME NEW windows \in {v1[r.l].windows, v1[r.l].windows + 1}, r.at = "windows", r.step = "sent", r.left > 0,
             v1' = [v1 EXCEPT ![r.l].windows = windows], v3' = [v3 EXCEPT ![s].left = @ - 1], UNCHANGED <<v2, v4>>
      PROVE  NewInv'
  <2> DEFINE q == [r EXCEPT !.left = @ - 1]
             row == [v1[r.l] EXCEPT !.windows = windows]
  <2>1. v1' = [v1 EXCEPT ![r.l] = row] /\ v3' = [v3 EXCEPT ![s] = q]
    BY <1>1, <1>6
  <2>2. r.l > 0 /\ r.l <= Len(v1) /\ ("photos" \notin r.said => v1[r.l].photos = u.photos) /\ r.said \subseteq {"photos"}
    BY <1>t, <1>6 DEF ChainFits
  <2>3. v1[r.l] \in NewRows /\ v1[r.l].photos \in Nat /\ v1[r.l].windows \in Nat
    BY <1>t, <1>r, <2>2 DEF NewRows
  <2>4. row \in NewRows /\ row.photos = v1[r.l].photos
    BY <1>6, <2>3 DEF NewRows
  <2>5. q \in NewChains /\ q.at = "windows" /\ q.step = "sent" /\ q.l = r.l /\ q.said = r.said /\ q.here = r.here
    BY <1>r, <1>6 DEF NewChains
  <2> HIDE DEF q, row
  <2>6. PICK p \in NewChains : p = q
    BY <2>5
  <2>7. PICK w \in NewRows : w = row
    BY <2>4
  <2>8. \A rows : Len(rows) = Len(v1) /\ rows[r.l] = w => ChainFits(p, u, rows)
    BY <1>t, <1>r, <2>2, <2>3, <2>4, <2>5, <2>6, <2>7 DEF ChainFits
  <2> HIDE DEF u
  <2>9. p.l = r.l /\ p.here = r.here /\ p.at # "done" /\ w.photos \in Nat /\ v3' = [v3 EXCEPT ![s] = p] /\ v1' = [v1 EXCEPT ![r.l] = w]
    BY <2>1, <2>3, <2>4, <2>5, <2>6, <2>7
  <2> QED
    BY <1>3, <1>6, <2>2, <2>8, <2>9
<1>7. CASE New!add_viewing_window(s)
  <2>1. r.at = "windows" /\ r.step = "sent" /\ r.left > 0 /\ v1' = [v1 EXCEPT ![r.l].windows = @ + 1]
        /\ v3' = [v3 EXCEPT ![s].left = @ - 1] /\ UNCHANGED <<v2, v4>>
    BY <1>1, <1>7 DEF New!add_viewing_window, New!Waits
  <2> QED
    BY <1>6, <2>1
<1>8. CASE New!NoWindow(s)
  <2> DEFINE q == [r EXCEPT !.left = @ - 1]
  <2>1. r.at = "windows" /\ r.step = "sent" /\ r.left > 0 /\ UNCHANGED <<v1, v2, v4>> /\ v3' = [v3 EXCEPT ![s] = q]
    BY <1>1, <1>8 DEF New!NoWindow, New!Waits
  <2>2. q \in NewChains /\ q.at = "windows" /\ q.step = "sent" /\ q.l = r.l /\ q.said = r.said /\ q.here = r.here
    BY <1>r, <2>1 DEF NewChains
  <2> HIDE DEF q
  <2>3. PICK p \in NewChains : p = q
    BY <2>2
  <2>4. ChainFits(p, u, v1)
    BY <1>t, <2>1, <2>2, <2>3 DEF ChainFits
  <2> QED
    BY <1>2, <2>1, <2>2, <2>3, <2>4
<1>9. CASE New!publish_listing(s)
  <2>1. r.at = "publish" /\ UNCHANGED <<v2, v4>>
        /\ IF New!Valid(v1[r.l])
           THEN v3' = [v3 EXCEPT ![s].step = "ok"] /\ v1' = [v1 EXCEPT ![r.l].status = "pending_review"]
           ELSE v3' = [v3 EXCEPT ![s].step = "failed"] /\ UNCHANGED v1
    BY <1>1, <1>9 DEF New!publish_listing, New!Waits, New!Answer
  <2>2. r.l > 0 /\ r.l <= Len(v1) /\ ("photos" \notin r.said => v1[r.l].photos = u.photos) /\ r.said \subseteq {"photos"}
    BY <1>t, <2>1 DEF ChainFits
  <2>3. v1[r.l] \in NewRows /\ v1[r.l].photos \in Nat
    BY <1>t, <1>r, <2>2 DEF NewRows
  <2>4. CASE New!Valid(v1[r.l])
    <3> DEFINE q == [r EXCEPT !.step = "ok"]
               row == [v1[r.l] EXCEPT !.status = "pending_review"]
    <3>1. v3' = [v3 EXCEPT ![s] = q] /\ v1' = [v1 EXCEPT ![r.l] = row]
      BY <1>1, <2>1, <2>4
    <3>2. row \in NewRows /\ row.photos = v1[r.l].photos /\ row.status = "pending_review" /\ New!Valid(row)
      BY <2>3, <2>4 DEF NewRows, New!Valid
    <3>3. q \in NewChains /\ q.at = "publish" /\ q.step = "ok" /\ q.l = r.l /\ q.said = r.said /\ q.here = r.here
      BY <2>1 DEF NewChains
    <3> HIDE DEF q, row
    <3>4. PICK p \in NewChains : p = q
      BY <3>3
    <3>5. PICK w \in NewRows : w = row
      BY <3>2
    <3>6. \A rows : Len(rows) = Len(v1) /\ rows[r.l] = w => ChainFits(p, u, rows)
      BY <1>t, <1>r, <2>2, <3>2, <3>3, <3>4, <3>5 DEF ChainFits, Complete
    <3> HIDE DEF u
    <3>7. p.l = r.l /\ p.here = r.here /\ p.at # "done" /\ w.photos \in Nat /\ v3' = [v3 EXCEPT ![s] = p] /\ v1' = [v1 EXCEPT ![r.l] = w]
      BY <2>3, <3>1, <3>2, <3>3, <3>4, <3>5
    <3> QED
      BY <1>3, <2>1, <2>2, <3>6, <3>7
  <2>5. CASE ~New!Valid(v1[r.l])
    <3> DEFINE q == [r EXCEPT !.step = "failed"]
    <3>1. v3' = [v3 EXCEPT ![s] = q] /\ v1' = v1
      BY <1>1, <2>1, <2>5
    <3>2. q \in NewChains /\ q.at = "publish" /\ q.step = "failed" /\ q.l = r.l /\ q.said = r.said /\ q.here = r.here
      BY <2>1 DEF NewChains
    <3> HIDE DEF q
    <3>3. PICK p \in NewChains : p = q
      BY <3>2
    <3>4. ChainFits(p, u, v1)
      BY <1>t, <2>2, <3>2, <3>3 DEF ChainFits
    <3> QED
      BY <1>2, <2>1, <3>1, <3>2, <3>3, <3>4
  <2> QED
    BY <2>4, <2>5
<1>10. CASE New!Fails(s)
  <2> DEFINE q == [r EXCEPT !.step = "failed"]
  <2>1. r.at \in {"create", "upload", "publish"} /\ UNCHANGED <<v1, v2, v4>> /\ v3' = [v3 EXCEPT ![s] = q]
    BY <1>1, <1>10 DEF New!Fails, New!Answer
  <2>2. q \in NewChains /\ q.at = r.at /\ q.step = "failed" /\ q.l = r.l /\ q.said = r.said /\ q.here = r.here /\ q.left = r.left
    BY <2>1 DEF NewChains
  <2> HIDE DEF q
  <2>3. PICK p \in NewChains : p = q
    BY <2>2
  <2>4. ChainFits(p, u, v1)
    BY <1>t, <2>1, <2>2, <2>3 DEF ChainFits
  <2> QED
    BY <1>2, <2>1, <2>2, <2>3, <2>4
<1> QED
  BY <1>4, <1>5, <1>7, <1>8, <1>9, <1>10 DEF New!Serve

LEMMA NewNext ==
  ASSUME NumbersFinite
  PROVE  NewInv /\ New!Next => NewInv'
BY NewPageActs, NewLeaves, NewSubmits, NewHears, NewServed DEF New!Next

LEMMA NewSays == NewInv => New!TypeOK /\ New!PhotosOrTold /\ New!SubmittedIsComplete
<1> SUFFICES ASSUME NewInv PROVE New!TypeOK /\ New!PhotosOrTold /\ New!SubmittedIsComplete
  OBVIOUS
<1>1. \A s \in DOMAIN v3 : v3[s].l \in 0..Len(v1)
  <2>1. \A s \in DOMAIN v3 : v3[s].l \in Nat /\ Len(v1) \in Nat
    BY NewIs DEF NewChains
  <2> QED
    BY <2>1 DEF NewInv, ChainFits
<1>2. v2.fields \in NewFields
  BY DEF NewInv, NewTyped, NewForms
<1>3. New!TypeOK
  BY <1>1, <1>2 DEF NewInv, SubmitWaits, NewFields, New!TypeOK, New!Steps, New!Details
<1>4. New!PhotosOrTold
  BY DEF NewInv, ChainFits, New!PhotosOrTold
<1>5. New!SubmittedIsComplete
  BY DEF NewInv, ChainFits, Complete, New!Valid, New!SubmittedIsComplete
<1> QED
  BY <1>3, <1>4, <1>5

LEMMA NewStill == NewInv /\ UNCHANGED <<v1, v2, v3, v4>> => NewInv'
BY DEF NewInv, NewTyped, ChainsApart, SubmitWaits

-----------------------------------------------------------------------------
(* Tickets, for both of its tabs: v1 the statuses, v2 the messages, v3 the tab of the user, v4 *)
(* that of the staff, v5 the requests, v6 the ticket each text was meant for.                  *)

Tkt == INSTANCE Tickets WITH
  Tickets <- X, Texts <- {"text"}, Calls <- C, Statuses <- {"open", "closed"},
  Acts <- {"user", "staff", "api", "lost"},
  row <- v1, said <- v2, tab <- v3, adm <- v4, call <- v5, meant <- v6

Status == {"open", "closed"}
TicketLists == UNION {[S -> Status \cup {"none"}] : S \in SUBSET X}
Details == [id : X \cup {"none"}, status : Status \cup {"none"}, texts : SUBSET {"text"}]
UserTabs == [view : {"list", "detail", "create"}, list : TicketLists, loading : BOOLEAN, sel : Details,
             opening : BOOLEAN, creating : BOOLEAN, sending : BOOLEAN, up : BOOLEAN]
StaffTabs == [items : TicketLists, filter : Status \cup {"all"}, search : BOOLEAN,
              processing : X \cup {"none"}, loading : BOOLEAN, mixed : BOOLEAN, up : BOOLEAN]
TicketCalls == [kind : {"idle", "my", "get", "create", "say", "list", "set"},
                step : {"idle", "sent", "ok", "failed"}, t : X \cup {"none"},
                x : {"text", "none", "all"} \cup Status, st : Status \cup {"none", "all"},
                data : TicketLists \cup Details \cup BOOLEAN, heard : BOOLEAN]

\* What a request asks for, and what its answer has, is there.
RequestFits(r) ==
  /\ r.kind \in {"get", "create", "say", "set"} => r.t \in X
  /\ r.kind = "say" => r.x = "text" /\ v6["text"] = r.t
  /\ r.kind \in {"my", "list"} => r.data \in TicketLists /\ DOMAIN r.data \subseteq Tkt!All
  /\ r.kind = "get" => r.t \in Tkt!All
  /\ r.kind = "get" /\ r.step = "ok" => r.data \in Details /\ r.data.id \in Tkt!All
  /\ r.kind = "create" /\ r.step = "ok" => r.t \in Tkt!All
  /\ r.kind = "set" => r.st \in Status /\ r.x \in Status \cup {"all"} /\ r.data \in BOOLEAN

TicketTyped ==
  /\ v1 \in [X -> Status \cup {"none"}] /\ v2 \in [X -> SUBSET {"text"}]
  /\ v6 \in [{"text"} -> X \cup {"none"}]
  /\ v3 \in UserTabs /\ v4 \in StaffTabs /\ v5 \in [C -> TicketCalls]

DrawnExists ==
  /\ DOMAIN v3.list \subseteq Tkt!All /\ DOMAIN v4.items \subseteq Tkt!All
  /\ v3.sel = Tkt!NoDetail \/ v3.sel.id \in Tkt!All
DetailAwaited == v3.up /\ v3.opening => \E c \in C : v5[c].kind = "get" /\ v5[c].heard

TicketInv ==
  /\ TicketTyped /\ \A c \in C : RequestFits(v5[c])
  /\ DrawnExists /\ DetailAwaited /\ Tkt!SaidWhereMeant

LEMMA TicketSorts ==
  /\ <<>> \in TicketLists /\ DOMAIN <<>> = {} /\ Tkt!NoDetail \in Details /\ Tkt!NoDetail.id = "none"
  /\ Tkt!NoCall \in TicketCalls /\ Tkt!NoCall.kind = "idle" /\ Tkt!NoCall.data = <<>>
  /\ Tkt!NoCall.step = "idle" /\ ~Tkt!NoCall.heard
  /\ Tkt!All \subseteq X /\ \A t \in X : t \in Tkt!All <=> v1[t] # "none"
<1>1. <<>> \in [{} -> Status \cup {"none"}] /\ DOMAIN <<>> = {}
  OBVIOUS
<1>2. <<>> \in TicketLists
  BY <1>1 DEF TicketLists
<1>3. Tkt!NoDetail \in Details /\ Tkt!NoDetail.id = "none"
  BY DEF Tkt!NoDetail, Details
<1>4. /\ Tkt!NoCall \in TicketCalls /\ Tkt!NoCall.kind = "idle" /\ Tkt!NoCall.data = <<>>
      /\ Tkt!NoCall.step = "idle" /\ ~Tkt!NoCall.heard
  BY <1>2 DEF Tkt!NoCall, TicketCalls
<1> QED
  BY <1>1, <1>2, <1>3, <1>4 DEF Tkt!All

LEMMA TicketFresh ==
  /\ Tkt!Fresh \in UserTabs /\ Tkt!Fresh.list = <<>> /\ Tkt!Fresh.sel = Tkt!NoDetail /\ ~Tkt!Fresh.opening
  /\ Tkt!FreshStaff \in StaffTabs /\ Tkt!FreshStaff.items = <<>>
BY TicketSorts DEF Tkt!Fresh, Tkt!FreshStaff, UserTabs, StaffTabs, Status

LEMMA TicketInit == Tkt!Init => TicketInv
<1> SUFFICES ASSUME Tkt!Init PROVE TicketInv
  OBVIOUS
<1>1. TicketTyped
  <2>1. v3 \in UserTabs
    BY TicketFresh DEF Tkt!Init, UserTabs
  <2> QED
    BY <2>1, TicketSorts, TicketFresh DEF Tkt!Init, TicketTyped, Status
<1>2. \A c \in C : RequestFits(v5[c])
  BY TicketSorts DEF Tkt!Init, RequestFits
<1>3. v3.list = <<>> /\ v3.sel = Tkt!NoDetail /\ ~v3.opening
  BY TicketFresh DEF Tkt!Init, UserTabs
<1>4. DrawnExists /\ DetailAwaited
  BY <1>3, TicketSorts, TicketFresh DEF Tkt!Init, DrawnExists, DetailAwaited
<1> QED
  BY <1>1, <1>2, <1>4 DEF TicketInv, Tkt!Init, Tkt!SaidWhereMeant

\* A ticket that is there stays, and a text keeps the ticket it is meant for.
LEMMA FitsStays ==
  ASSUME NEW r, RequestFits(r), Tkt!All \subseteq Tkt!All',
         v6["text"] \in X => v6'["text"] = v6["text"]
  PROVE  RequestFits(r)'
BY DEF RequestFits

\* One request changes.
LEMMA TicketOne ==
  ASSUME TicketInv, NEW c \in C, TicketTyped', Tkt!All \subseteq Tkt!All',
         v6["text"] \in X => v6'["text"] = v6["text"],
         \A d \in C \ {c} : v5'[d] = v5[d], RequestFits(v5[c])',
         DrawnExists', DetailAwaited', Tkt!SaidWhereMeant'
  PROVE  TicketInv'
<1>1. ASSUME NEW d \in C \ {c} PROVE RequestFits(v5[d])'
  <2>1. PICK r : r = v5[d]
    OBVIOUS
  <2>2. RequestFits(r)
    BY <2>1 DEF TicketInv, RequestFits
  <2>3. RequestFits(r)'
    BY <2>2, FitsStays
  <2> QED
    BY <2>1, <2>3, <1>1 DEF RequestFits
<1> QED
  BY <1>1 DEF TicketInv

\* A request is made.
LEMMA TicketSent ==
  ASSUME TicketInv, NEW c \in C, NEW r \in TicketCalls,
         r.kind # "idle", r.data = <<>> \/ r.kind = "set", RequestFits([r EXCEPT !.step = "sent", !.heard = TRUE])',
         UNCHANGED <<v1, v2>>, v6' \in [{"text"} -> X \cup {"none"}], v6["text"] \in X => v6' = v6,
         Tkt!Send(c, r), v3' \in UserTabs, v4' \in StaffTabs,
         v3'.list = v3.list, v3'.sel = v3.sel, v4'.items = v4.items \/ v4'.items = <<>>,
         v3'.up /\ v3'.opening => (v3.up /\ v3.opening) \/ r.kind = "get"
  PROVE  TicketInv'
<1> DEFINE s == [r EXCEPT !.step = "sent", !.heard = TRUE]
<1>1. s \in TicketCalls /\ s.kind = r.kind /\ s.heard
  BY DEF TicketCalls
<1>2. v5[c] = Tkt!NoCall /\ v5' = [v5 EXCEPT ![c] = s]
  BY DEF Tkt!Send
<1> HIDE DEF s
<1>3. v5' \in [C -> TicketCalls] /\ v5'[c] = s /\ \A d \in C \ {c} : v5'[d] = v5[d]
  BY <1>1, <1>2 DEF TicketInv, TicketTyped
<1>4. RequestFits(v5[c])'
  BY <1>3 DEF RequestFits, s
<1>5. TicketTyped' /\ Tkt!All' = Tkt!All
  BY <1>3 DEF TicketInv, TicketTyped, Tkt!All
<1>6. DrawnExists'
  BY <1>5, TicketSorts DEF TicketInv, DrawnExists
<1>7. DetailAwaited'
  BY <1>1, <1>2, <1>3, TicketSorts DEF TicketInv, DetailAwaited
<1>8. Tkt!SaidWhereMeant'
  BY DEF TicketInv, Tkt!SaidWhereMeant, TicketTyped
<1> QED
  BY <1>3, <1>4, <1>5, <1>6, <1>7, <1>8, TicketOne

LEMMA RequestMade ==
  ASSUME NEW kind \in {"my", "get", "create", "say", "list", "set"}, NEW t \in X \cup {"none"},
         NEW x \in {"text", "none", "all"} \cup Status, NEW st \in Status \cup {"none", "all"}
  PROVE  LET r == Tkt!Req(kind, t, x, st)
         IN /\ r \in TicketCalls /\ r.kind = kind /\ r.t = t /\ r.x = x /\ r.st = st /\ r.data = <<>>
<1> DEFINE r == Tkt!Req(kind, t, x, st)
<1>1. r = [Tkt!NoCall EXCEPT !.kind = kind, !.t = t, !.x = x, !.st = st]
  BY DEF Tkt!Req
<1>2. Tkt!NoCall \in TicketCalls /\ Tkt!NoCall.step = "idle" /\ ~Tkt!NoCall.heard /\ Tkt!NoCall.data = <<>>
  BY TicketSorts
<1>3. r \in TicketCalls
  BY <1>1, <1>2 DEF TicketCalls
<1>4. /\ r.kind = kind /\ r.t = t /\ r.x = x /\ r.st = st /\ r.data = <<>> /\ r.step = "idle" /\ ~r.heard
  BY <1>1, <1>2 DEF TicketCalls
<1> QED
  BY <1>3, <1>4

\* What the user does.
LEMMA UserActs ==
  ASSUME NamesApart, TicketInv, NEW c \in C, Tkt!TicketsTab(c)
  PROVE  TicketInv'
<1>t. /\ v3 \in UserTabs /\ v4 \in StaffTabs /\ v6 \in [{"text"} -> X \cup {"none"}]
      /\ v3.list \in TicketLists /\ v3.sel \in Details
      /\ DOMAIN v3.list \subseteq Tkt!All /\ Tkt!All \subseteq X
      /\ v3.sel = Tkt!NoDetail \/ v3.sel.id \in Tkt!All
  BY TicketSorts DEF TicketInv, TicketTyped, UserTabs, DrawnExists
<1>1. ASSUME Tkt!Mount(c) PROVE TicketInv'
  <2> DEFINE r == [Tkt!Req("my", "none", "none", "none") EXCEPT !.step = "sent", !.heard = TRUE]
  <2>1. r \in TicketCalls /\ r.kind = "my" /\ r.data = <<>>
    <3> DEFINE q == Tkt!Req("my", "none", "none", "none")
    <3>1. q \in TicketCalls /\ q.kind = "my" /\ q.data = <<>>
      BY RequestMade
    <3> HIDE DEF q
    <3>2. r = [q EXCEPT !.step = "sent", !.heard = TRUE]
      BY DEF q
    <3> QED
      BY <3>1, <3>2 DEF TicketCalls
  <2>2. /\ v5[c] = Tkt!NoCall /\ v5' = [v5 EXCEPT ![c] = r] /\ v3' = Tkt!Fresh /\ UNCHANGED <<v1, v2, v4, v6>>
    BY <1>1 DEF Tkt!Mount
  <2> HIDE DEF r
  <2>3. v5' \in [C -> TicketCalls] /\ v5'[c] = r /\ \A d \in C \ {c} : v5'[d] = v5[d]
    BY <2>1, <2>2 DEF TicketInv, TicketTyped
  <2>4. TicketTyped' /\ Tkt!All' = Tkt!All
    BY <2>2, <2>3, TicketFresh DEF TicketInv, TicketTyped, Tkt!All
  <2>5. RequestFits(v5[c])'
    BY <2>1, <2>3, TicketSorts DEF RequestFits
  <2>6. DrawnExists' /\ DetailAwaited' /\ Tkt!SaidWhereMeant'
    BY <2>2, <2>4, TicketFresh, TicketSorts DEF TicketInv, DrawnExists, DetailAwaited, Tkt!SaidWhereMeant
  <2> QED
    BY <2>2, <2>3, <2>4, <2>5, <2>6, TicketOne
<1>2. ASSUME NEW t \in X, Tkt!openTicket(c, t) PROVE TicketInv'
  <2> DEFINE r == Tkt!Req("get", t, "none", "none")
  <2>1. r \in TicketCalls /\ r.kind = "get" /\ r.data = <<>> /\ r.t = t
    BY RequestMade
  <2>2. /\ Tkt!Send(c, r) /\ UNCHANGED <<v1, v2, v4, v6>> /\ t \in Tkt!All
        /\ v3' = [v3 EXCEPT !.view = "detail", !.opening = TRUE]
    BY <1>2, <1>t DEF Tkt!openTicket
  <2>3. v3' \in UserTabs /\ v3'.list = v3.list /\ v3'.sel = v3.sel
    BY <1>t, <2>2 DEF UserTabs
  <2> HIDE DEF r
  <2>4. RequestFits([r EXCEPT !.step = "sent", !.heard = TRUE])'
    BY <2>1, <2>2 DEF RequestFits, TicketCalls, Tkt!All
  <2> QED
    BY <1>t, <2>1, <2>2, <2>3, <2>4, TicketSent
<1>3. ASSUME NEW t \in X, Tkt!handleCreate(c, t) PROVE TicketInv'
  <2> DEFINE r == Tkt!Req("create", t, "none", "none")
  <2>1. r \in TicketCalls /\ r.kind = "create" /\ r.data = <<>> /\ r.t = t
    BY RequestMade
  <2>2. /\ Tkt!Send(c, r) /\ UNCHANGED <<v1, v2, v4, v6>> /\ v3' = [v3 EXCEPT !.creating = TRUE]
    BY <1>3, <1>t DEF Tkt!handleCreate
  <2>3. v3' \in UserTabs /\ v3'.list = v3.list /\ v3'.sel = v3.sel /\ v3'.up = v3.up /\ v3'.opening = v3.opening
    BY <1>t, <2>2 DEF UserTabs
  <2> HIDE DEF r
  <2>4. RequestFits([r EXCEPT !.step = "sent", !.heard = TRUE])'
    BY <2>1, <2>2 DEF RequestFits, TicketCalls, Tkt!All
  <2> QED
    BY <1>t, <2>1, <2>2, <2>3, <2>4, TicketSent
<1>4. ASSUME Tkt!handleSendMsg(c, "text") PROVE TicketInv'
  <2> DEFINE r == Tkt!Req("say", Tkt!Target, "text", "none")
  <2>1. v3.sel.id \in X /\ Tkt!Target = v3.sel.id
    BY <1>4, <1>t DEF Tkt!handleSendMsg, Tkt!Drawn, Tkt!Target
  <2>2. r \in TicketCalls /\ r.kind = "say" /\ r.data = <<>> /\ r.t = v3.sel.id /\ r.x = "text"
    BY <2>1, RequestMade
  <2>3. /\ Tkt!Send(c, r) /\ UNCHANGED <<v1, v2, v4>> /\ v3' = [v3 EXCEPT !.sending = TRUE]
        /\ v6["text"] = "none" /\ v6' = [v6 EXCEPT !["text"] = v3.sel.id]
    BY <1>4 DEF Tkt!handleSendMsg
  <2>4. v3' \in UserTabs /\ v3'.list = v3.list /\ v3'.sel = v3.sel /\ v3'.up = v3.up /\ v3'.opening = v3.opening
    BY <1>t, <2>3 DEF UserTabs
  <2>5. v6' \in [{"text"} -> X \cup {"none"}] /\ v6'["text"] = v3.sel.id
    BY <1>t, <2>1, <2>3
  <2> HIDE DEF r
  <2>6. PICK s \in TicketCalls : s = r
    BY <2>2
  <2>7. RequestFits([s EXCEPT !.step = "sent", !.heard = TRUE])'
    BY <2>2, <2>1, <2>5, <2>6 DEF RequestFits, TicketCalls
  <2> QED
    BY <1>t, <2>2, <2>3, <2>4, <2>5, <2>6, <2>7, TicketSent DEF NamesApart
<1> QED
  BY <1>1, <1>2, <1>3, <1>4 DEF Tkt!TicketsTab

\* What the staff does.
LEMMA StaffActs ==
  ASSUME TicketInv, NEW c \in C, Tkt!MessagesTab(c)
  PROVE  TicketInv'
<1>t. /\ v3 \in UserTabs /\ v4 \in StaffTabs /\ v6 \in [{"text"} -> X \cup {"none"}]
      /\ v4.filter \in Status \cup {"all"} /\ v4.search \in BOOLEAN
  BY DEF TicketInv, TicketTyped, StaffTabs
<1>1. ASSUME NEW f \in Status \cup {"all"}, Tkt!Send(c, Tkt!Req("list", "none", "none", f)), UNCHANGED <<v1, v2, v3, v6>>,
             v4' \in StaffTabs, v4'.items = v4.items \/ v4'.items = <<>>
      PROVE TicketInv'
  <2> DEFINE r == Tkt!Req("list", "none", "none", f)
  <2>1. r \in TicketCalls /\ r.kind = "list" /\ r.data = <<>>
    BY RequestMade
  <2>2. Tkt!Send(c, r)
    BY <1>1
  <2> HIDE DEF r
  <2>3. RequestFits([r EXCEPT !.step = "sent", !.heard = TRUE])'
    BY <2>1, TicketSorts DEF RequestFits, TicketCalls
  <2> QED
    BY <1>1, <1>t, <2>1, <2>2, <2>3, TicketSent
<1>2. ASSUME UNCHANGED <<v1, v2, v3, v5, v6>>, v4' \in StaffTabs, v4'.items = v4.items PROVE TicketInv'
  <2>1. TicketTyped' /\ Tkt!All' = Tkt!All /\ RequestFits(v5[c])'
    BY <1>2 DEF TicketInv, TicketTyped, Tkt!All, RequestFits
  <2>2. DrawnExists' /\ DetailAwaited' /\ Tkt!SaidWhereMeant'
    BY <1>2, <2>1 DEF TicketInv, DrawnExists, DetailAwaited, Tkt!SaidWhereMeant, Tkt!NoDetail
  <2> QED
    BY <1>2, <2>1, <2>2, TicketOne
<1>3. ASSUME Tkt!Open(c) PROVE TicketInv'
  <2>1. v4' \in StaffTabs /\ v4'.items = <<>>
    BY <1>3, TicketFresh DEF Tkt!Open, StaffTabs
  <2> QED
    BY <1>1, <1>3, <2>1 DEF Tkt!Open, Tkt!Load, Status
<1>4. ASSUME NEW f \in Status \cup {"all"}, Tkt!setFilterStatus(c, f) PROVE TicketInv'
  <2>1. v4' \in StaffTabs /\ v4'.items = v4.items
    BY <1>4, <1>t DEF Tkt!setFilterStatus, Tkt!Loading, Tkt!Busy, StaffTabs
  <2> QED
    BY <1>1, <1>2, <1>4, <2>1 DEF Tkt!setFilterStatus, Tkt!Load
<1>5. ASSUME Tkt!setSearchQuery(c) PROVE TicketInv'
  <2>1. v4' \in StaffTabs /\ v4'.items = v4.items
    BY <1>5, <1>t DEF Tkt!setSearchQuery, Tkt!Loading, Tkt!Busy, StaffTabs
  <2> QED
    BY <1>1, <1>2, <1>5, <1>t, <2>1 DEF Tkt!setSearchQuery, Tkt!Load
<1>6. ASSUME Tkt!refresh(c) PROVE TicketInv'
  <2>1. v4' \in StaffTabs /\ v4'.items = v4.items
    BY <1>6, <1>t DEF Tkt!refresh, Tkt!Loading, Tkt!Busy, StaffTabs
  <2> QED
    BY <1>1, <1>6, <1>t, <2>1 DEF Tkt!refresh, Tkt!Load
<1>7. ASSUME NEW t \in X, NEW st \in Status, Tkt!handleStatusChange(c, t, st) PROVE TicketInv'
  <2> DEFINE q == Tkt!Req("set", t, v4.filter, st)
             r == [q EXCEPT !.data = v4.search]
  <2>1. q \in TicketCalls /\ q.kind = "set" /\ q.t = t /\ q.st = st /\ q.x = v4.filter
    <3>1. PICK f \in {"text", "none", "all"} \cup Status : f = v4.filter
      BY <1>t
    <3>2. st \in Status \cup {"none", "all"} /\ t \in X \cup {"none"}
      OBVIOUS
    <3>3. LET a == Tkt!Req("set", t, f, st) IN a \in TicketCalls /\ a.kind = "set" /\ a.t = t /\ a.st = st /\ a.x = f
      BY <3>2, RequestMade
    <3> QED
      BY <3>1, <3>3
  <2>2. r \in TicketCalls /\ r.kind = "set" /\ r.t = t /\ r.st = st /\ r.data = v4.search /\ r.x = v4.filter
    BY <1>t, <2>1 DEF TicketCalls
  <2>3. Tkt!Send(c, r) /\ UNCHANGED <<v1, v2, v3, v6>> /\ v4' = [Tkt!Busy(v4) EXCEPT !.processing = t]
    BY <1>7 DEF Tkt!handleStatusChange
  <2>4. v4' \in StaffTabs /\ v4'.items = v4.items
    BY <1>t, <2>3 DEF Tkt!Busy, StaffTabs
  <2> HIDE DEF r, q
  <2>5. PICK s \in TicketCalls : s = r
    BY <2>2
  <2>6. RequestFits([s EXCEPT !.step = "sent", !.heard = TRUE])'
    BY <2>2, <2>5, <1>t DEF RequestFits, TicketCalls
  <2> QED
    BY <1>t, <2>2, <2>3, <2>4, <2>5, <2>6, TicketSent
<1> QED
  BY <1>3, <1>4, <1>5, <1>6, <1>7 DEF Tkt!MessagesTab, Status

\* A request is answered, in the server or on its way.
LEMMA TicketAnswered ==
  ASSUME TicketInv, NEW c \in C, NEW d, NEW step \in {"ok", "failed"},
         v1' \in [X -> Status \cup {"none"}], Tkt!All \subseteq Tkt!All', UNCHANGED <<v3, v4, v6>>,
         v2' \in [X -> SUBSET {"text"}], Tkt!SaidWhereMeant',
         v5' = [v5 EXCEPT ![c] = [v5[c] EXCEPT !.step = step, !.data = d]],
         d \in TicketLists \cup Details \cup BOOLEAN,
         v5[c].kind \in {"my", "list"} => d \in TicketLists /\ DOMAIN d \subseteq Tkt!All,
         step = "ok" /\ v5[c].kind = "get" => d \in Details /\ d.id \in Tkt!All,
         step = "ok" /\ v5[c].kind = "create" => v5[c].t \in Tkt!All',
         v5[c].kind = "set" => d \in BOOLEAN
  PROVE  TicketInv'
<1> DEFINE r == [v5[c] EXCEPT !.step = step, !.data = d]
<1>t. v5 \in [C -> TicketCalls] /\ v5[c] \in TicketCalls /\ RequestFits(v5[c])
  BY DEF TicketInv, TicketTyped
<1>1. /\ r \in TicketCalls /\ r.kind = v5[c].kind /\ r.step = step /\ r.data = d /\ r.t = v5[c].t
      /\ r.x = v5[c].x /\ r.st = v5[c].st /\ r.heard = v5[c].heard
  BY <1>t DEF TicketCalls
<1> HIDE DEF r
<1>2. v5' \in [C -> TicketCalls] /\ v5'[c] = r /\ \A e \in C \ {c} : v5'[e] = v5[e]
  BY <1>t, <1>1 DEF r
<1>3. TicketTyped'
  BY <1>2 DEF TicketInv, TicketTyped
<1>4. RequestFits(v5[c])'
  BY <1>t, <1>1, <1>2 DEF RequestFits
<1>5. DrawnExists'
  BY DEF TicketInv, DrawnExists, Tkt!NoDetail
<1>6. DetailAwaited'
  BY <1>1, <1>2 DEF TicketInv, DetailAwaited
<1> QED
  BY <1>2, <1>3, <1>4, <1>5, <1>6, TicketOne

LEMMA TicketRows ==
  ASSUME v1 \in [X -> Status \cup {"none"}], NEW S \in SUBSET X
  PROVE  Tkt!Rows(S) \in TicketLists /\ DOMAIN Tkt!Rows(S) = S
BY DEF Tkt!Rows, TicketLists

LEMMA TicketServed ==
  ASSUME NamesApart, TicketInv, NEW c \in C, Tkt!Serve(c) \/ Tkt!Lost(c)
  PROVE  TicketInv'
<1>t. /\ v1 \in [X -> Status \cup {"none"}] /\ v2 \in [X -> SUBSET {"text"}] /\ Tkt!SaidWhereMeant
      /\ v5[c] \in TicketCalls /\ RequestFits(v5[c]) /\ Tkt!All \subseteq X /\ v5 \in [C -> TicketCalls]
      /\ <<>> \in TicketLists /\ DOMAIN <<>> = {}
  BY TicketSorts DEF TicketInv, TicketTyped
<1>n. UNCHANGED <<v2, v6>> => Tkt!SaidWhereMeant'
  BY <1>t DEF Tkt!SaidWhereMeant
<1>1. CASE Tkt!create_ticket(c)
  <2>1. /\ v5[c].kind = "create" /\ v1' = [v1 EXCEPT ![v5[c].t] = "open"] /\ UNCHANGED <<v2, v3, v4, v6>>
        /\ v5' = [v5 EXCEPT ![c] = [v5[c] EXCEPT !.step = "ok", !.data = <<>>]]
    BY <1>1, <1>t DEF Tkt!create_ticket, Tkt!Sent, Tkt!Reply
  <2>2. v1' \in [X -> Status \cup {"none"}] /\ Tkt!All \subseteq Tkt!All' /\ v5[c].t \in Tkt!All'
    BY <2>1, <1>t DEF RequestFits, Tkt!All, Status, NamesApart
  <2> QED
    BY <1>t, <1>n, <2>1, <2>2, TicketAnswered
<1>2. ASSUME NEW S \in SUBSET Tkt!All, v5[c].kind \in {"my", "list"}, Tkt!Reply(c, Tkt!Rows(S)),
             UNCHANGED <<v1, v2, v3, v4, v6>>
      PROVE  TicketInv'
  <2>1. Tkt!Rows(S) \in TicketLists /\ DOMAIN Tkt!Rows(S) \subseteq Tkt!All
    BY <1>t, TicketRows
  <2>2. v5' = [v5 EXCEPT ![c] = [v5[c] EXCEPT !.step = "ok", !.data = Tkt!Rows(S)]]
    BY <1>2, <1>t DEF Tkt!Reply
  <2>3. Tkt!All' = Tkt!All
    BY <1>2 DEF Tkt!All
  <2>4. PICK d \in TicketLists : d = Tkt!Rows(S)
    BY <2>1
  <2> QED
    BY <1>t, <1>n, <1>2, <2>1, <2>2, <2>3, <2>4, TicketAnswered
<1>3. CASE Tkt!my_tickets(c)
  BY <1>2, <1>3 DEF Tkt!my_tickets, Tkt!Sent
<1>4. CASE Tkt!list_tickets(c)
  <2> DEFINE S == {t \in Tkt!All : v5[c].st \in {"all", v1[t]}}
  <2>1. Tkt!Reply(c, Tkt!Rows(S)) /\ v5[c].kind = "list" /\ UNCHANGED <<v1, v2, v3, v4, v6>>
    BY <1>4 DEF Tkt!list_tickets, Tkt!Sent
  <2>2. PICK T \in SUBSET Tkt!All : T = S
    OBVIOUS
  <2> QED
    BY <1>2, <2>1, <2>2
<1>5. CASE Tkt!get_ticket(c)
  <2> DEFINE t == v5[c].t
             new == [id |-> t, status |-> v1[t], texts |-> v2[t]]
  <2>1. /\ v5[c].kind = "get" /\ UNCHANGED <<v1, v2, v3, v4, v6>>
        /\ v5' = [v5 EXCEPT ![c] = [v5[c] EXCEPT !.step = "ok", !.data = new]]
    BY <1>5, <1>t DEF Tkt!get_ticket, Tkt!Sent, Tkt!Reply
  <2>2. t \in X /\ t \in Tkt!All
    BY <2>1, <1>t DEF RequestFits
  <2>3. new \in Details /\ new.id \in Tkt!All
    BY <2>2, <1>t DEF Details
  <2>4. PICK d \in Details : d = new
    BY <2>3
  <2>5. Tkt!All' = Tkt!All
    BY <2>1 DEF Tkt!All
  <2> HIDE DEF t, new
  <2> QED
    BY <1>t, <1>n, <2>1, <2>3, <2>4, <2>5, TicketAnswered
<1>6. CASE Tkt!add_message(c)
  <2>1. /\ v5[c].kind = "say" /\ UNCHANGED <<v1, v3, v4, v6>>
        /\ v2' = [v2 EXCEPT ![v5[c].t] = @ \cup {v5[c].x}]
        /\ v5' = [v5 EXCEPT ![c] = [v5[c] EXCEPT !.step = "ok", !.data = <<>>]]
    BY <1>6, <1>t DEF Tkt!add_message, Tkt!Sent, Tkt!Reply
  <2>2. v5[c].t \in X /\ v5[c].x = "text" /\ v6["text"] = v5[c].t
    BY <2>1, <1>t DEF RequestFits
  <2>3. v2' \in [X -> SUBSET {"text"}] /\ Tkt!SaidWhereMeant' /\ Tkt!All' = Tkt!All
    BY <2>1, <2>2, <1>t DEF Tkt!SaidWhereMeant, Tkt!All
  <2> QED
    BY <1>t, <2>1, <2>3, TicketAnswered
<1>7. CASE Tkt!update_ticket(c)
  <2>1. /\ v5[c].kind = "set" /\ UNCHANGED <<v2, v3, v4, v6>> /\ v1' = [v1 EXCEPT ![v5[c].t] = v5[c].st]
        /\ v5' = [v5 EXCEPT ![c].step = "ok"]
    BY <1>7, <1>t DEF Tkt!update_ticket, Tkt!Sent
  <2>2. v1' \in [X -> Status \cup {"none"}] /\ Tkt!All \subseteq Tkt!All'
    BY <2>1, <1>t DEF RequestFits, Tkt!All, Status
  <2>3. TicketTyped'
    BY <2>1, <2>2 DEF TicketInv, TicketTyped, TicketCalls
  <2>4. RequestFits(v5[c])'
    BY <2>1, <1>t DEF RequestFits, TicketCalls
  <2>5. DrawnExists' /\ DetailAwaited'
    BY <2>1, <2>2, <1>t DEF TicketInv, DrawnExists, DetailAwaited, Tkt!NoDetail
  <2> QED
    BY <1>t, <1>n, <2>1, <2>2, <2>3, <2>4, <2>5, TicketOne
<1>8. CASE Tkt!Lost(c)
  <2> DEFINE new == IF v5[c].kind = "set" THEN v5[c].data ELSE <<>>
  <2>1. /\ UNCHANGED <<v1, v2, v3, v4, v6>>
        /\ v5' = [v5 EXCEPT ![c] = [v5[c] EXCEPT !.step = "failed", !.data = new]]
    BY <1>8, <1>t DEF Tkt!Lost
  <2>2. /\ new \in TicketLists \cup Details \cup BOOLEAN /\ (v5[c].kind = "set" => new \in BOOLEAN)
        /\ v5[c].kind \in {"my", "list"} => new \in TicketLists /\ DOMAIN new \subseteq Tkt!All
    BY <1>t DEF RequestFits
  <2>3. Tkt!All' = Tkt!All
    BY <2>1 DEF Tkt!All
  <2>4. PICK d \in TicketLists \cup Details \cup BOOLEAN : d = new
    BY <2>2
  <2> HIDE DEF new
  <2> QED
    BY <1>t, <1>n, <2>1, <2>2, <2>3, <2>4, TicketAnswered
<1> QED
  BY <1>1, <1>3, <1>4, <1>5, <1>6, <1>7, <1>8 DEF Tkt!Serve

\* An answer is heard: one that a tab no longer waits for changes nothing.
LEMMA TicketHeard ==
  ASSUME TicketInv, NEW c \in C, Tkt!Hear(c)
  PROVE  TicketInv'
<1>t. /\ v3 \in UserTabs /\ v4 \in StaffTabs /\ v5[c] \in TicketCalls /\ RequestFits(v5[c])
      /\ v5 \in [C -> TicketCalls] /\ DrawnExists /\ <<>> \in TicketLists /\ DOMAIN <<>> = {}
  BY TicketSorts DEF TicketInv, TicketTyped
<1>1. ASSUME NEW r \in TicketCalls, v5' = [v5 EXCEPT ![c] = r], r = Tkt!NoCall \/ (r.kind = "list" /\ r.data = <<>>),
             UNCHANGED <<v1, v2, v6>>, v3' \in UserTabs, v4' \in StaffTabs, DrawnExists',
             v3'.opening => v3.opening /\ ~(v5[c].kind = "get" /\ v5[c].heard), v3'.up => v3.up
      PROVE  TicketInv'
  <2>1. v5' \in [C -> TicketCalls] /\ v5'[c] = r /\ \A e \in C \ {c} : v5'[e] = v5[e]
    BY <1>1, <1>t
  <2>2. TicketTyped' /\ Tkt!All' = Tkt!All
    BY <1>1, <2>1 DEF TicketInv, TicketTyped, Tkt!All
  <2>3. RequestFits(v5[c])'
    BY <1>1, <2>1, TicketSorts DEF RequestFits
  <2>4. DetailAwaited' /\ Tkt!SaidWhereMeant'
    BY <1>1, <2>1 DEF TicketInv, DetailAwaited, Tkt!SaidWhereMeant
  <2> QED
    BY <1>1, <2>1, <2>2, <2>3, <2>4, TicketOne
<1>2. ASSUME Tkt!Answer(c), UNCHANGED <<v1, v2, v6>>, v3' \in UserTabs, v4' \in StaffTabs, DrawnExists',
             v3'.opening => v3.opening /\ ~(v5[c].kind = "get" /\ v5[c].heard), v3'.up => v3.up
      PROVE  TicketInv'
  BY <1>1, <1>2, TicketSorts DEF Tkt!Answer
<1>3. CASE Tkt!loadList(c)
  <2>1. /\ Tkt!Answer(c) /\ UNCHANGED <<v1, v2, v4, v6>> /\ v5[c].kind = "my"
        /\ v3' = IF v5[c].heard THEN [v3 EXCEPT !.list = Tkt!AfterList(v3.list, v5[c]), !.loading = FALSE] ELSE v3
    BY <1>3 DEF Tkt!loadList
  <2>2. /\ Tkt!AfterList(v3.list, v5[c]) \in TicketLists
        /\ DOMAIN Tkt!AfterList(v3.list, v5[c]) \subseteq Tkt!All
    BY <2>1, <1>t DEF Tkt!AfterList, RequestFits
  <2>3. v3' \in UserTabs /\ v3'.up = v3.up /\ v3'.opening = v3.opening /\ v3'.sel = v3.sel
        /\ DOMAIN v3'.list \subseteq Tkt!All
    BY <2>1, <2>2, <1>t DEF UserTabs, DrawnExists
  <2>4. DrawnExists'
    BY <2>1, <2>3, <1>t DEF DrawnExists, Tkt!All, Tkt!NoDetail
  <2> QED
    BY <1>2, <1>t, <2>1, <2>3, <2>4
<1>4. CASE Tkt!opened(c)
  <2>1. /\ Tkt!Answer(c) /\ UNCHANGED <<v1, v2, v4, v6>> /\ v5[c].kind = "get"
        /\ v3' = IF v5[c].heard THEN Tkt!AfterOpen(v3, v5[c]) ELSE v3
    BY <1>4 DEF Tkt!opened
  <2>2. CASE ~v5[c].heard
    <3>1. v3' = v3 /\ DrawnExists'
      BY <2>1, <2>2, <1>t DEF DrawnExists, Tkt!All, Tkt!NoDetail
    <3> QED
      BY <1>2, <1>t, <2>1, <2>2, <3>1
  <2>3. CASE v5[c].heard
    <3>1. v5[c].step = "ok" => v5[c].data \in Details /\ v5[c].data.id \in Tkt!All
      BY <2>1, <1>t DEF RequestFits
    <3>2. v3' \in UserTabs /\ v3'.up = v3.up /\ ~v3'.opening /\ v3'.list = v3.list
          /\ v3'.sel = IF v5[c].step = "ok" THEN v5[c].data ELSE v3.sel
      BY <2>1, <2>3, <3>1, <1>t DEF UserTabs, Tkt!AfterOpen
    <3>3. DrawnExists'
      BY <2>1, <3>1, <3>2, <1>t DEF DrawnExists, Tkt!All, Tkt!NoDetail
    <3> QED
      BY <1>2, <1>t, <2>1, <3>2, <3>3
  <2> QED
    BY <2>2, <2>3
<1>5. CASE Tkt!created(c)
  <2>1. /\ Tkt!Answer(c) /\ UNCHANGED <<v1, v2, v4, v6>> /\ v5[c].kind = "create"
        /\ \/ v3' = v3 \/ v3' = [v3 EXCEPT !.creating = FALSE]
           \/ /\ v5[c].step = "ok"
              /\ v3' = [v3 EXCEPT !.creating = FALSE, !.view = "list", !.list = Tkt!With(v3.list, v5[c].t, "open")]
    BY <1>5 DEF Tkt!created, Tkt!Ok
  <2> DEFINE new == Tkt!With(v3.list, v5[c].t, "open")
  <2>2. v5[c].step = "ok" => new \in TicketLists /\ DOMAIN new \subseteq Tkt!All
    <3> SUFFICES ASSUME v5[c].step = "ok" PROVE new \in TicketLists /\ DOMAIN new \subseteq Tkt!All
      OBVIOUS
    <3>1. v5[c].t \in Tkt!All /\ v3.list \in TicketLists /\ DOMAIN v3.list \subseteq Tkt!All /\ Tkt!All \subseteq X
      BY <2>1, <1>t, TicketSorts DEF RequestFits, DrawnExists, UserTabs
    <3> DEFINE S == DOMAIN v3.list \cup {v5[c].t}
    <3>2. \A u \in DOMAIN v3.list : v3.list[u] \in Status \cup {"none"}
      BY <3>1 DEF TicketLists
    <3>3. new = [u \in S |-> IF u = v5[c].t THEN "open" ELSE v3.list[u]] /\ S \in SUBSET X /\ S \subseteq Tkt!All
      BY <3>1 DEF Tkt!With
    <3>4. new \in [S -> Status \cup {"none"}]
      BY <3>2, <3>3 DEF Status
    <3> QED
      BY <3>3, <3>4 DEF TicketLists
  <2> HIDE DEF new
  <2>3. v3' \in UserTabs /\ v3'.up = v3.up /\ v3'.opening = v3.opening /\ v3'.sel = v3.sel
        /\ DOMAIN v3'.list \subseteq Tkt!All
    BY <2>1, <2>2, <1>t DEF UserTabs, DrawnExists, new
  <2>4. DrawnExists'
    BY <2>1, <2>3, <1>t DEF DrawnExists, Tkt!All, Tkt!NoDetail
  <2> QED
    BY <1>2, <1>t, <2>1, <2>3, <2>4
<1>6. CASE Tkt!sent(c)
  <2>1. /\ Tkt!Answer(c) /\ UNCHANGED <<v1, v2, v4, v6>> /\ v5[c].kind = "say"
        /\ \/ v3' = v3 \/ v3' = [v3 EXCEPT !.sending = FALSE]
           \/ /\ v3.sel # Tkt!NoDetail
              /\ v3' = [v3 EXCEPT !.sending = FALSE, !.sel = [v3.sel EXCEPT !.texts = @ \cup {v5[c].x}]]
    BY <1>6, <1>t DEF Tkt!sent, Tkt!Ok, UserTabs
  <2>2. v5[c].x = "text"
    BY <2>1, <1>t DEF RequestFits
  <2> DEFINE new == [v3.sel EXCEPT !.texts = @ \cup {v5[c].x}]
  <2>3. new \in Details /\ new.id = v3.sel.id
    BY <2>2, <1>t DEF UserTabs, Details
  <2> HIDE DEF new
  <2>4. v3' \in UserTabs /\ v3'.up = v3.up /\ v3'.opening = v3.opening /\ v3'.list = v3.list
        /\ (v3'.sel = v3.sel \/ (v3.sel # Tkt!NoDetail /\ v3'.sel.id = v3.sel.id))
    BY <2>1, <2>3, <1>t DEF UserTabs, new
  <2>5. DrawnExists'
    BY <2>1, <2>4, <1>t DEF DrawnExists, Tkt!All, Tkt!NoDetail
  <2> QED
    BY <1>2, <1>t, <2>1, <2>4, <2>5
<1>7. CASE Tkt!loaded(c)
  <2>1. /\ Tkt!Answer(c) /\ UNCHANGED <<v1, v2, v3, v6>> /\ v5[c].kind = "list"
    BY <1>7 DEF Tkt!loaded
  <2>2. v5[c].data \in TicketLists /\ DOMAIN v5[c].data \subseteq Tkt!All
    BY <2>1, <1>t DEF RequestFits
  <2>3. v4' \in StaffTabs /\ v4'.items \in {v4.items, v5[c].data}
    BY <1>7, <2>2, <1>t DEF Tkt!loaded, Tkt!Ok, StaffTabs
  <2>4. DrawnExists'
    BY <2>1, <2>2, <2>3, <1>t DEF DrawnExists, Tkt!All, Tkt!NoDetail
  <2> QED
    BY <1>2, <1>t, <2>1, <2>3, <2>4
<1>8. CASE Tkt!statusChanged(c)
  <2>1. /\ UNCHANGED <<v1, v2, v3, v6>> /\ v5[c].kind = "set" /\ v5' = [v5 EXCEPT ![c] = Tkt!ThenLoad(v5[c])]
    BY <1>8 DEF Tkt!statusChanged
  <2>2. v4' \in StaffTabs /\ v4'.items = v4.items
    BY <1>8, <1>t DEF Tkt!statusChanged, Tkt!Ok, StaffTabs
  <2>3. DrawnExists'
    BY <2>1, <2>2, <1>t DEF DrawnExists, Tkt!All, Tkt!NoDetail
  <2>4. PICK f \in Status \cup {"all"} : f = v5[c].x
    BY <2>1, <1>t DEF RequestFits
  <2> DEFINE q == Tkt!Req("list", "none", "none", f)
             r == [q EXCEPT !.step = "sent", !.heard = v5[c].heard]
  <2>5. q \in TicketCalls /\ q.kind = "list" /\ q.data = <<>>
    BY RequestMade
  <2>6. Tkt!ThenLoad(v5[c]) = r \/ Tkt!ThenLoad(v5[c]) = Tkt!NoCall
    BY <2>4 DEF Tkt!ThenLoad
  <2> HIDE DEF q
  <2>7. r \in TicketCalls /\ r.kind = "list" /\ r.data = <<>>
    BY <2>5, <1>t DEF TicketCalls
  <2>8. PICK a \in TicketCalls : a = Tkt!ThenLoad(v5[c]) /\ (a = Tkt!NoCall \/ (a.kind = "list" /\ a.data = <<>>))
    BY <2>6, <2>7, TicketSorts
  <2> QED
    BY <1>1, <1>t, <2>1, <2>2, <2>3, <2>8
<1> QED
  BY <1>3, <1>4, <1>5, <1>6, <1>7, <1>8 DEF Tkt!Hear

LEMMA DeafCalls ==
  ASSUME TicketInv, NEW kinds
  PROVE  /\ Tkt!Deaf(kinds) \in [C -> TicketCalls]
         /\ \A c \in C : RequestFits(v5[c]) => RequestFits(Tkt!Deaf(kinds)[c])
         /\ \A c \in C : v5[c].kind \notin kinds => Tkt!Deaf(kinds)[c] = v5[c]
<1>1. \A c \in C : v5[c] \in TicketCalls
  BY DEF TicketInv, TicketTyped
<1>2. ASSUME NEW r \in TicketCalls
      PROVE  /\ [r EXCEPT !.heard = FALSE] \in TicketCalls
             /\ RequestFits(r) => RequestFits([r EXCEPT !.heard = FALSE])
  <2>1. PICK q \in TicketCalls : q = [r EXCEPT !.heard = FALSE]
    BY DEF TicketCalls
  <2>2. q.kind = r.kind /\ q.step = r.step /\ q.t = r.t /\ q.x = r.x /\ q.st = r.st /\ q.data = r.data
    BY <2>1 DEF TicketCalls
  <2>3. RequestFits(r) => RequestFits(q)
    BY <2>2 DEF RequestFits
  <2> QED
    BY <2>1, <2>3
<1> QED
  BY <1>1, <1>2 DEF Tkt!Deaf

LEMMA TicketNext ==
  ASSUME NamesApart
  PROVE  TicketInv /\ Tkt!Next => TicketInv'
<1> SUFFICES ASSUME TicketInv, Tkt!Next PROVE TicketInv'
  OBVIOUS
<1>t. /\ v3 \in UserTabs /\ v4 \in StaffTabs /\ v5 \in [C -> TicketCalls]
      /\ \A c \in C : RequestFits(v5[c])
  BY DEF TicketInv, TicketTyped
<1>1. ASSUME UNCHANGED <<v1, v2, v6>>, v3' \in UserTabs, v4' \in StaffTabs, v5' \in [C -> TicketCalls],
             \A c \in C : RequestFits(v5'[c]), v3'.list = v3.list, v4'.items = v4.items,
             v3'.sel = v3.sel \/ v3'.sel = Tkt!NoDetail,
             ~v3'.up \/ (v3'.up = v3.up /\ (v3'.opening => v3.opening)
                         /\ \A c \in C : v5[c].kind = "get" => v5'[c] = v5[c])
      PROVE  TicketInv'
  <2>1. TicketTyped' /\ Tkt!All' = Tkt!All
    BY <1>1 DEF TicketInv, TicketTyped, Tkt!All
  <2>2. \A c \in C : RequestFits(v5[c])'
    BY <1>1, <2>1 DEF RequestFits
  <2>3. DrawnExists' /\ DetailAwaited' /\ Tkt!SaidWhereMeant'
    BY <1>1, <2>1 DEF TicketInv, DrawnExists, DetailAwaited, Tkt!SaidWhereMeant, Tkt!NoDetail
  <2> QED
    BY <2>1, <2>2, <2>3 DEF TicketInv
<1>2. CASE Tkt!Leave
  <2>1. v3' \in UserTabs /\ ~v3'.up /\ v3'.list = v3.list /\ v3'.sel = v3.sel
    BY <1>2, <1>t DEF Tkt!Leave, UserTabs
  <2>2. v5' \in [C -> TicketCalls] /\ \A c \in C : RequestFits(v5'[c])
    BY <1>2, <1>t, DeafCalls DEF Tkt!Leave
  <2> QED
    BY <1>1, <1>2, <1>t, <2>1, <2>2 DEF Tkt!Leave
<1>3. CASE Tkt!Close
  <2>1. v4' \in StaffTabs /\ v4'.items = v4.items
    BY <1>3, <1>t DEF Tkt!Close, StaffTabs
  <2>2. /\ v5' \in [C -> TicketCalls] /\ \A c \in C : RequestFits(v5'[c])
        /\ \A c \in C : v5[c].kind = "get" => v5'[c] = v5[c]
    BY <1>3, <1>t, DeafCalls DEF Tkt!Close
  <2> QED
    BY <1>1, <1>3, <1>t, <2>1, <2>2 DEF Tkt!Close
<1>4. CASE Tkt!toList \/ Tkt!toCreate
  <2>1. /\ UNCHANGED <<v1, v2, v4, v5, v6>>
        /\ \/ v3' = [v3 EXCEPT !.view = "list", !.sel = IF Tkt!Drawn THEN Tkt!NoDetail ELSE @]
           \/ v3' = [v3 EXCEPT !.view = "create"]
    BY <1>4 DEF Tkt!toList, Tkt!toCreate
  <2>2. /\ v3' \in UserTabs /\ v3'.up = v3.up /\ v3'.opening = v3.opening /\ v3'.list = v3.list
        /\ v3'.sel = v3.sel \/ v3'.sel = Tkt!NoDetail
    BY <2>1, <1>t, TicketSorts DEF UserTabs
  <2> QED
    BY <1>1, <1>t, <2>1, <2>2
<1>5. ASSUME NEW t \in X, Tkt!StaffSays(t, "text") PROVE TicketInv'
  <2>1. /\ v6["text"] = "none" /\ v2' = [v2 EXCEPT ![t] = @ \cup {"text"}] /\ v6' = [v6 EXCEPT !["text"] = t]
        /\ UNCHANGED <<v1, v3, v4, v5>>
    BY <1>5 DEF Tkt!StaffSays
  <2>2. TicketTyped' /\ Tkt!All' = Tkt!All
    BY <2>1 DEF TicketInv, TicketTyped, Tkt!All
  <2>3. \A c \in C : RequestFits(v5[c])'
    BY <1>t, <2>1, <2>2 DEF RequestFits, NamesApart
  <2>4. DrawnExists' /\ DetailAwaited'
    BY <2>1, <2>2 DEF TicketInv, DrawnExists, DetailAwaited, Tkt!NoDetail
  <2>5. Tkt!SaidWhereMeant'
    BY <2>1 DEF TicketInv, TicketTyped, Tkt!SaidWhereMeant, NamesApart
  <2> QED
    BY <2>2, <2>3, <2>4, <2>5 DEF TicketInv
<1> QED
  BY <1>2, <1>3, <1>4, <1>5, TicketServed, TicketHeard, UserActs, StaffActs DEF Tkt!Next

LEMMA TicketSays == TicketInv => Tkt!TypeOK /\ Tkt!SaidWhereMeant
<1> SUFFICES ASSUME TicketInv PROVE Tkt!TypeOK
  BY DEF TicketInv
<1> QED
  BY DEF TicketInv, TicketTyped, DrawnExists, DetailAwaited, Tkt!TypeOK, UserTabs, StaffTabs, Details, Tkt!NoDetail, Status

LEMMA TicketStill == TicketInv /\ UNCHANGED <<v1, v2, v3, v4, v5, v6>> => TicketInv'
<1> SUFFICES ASSUME TicketInv, UNCHANGED <<v1, v2, v3, v4, v5, v6>> PROVE TicketInv'
  OBVIOUS
<1>1. TicketTyped' /\ Tkt!All' = Tkt!All
  BY DEF TicketInv, TicketTyped, Tkt!All
<1> QED
  BY <1>1 DEF TicketInv, RequestFits, DrawnExists, DetailAwaited, Tkt!SaidWhereMeant, Tkt!NoDetail

-----------------------------------------------------------------------------
(* Account: v1 the tokens stored, v2 those issued, v3 those refused, v4 the tab, v5 the requests, *)
(* v8 whether the tab's two users may differ.                                                    *)
Acc == INSTANCE Account WITH
  Users <- X, Tabs <- {"t"}, Calls <- C, MaxTokens <- 2, NetFails <- TRUE,
  Acts <- Acts.account,
  token <- v1, issued <- v2, revoked <- v3, tab <- v4, call <- v5, saved <- v6, asked <- v7,
  apart <- v8

Views == [user : X \cup {"none"}, loading : BOOLEAN]
Tabs == [on : {"home", "profile"}, header : Views, page : Views]
AccTokens == Acc!Pairs \cup {Acc!NoToken}
AccCalls == [kind : {"idle", "me", "register", "login", "loginMe", "logout", "save", "password"},
             t : {"t", "none"}, where : Acc!Wheres \cup {"none"}, u : X \cup {"none"},
             tok : AccTokens, step : {"idle", "sent", "ok", "refused"},
             live : BOOLEAN, heard : BOOLEAN]

CallFits(r) ==
  /\ r \in AccCalls /\ r.tok \in v2 \cup {Acc!NoToken}
  /\ r.kind # "idle" => r.t = "t" /\ r.where \in Acc!Wheres
  /\ r.kind = "idle" => ~r.live
  /\ r.kind \in {"register", "login", "loginMe"} => r.u \in X

\* A question who is signed in that a useAuth waits for, and a form that is on its way.
Waits(c, w) == v5[c].kind = "me" /\ v5[c].where = w /\ v5[c].live /\ v5[c].heard
Signs(c) == v5[c].kind \in {"register", "login", "loginMe"} /\ v5[c].live

AccTyped ==
  /\ v1 \in v2 \cup {Acc!NoToken} /\ v2 \subseteq Acc!Pairs /\ IsFiniteSet(v2) /\ v3 \subseteq v2
  /\ v4 \in [{"t"} -> Tabs] /\ v5 \in [C -> AccCalls] /\ \A c \in C : CallFits(v5[c])
  /\ v4["t"].on = "home" => v4["t"].page = Acc!NoView /\ \A c \in C : ~Waits(c, "page")
  /\ v7 \subseteq {"t"} /\ v8 \subseteq {"t"}

\* What a useAuth shows is of the token stored, or its only question is.
OfToken(view, w) ==
  /\ view.loading => v1 # Acc!NoToken
  /\ ~view.loading => view.user = v1.u
  /\ \A c \in C : Waits(c, w) => v5[c].tok = v1 /\ view.loading
  /\ \A c, d \in C : Waits(c, w) /\ Waits(d, w) => c = d

\* The tab shows the user of the token stored, or nobody and waits for nothing: a login
\* in progress has stored its token already, and ends with a load.
Settled ==
  /\ OfToken(v4["t"].header, "header")
  /\ v4["t"].on = "profile" => OfToken(v4["t"].page, "page")
  /\ \A c \in C : Signs(c) => v1 = Acc!NoToken
ShowsNobody ==
  /\ v4["t"].header = Acc!NoView /\ v4["t"].page = Acc!NoView
  /\ \A c \in C, w \in Acc!Wheres : ~Waits(c, w)

AccInv == AccTyped /\ (v8 = {} => Settled \/ ShowsNobody)

LEMMA AccSorts ==
  ASSUME NamesApart
  PROVE  /\ Acc!NoView \in Views /\ Acc!NoCall \in AccCalls /\ Acc!NoToken \in AccTokens
         /\ Acc!NoView.user = "none" /\ Acc!NoView.loading = FALSE /\ Acc!NoToken.u = "none"
         /\ Acc!NoCall.kind = "idle" /\ ~Acc!NoCall.live /\ Acc!NoCall.tok = Acc!NoToken
         /\ Acc!Wheres = {"header", "page"} /\ Acc!None = "none"
         /\ \A k \in Acc!Pairs : k.u \in X /\ k # Acc!NoToken /\ k.u # "none"
BY DEF Acc!NoView, Views, Acc!NoCall, AccCalls, Acc!NoToken, AccTokens, Acc!None, Acc!Wheres, Acc!Pairs, NamesApart

LEMMA AccInit ==
  ASSUME NamesApart
  PROVE  Acc!Init => AccInv
<1> SUFFICES ASSUME Acc!Init PROVE AccInv
  OBVIOUS
<1>1. AccTyped
  BY AccSorts, FS_EmptySet DEF Acc!Init, AccTyped, Tabs, CallFits, Waits
<1>2. Settled
  <2>1. v4["t"].header = Acc!NoView /\ v4["t"].on = "home" /\ v1 = Acc!NoToken /\ \A c \in C : v5[c] = Acc!NoCall
    BY DEF Acc!Init
  <2> QED
    BY <2>1, AccSorts DEF Settled, OfToken, Waits, Signs
<1> QED
  BY <1>1, <1>2 DEF AccInv

LEMMA AccView ==
  ASSUME NamesApart, AccInv
  PROVE  /\ Acc!View \in Views /\ (Acc!View.loading <=> v1 # Acc!NoToken) /\ Acc!View.user = "none"
         /\ v1.u = "none" <=> v1 = Acc!NoToken
BY AccSorts DEF Acc!View, Views, AccInv, AccTyped

\* Requests as request() makes them.
LEMMA AccRequest ==
  ASSUME NamesApart, AccInv, NEW kind \in {"me", "register", "login", "logout", "save", "password"},
         NEW w \in Acc!Wheres, NEW u \in X \cup {"none"}
  PROVE  LET r == Acc!Request(kind, "t", w, u)
         IN /\ r \in AccCalls /\ r.kind = kind /\ r.t = "t" /\ r.where = w /\ r.u = u /\ r.tok = v1
            /\ r.step = "sent" /\ r.live /\ r.heard
            /\ (kind \in {"register", "login"} => u \in X) => CallFits(r)
BY AccSorts DEF AccInv, AccTyped, Acc!Request, AccCalls, AccTokens, CallFits

\* A step that changes neither the tokens nor the tab, and has nobody wait who did not.
LEMMA AccQuiet ==
  ASSUME NamesApart, AccInv, UNCHANGED <<v1, v2, v4>>, v3' \subseteq v2, v7' \subseteq {"t"}, v8' \subseteq {"t"},
         v8 \subseteq v8', v5' \in [C -> AccCalls], \A c \in C : CallFits(v5'[c]),
         \A c \in C, w \in Acc!Wheres : Waits(c, w)' => Waits(c, w) /\ v5'[c].tok = v5[c].tok,
         \A c \in C : Signs(c)' => Signs(c)
  PROVE  AccInv'
<1>1. AccTyped'
  <2>1. \A c \in C : Waits(c, "page")' => Waits(c, "page")
    BY AccSorts
  <2> QED
    BY <2>1 DEF AccInv, AccTyped, CallFits
<1>2. ASSUME v8 = {}, ShowsNobody PROVE ShowsNobody'
  BY <1>2 DEF ShowsNobody
<1>3. ASSUME v8 = {}, Settled PROVE Settled'
  <2>1. \A view \in Views, w \in Acc!Wheres : OfToken(view, w) => OfToken(view, w)'
    BY AccSorts DEF OfToken
  <2>2. v4["t"].header \in Views /\ v4["t"].page \in Views /\ {"header", "page"} = Acc!Wheres
    BY AccSorts DEF AccInv, AccTyped, Tabs
  <2>3. OfToken(v4["t"].header, "header")'
    BY <1>3, <2>1, <2>2 DEF Settled, OfToken
  <2>4. v4["t"].on = "profile" => OfToken(v4["t"].page, "page")'
    BY <1>3, <2>1, <2>2 DEF Settled, OfToken
  <2> QED
    BY <1>3, <2>2, <2>3, <2>4 DEF Settled
<1> QED
  BY <1>1, <1>2, <1>3 DEF AccInv

\* A request that nobody waits for any more, or that nobody hears, is as it was otherwise.
LEMMA AccMuted ==
  ASSUME NEW r \in AccCalls, CallFits(r)
  PROVE  /\ CallFits([r EXCEPT !.live = FALSE]) /\ [r EXCEPT !.live = FALSE] \in AccCalls
         /\ ~[r EXCEPT !.live = FALSE].live
         /\ CallFits([r EXCEPT !.heard = FALSE]) /\ [r EXCEPT !.heard = FALSE] \in AccCalls
         /\ ~[r EXCEPT !.heard = FALSE].heard
<1>1. ASSUME NEW q \in AccCalls, q.kind = r.kind, q.t = r.t, q.where = r.where, q.u = r.u, q.tok = r.tok,
             q.live => r.live
      PROVE  CallFits(q)
  BY <1>1 DEF CallFits
<1>2. PICK q \in AccCalls : q = [r EXCEPT !.live = FALSE]
  BY DEF AccCalls
<1>3. q.kind = r.kind /\ q.t = r.t /\ q.where = r.where /\ q.u = r.u /\ q.tok = r.tok /\ q.live = FALSE
  BY <1>2 DEF AccCalls
<1>4. PICK p \in AccCalls : p = [r EXCEPT !.heard = FALSE]
  BY DEF AccCalls
<1>5. /\ p.kind = r.kind /\ p.t = r.t /\ p.where = r.where /\ p.u = r.u /\ p.tok = r.tok
      /\ p.heard = FALSE /\ p.live = r.live
  BY <1>4 DEF AccCalls
<1>6. CallFits(q) /\ CallFits(p)
  BY <1>1, <1>3, <1>5
<1> QED
  BY <1>2, <1>3, <1>4, <1>5, <1>6

LEMMA AccLoads ==
  ASSUME NamesApart, AccInv, NEW on \in {"home", "profile"}, Acc!Load("t", on), UNCHANGED <<v1, v2, v3>>
  PROVE  AccInv'
<1> DEFINE F == Acc!Forget("t")
           view == Acc!View
           page == IF on = "profile" THEN view ELSE Acc!NoView
<1>t. /\ v4 \in [{"t"} -> Tabs] /\ v5 \in [C -> AccCalls] /\ \A c \in C : CallFits(v5[c])
      /\ view \in Views /\ page \in Views /\ (view.loading <=> v1 # Acc!NoToken) /\ view.user = "none"
      /\ v1 = Acc!NoToken => view.user = v1.u
  BY AccSorts, AccView DEF AccInv, AccTyped
<1>1. \A c \in C : CallFits(F[c]) /\ ~F[c].live
  <2>1. SUFFICES ASSUME NEW c \in C PROVE CallFits(F[c]) /\ ~F[c].live
    OBVIOUS
  <2>2. F[c] = IF v5[c].t # "t" THEN v5[c] ELSE IF v5[c].step = "sent" THEN [v5[c] EXCEPT !.live = FALSE] ELSE Acc!NoCall
    BY DEF Acc!Forget
  <2>3. CASE v5[c].t # "t"
    BY <2>2, <2>3, <1>t DEF CallFits
  <2>4. CASE F[c] = [v5[c] EXCEPT !.live = FALSE]
    BY <2>4, <1>t, AccMuted
  <2>5. CASE F[c] = Acc!NoCall
    BY <2>5, AccSorts DEF CallFits
  <2> QED
    BY <2>2, <2>3, <2>4, <2>5
<1>2. F \in [C -> AccCalls]
  <2>1. \A c \in C : F[c] \in AccCalls
    BY <1>1 DEF CallFits
  <2>2. \A c \in C : (IF v5[c].t # "t" THEN v5[c] ELSE IF v5[c].step = "sent" THEN [v5[c] EXCEPT !.live = FALSE]
                     ELSE Acc!NoCall) \in AccCalls
    BY <2>1 DEF Acc!Forget
  <2> QED
    BY <2>2 DEF Acc!Forget
<1>3. /\ v4' = [v4 EXCEPT !["t"] = [on |-> on, header |-> view, page |-> page]]
      /\ v7' \subseteq v7 /\ v8' = v8 \ {"t"}
  BY DEF Acc!Load
<1>4. /\ v5' \in [C -> AccCalls] /\ \A c \in C : CallFits(v5'[c])
      /\ \A c \in C : v5'[c].live => /\ v1 # Acc!NoToken /\ v5'[c].kind = "me" /\ v5'[c].tok = v1
                                     /\ on = "home" => v5'[c].where # "page"
      /\ \A c, d \in C : v5'[c].live /\ v5'[d].live /\ v5'[c].where = v5'[d].where => c = d
  <2>1. CASE v1 = Acc!NoToken
    <3>1. v5' = F
      BY <2>1 DEF Acc!Load
    <3> QED
      BY <3>1, <1>1, <1>2
  <2>2. CASE v1 # Acc!NoToken
    <3> DEFINE rh == Acc!Request("me", "t", "header", "none")
               rp(h, p) == Acc!Request("me", "t", IF h = p THEN "header" ELSE "page", "none")
    <3>1. PICK h \in C, p \in C :
            /\ (h # p) = (on = "profile") /\ v5' = [F EXCEPT ![h] = rh, ![p] = rp(h, p)]
      BY <2>2, AccSorts DEF Acc!Load
    <3>2. /\ rh \in AccCalls /\ rh.kind = "me" /\ rh.where = "header" /\ rh.tok = v1 /\ CallFits(rh)
          /\ rp(h, p) \in AccCalls /\ rp(h, p).kind = "me"
          /\ rp(h, p).where = (IF h = p THEN "header" ELSE "page") /\ rp(h, p).tok = v1 /\ CallFits(rp(h, p))
      <4>1. "header" \in Acc!Wheres /\ "page" \in Acc!Wheres /\ "none" \in X \cup {"none"}
        BY AccSorts
      <4>2. rh \in AccCalls /\ rh.kind = "me" /\ rh.where = "header" /\ rh.tok = v1 /\ CallFits(rh)
        BY <4>1, AccRequest
      <4>3. CASE h = p
        BY <4>1, <4>2, <4>3
      <4>4. CASE h # p
        BY <4>1, <4>4, AccRequest
      <4> QED
        BY <4>2, <4>3, <4>4
    <3> HIDE DEF rh, rp
    <3>3. /\ v5' \in [C -> AccCalls] /\ v5'[p] = rp(h, p) /\ (h # p => v5'[h] = rh)
          /\ \A c \in C \ {h, p} : v5'[c] = F[c]
      BY <3>1, <3>2, <1>2
    <3>4. h # p <=> on = "profile"
      BY <3>1
    <3> QED
      BY <2>2, <3>2, <3>3, <3>4, <1>1
  <2> QED
    BY <2>1, <2>2
<1>5. \A c \in C : CallFits(v5'[c]) => CallFits(v5[c])'
  BY DEF CallFits
<1> HIDE DEF F, view
<1>6. v4'["t"] = [on |-> on, header |-> view, page |-> page] /\ v4' \in [{"t"} -> Tabs]
      /\ v4'["t"].on = on /\ v4'["t"].header = view /\ v4'["t"].page = page
  <2> DEFINE new == [on |-> on, header |-> view, page |-> page]
  <2>1. new \in Tabs /\ new.on = on /\ new.header = view /\ new.page = page
    BY <1>t DEF Tabs
  <2> HIDE DEF new
  <2>2. v4' = [v4 EXCEPT !["t"] = new]
    BY <1>3 DEF new
  <2> QED
    BY <1>t, <2>1, <2>2 DEF new
<1>7. AccTyped'
  <2>1. on = "home" => \A c \in C : ~Waits(c, "page")'
    BY <1>4 DEF Waits
  <2> QED
    BY <2>1, <1>3, <1>4, <1>5, <1>6 DEF AccInv, AccTyped
<1>8. Settled'
  <2>1. \A c \in C, w \in {"header", "page"} :
          Waits(c, w)' => v5'[c].tok = v1 /\ v1 # Acc!NoToken /\ (on = "home" => w # "page")
    BY <1>4 DEF Waits
  <2>2. \A c, d \in C, w \in {"header", "page"} : Waits(c, w)' /\ Waits(d, w)' => c = d
    BY <1>4 DEF Waits
  <2>3. OfToken(v4["t"].header, "header")'
    BY <1>t, <1>6, <2>1, <2>2 DEF OfToken
  <2>4. on = "profile" => OfToken(v4["t"].page, "page")'
    BY <1>t, <1>6, <2>1, <2>2 DEF OfToken
  <2>5. \A c \in C : ~Signs(c)'
    BY <1>4 DEF Signs
  <2> QED
    BY <1>6, <2>1, <2>3, <2>4, <2>5 DEF Settled
<1> QED
  BY <1>7, <1>8 DEF AccInv

\* One request changes, and waits for nothing it did not wait for.
LEMMA AccOne ==
  ASSUME NamesApart, AccInv, UNCHANGED <<v1, v2, v4>>, v3' \subseteq v2, v7' \subseteq {"t"}, v8' \subseteq {"t"}, v8 \subseteq v8',
         NEW c \in C, NEW r, CallFits(r), v5' = [v5 EXCEPT ![c] = r],
         r.kind = "me" /\ r.live /\ r.heard =>
           v5[c].kind = "me" /\ v5[c].live /\ v5[c].heard /\ r.where = v5[c].where /\ r.tok = v5[c].tok,
         r.kind \in {"register", "login", "loginMe"} /\ r.live => Signs(c)
  PROVE  AccInv'
<1>1. /\ v5 \in [C -> AccCalls] /\ r \in AccCalls /\ v5' \in [C -> AccCalls]
      /\ v5'[c] = r /\ \A d \in C \ {c} : v5'[d] = v5[d]
  BY DEF AccInv, AccTyped, CallFits
<1>2. \A d \in C : CallFits(v5'[d])
  BY <1>1 DEF AccInv, AccTyped
<1>3. \A d \in C, w \in Acc!Wheres : Waits(d, w)' => Waits(d, w) /\ v5'[d].tok = v5[d].tok
  BY <1>1 DEF Waits
<1>4. \A d \in C : Signs(d)' => Signs(d)
  BY <1>1 DEF Signs
<1> QED
  BY <1>1, <1>2, <1>3, <1>4, AccQuiet

LEMMA AccNone ==
  ASSUME NamesApart, AccInv, UNCHANGED <<v1, v2, v4>>, v3' \subseteq v2, v7' \subseteq {"t"}, v8' \subseteq {"t"}, v8 \subseteq v8',
         NEW c \in C, v5' = [v5 EXCEPT ![c] = Acc!NoCall]
  PROVE  AccInv'
<1>1. CallFits(Acc!NoCall)
  BY AccSorts DEF CallFits
<1> QED
  BY <1>1, AccOne, AccSorts

LEMMA AccAnswer ==
  ASSUME NamesApart, AccInv, UNCHANGED <<v1, v2, v4, v7, v8>>, v3' \subseteq v2,
         NEW c \in C, NEW step \in {"ok", "refused"}, Acc!Answer(c, step)
  PROVE  AccInv'
<1> DEFINE r == [v5[c] EXCEPT !.step = step]
<1>t. v5[c] \in AccCalls /\ CallFits(v5[c]) /\ v7 \subseteq {"t"} /\ v8 \subseteq {"t"}
  BY DEF AccInv, AccTyped
<1>1. /\ CallFits(r) /\ r.kind = v5[c].kind /\ r.where = v5[c].where /\ r.tok = v5[c].tok
      /\ r.live = v5[c].live /\ r.heard = v5[c].heard
  BY <1>t DEF CallFits, AccCalls
<1>2. v5' = [v5 EXCEPT ![c] = r] \/ v5' = [v5 EXCEPT ![c] = Acc!NoCall]
  BY DEF Acc!Answer
<1> HIDE DEF r
<1>3. CASE v5' = [v5 EXCEPT ![c] = r]
  BY <1>t, <1>1, <1>3, AccOne DEF Signs
<1> QED
  BY <1>t, <1>2, <1>3, AccNone

LEMMA AccServed ==
  ASSUME NamesApart, AccInv, NEW c \in C, Acc!ServeForm(c) \/ Acc!ServeSigned(c) \/ Acc!Lost(c)
  PROVE  AccInv'
<1>t. v3 \subseteq v2 /\ CallFits(v5[c])
  BY DEF AccInv, AccTyped
<1>1. CASE Acc!ServeForm(c)
  BY <1>1, <1>t, AccAnswer DEF Acc!ServeForm
<1>2. CASE Acc!ServeSigned(c)
  <2>1. UNCHANGED <<v1, v2, v4, v7, v8>> /\ \E step \in {"ok", "refused"} : Acc!Answer(c, step)
    BY <1>2 DEF Acc!ServeSigned
  <2>2. v3' \subseteq v2
    <3>1. Acc!Admitted(v5[c].tok) => v5[c].tok \in v2
      BY <1>t DEF CallFits, Acc!Admitted
    <3>2. v3' \subseteq v3 \cup v2
      BY <1>2, <3>1 DEF Acc!ServeSigned
    <3> QED
      BY <3>2, <1>t
  <2> QED
    BY <2>1, <2>2, AccAnswer
<1>3. CASE Acc!Lost(c)
  BY <1>3, <1>t, AccAnswer DEF Acc!Lost
<1> QED
  BY <1>1, <1>2, <1>3

LEMMA AccEnds ==
  ASSUME NamesApart, AccInv, NEW c \in C,
         Acc!Registered(c) \/ Acc!FormFailed(c) \/ Acc!Saved(c) \/ Acc!PasswordChanged(c) \/ Acc!LoginDone(c)
  PROVE  AccInv'
<1>t. /\ v3 \subseteq v2 /\ CallFits(v5[c]) /\ v7 \subseteq {"t"} /\ v8 \subseteq {"t"} /\ v5[c] \in AccCalls
      /\ v4["t"].on \in {"home", "profile"} /\ v5 \in [C -> AccCalls]
      /\ v5[c].kind # "idle" => v5[c].t = "t"
  BY DEF AccInv, AccTyped, Tabs, CallFits
<1>1. CASE Acc!Registered(c)
  <2> DEFINE r == [v5[c] EXCEPT !.kind = "login", !.step = "sent"]
  <2>1. v5' = [v5 EXCEPT ![c] = r] /\ UNCHANGED <<v1, v2, v3, v4, v7, v8>> /\ v5[c].kind = "register" /\ v5[c].live
    BY <1>1, <1>t DEF Acc!Registered
  <2>2. CallFits(r) /\ r.kind = "login" /\ Signs(c)
    BY <1>t, <2>1 DEF CallFits, AccCalls, Signs
  <2> HIDE DEF r
  <2> QED
    BY <1>t, <2>1, <2>2, AccOne
<1>2. CASE Acc!FormFailed(c)
  <2>1. v5' = [v5 EXCEPT ![c] = Acc!NoCall] /\ UNCHANGED <<v1, v2, v3, v4, v7>>
        /\ v8 \subseteq v8' /\ v8' \subseteq v8 \cup {v5[c].t} /\ v5[c].kind # "idle"
    BY <1>2 DEF Acc!FormFailed
  <2> QED
    BY <1>t, <2>1, AccNone
<1>3. CASE Acc!PasswordChanged(c)
  <2>1. v5' = [v5 EXCEPT ![c] = Acc!NoCall] /\ UNCHANGED <<v1, v2, v3, v4, v8>>
        /\ v7' \subseteq v7 \cup {v5[c].t} /\ v5[c].kind # "idle"
    BY <1>3 DEF Acc!PasswordChanged
  <2> QED
    BY <1>t, <2>1, AccNone
<1>4. CASE Acc!Saved(c)
  <2>1. UNCHANGED <<v1, v2, v3>> /\ v5[c].t = "t"
    BY <1>t, <1>4 DEF Acc!Saved
  <2>2. CASE Acc!Load(v5[c].t, v4[v5[c].t].on)
    BY <1>t, <2>1, <2>2, AccLoads
  <2>3. CASE v5' = [v5 EXCEPT ![c] = Acc!NoCall] /\ UNCHANGED <<v4, v7, v8>>
    BY <1>t, <2>1, <2>3, AccNone
  <2> QED
    BY <1>4, <2>2, <2>3 DEF Acc!Saved
<1>5. CASE Acc!LoginDone(c)
  <2>1. UNCHANGED <<v1, v2, v3>> /\ v5[c].t = "t" /\ Acc!Load(v5[c].t, v4[v5[c].t].on)
    BY <1>t, <1>5 DEF Acc!LoginDone, Acc!AfterLogin
  <2> QED
    BY <1>t, <2>1, AccLoads
<1> QED
  BY <1>1, <1>2, <1>3, <1>4, <1>5

\* The tokens are stored by the form of a tab that shows nobody.
LEMMA AccSigned ==
  ASSUME NamesApart, AccInv, NEW c \in C, Acc!LoggedIn(c)
  PROVE  AccInv'
<1> DEFINE new == [u |-> v5[c].u, n |-> Acc!Cardinality(v2)]
           r == [v5[c] EXCEPT !.kind = "loginMe", !.tok = new, !.step = "sent"]
<1>t. /\ v3 \subseteq v2 /\ CallFits(v5[c]) /\ v7 \subseteq {"t"} /\ v8 \subseteq {"t"} /\ v5[c] \in AccCalls
      /\ v5 \in [C -> AccCalls] /\ IsFiniteSet(v2) /\ v2 \subseteq Acc!Pairs
      /\ \A d \in C : CallFits(v5[d])
  BY DEF AccInv, AccTyped
<1>1. /\ v5[c].kind = "login" /\ v5[c].live /\ Acc!Cardinality(v2) < 2
      /\ v2' = v2 \cup {new} /\ v1' = new /\ UNCHANGED <<v3, v4, v7>>
      /\ v5' = [v5 EXCEPT ![c] = r]
      /\ v8' = v8 \cup ({"t"} \ {v5[c].t})
  BY DEF Acc!LoggedIn
<1>2. new \in Acc!Pairs
  <2>1. Acc!Cardinality(v2) = Cardinality(v2)
    BY DEF Acc!Cardinality, Cardinality
  <2>2. Cardinality(v2) \in Nat
    BY <1>t, FS_CardinalityType
  <2>3. Acc!Cardinality(v2) \in 0..2 - 1
    BY <1>1, <2>1, <2>2
  <2> QED
    BY <1>t, <1>1, <2>3 DEF CallFits, Acc!Pairs
<1>3. /\ r \in AccCalls /\ r.kind = "loginMe" /\ r.tok = new /\ r.live
      /\ r.t = v5[c].t /\ r.where = v5[c].where /\ r.u = v5[c].u
  BY <1>t, <1>1, <1>2 DEF AccCalls, AccTokens
<1> HIDE DEF new, r
<1>4. v5' \in [C -> AccCalls] /\ v5'[c] = r /\ \A d \in C \ {c} : v5'[d] = v5[d]
  BY <1>t, <1>1, <1>3
<1>5. \A d \in C : CallFits(v5[d])'
  BY <1>t, <1>1, <1>3, <1>4 DEF CallFits
<1>6. IsFiniteSet(v2')
  BY <1>t, <1>1, FS_AddElement
<1>7. AccTyped'
  <2>1. \A d \in C : Waits(d, "page")' => Waits(d, "page")
    BY <1>3, <1>4 DEF Waits
  <2> QED
    BY <2>1, <1>t, <1>1, <1>2, <1>4, <1>5, <1>6 DEF AccInv, AccTyped
<1>8. ASSUME v8' = {} PROVE ShowsNobody'
  <2>1. v8 = {} /\ Signs(c)
    BY <1>8, <1>1 DEF Signs
  <2>2. ShowsNobody
    <3>1. CASE Settled
      <4>1. v1 = Acc!NoToken /\ v1.u = "none"
        BY <2>1, <3>1, AccSorts DEF Settled
      <4>2. v4["t"] \in Tabs /\ (v4["t"].on = "home" => v4["t"].page = Acc!NoView)
        BY DEF AccInv, AccTyped
      <4>3. \A view \in Views : \A w : OfToken(view, w) => view = Acc!NoView /\ \A d \in C : ~Waits(d, w)
        BY <4>1 DEF OfToken, Views, Acc!NoView, Acc!None
      <4>4. v4["t"].header \in Views /\ v4["t"].page \in Views /\ v4["t"].on \in {"home", "profile"}
        BY <4>2 DEF Tabs
      <4>5. v4["t"].header = Acc!NoView /\ \A d \in C : ~Waits(d, "header")
        BY <3>1, <4>3, <4>4 DEF Settled
      <4>6. v4["t"].page = Acc!NoView /\ \A d \in C : ~Waits(d, "page")
        BY <3>1, <4>2, <4>3, <4>4 DEF Settled, AccInv, AccTyped
      <4> QED
        BY <4>5, <4>6, AccSorts DEF ShowsNobody
    <3> QED
      BY <2>1, <3>1 DEF AccInv
  <2>3. \A d \in C, w \in Acc!Wheres : Waits(d, w)' => Waits(d, w)
    BY <1>3, <1>4 DEF Waits
  <2> QED
    BY <2>2, <2>3, <1>1 DEF ShowsNobody
<1> QED
  BY <1>7, <1>8 DEF AccInv

LEMMA OfTokenKept ==
  ASSUME NEW old, NEW w \in Acc!Wheres, OfToken(old, w), v1' = v1,
         \A d \in C : Waits(d, w)' => Waits(d, w) /\ v5'[d].tok = v5[d].tok
  PROVE  OfToken(old, w)'
BY DEF OfToken

\* The answer to who is signed in: the user of the token asked with, or nobody and the
\* tokens go.
LEMMA AccTold ==
  ASSUME NamesApart, AccInv, NEW c \in C, Acc!MeAnswered(c)
  PROVE  AccInv'
<1> DEFINE user == IF v5[c].step = "ok" THEN v5[c].tok.u ELSE "none"
           view == [user |-> user, loading |-> FALSE]
<1>t. /\ v3 \subseteq v2 /\ CallFits(v5[c]) /\ v7 \subseteq {"t"} /\ v8 \subseteq {"t"} /\ v5[c] \in AccCalls
      /\ v5 \in [C -> AccCalls] /\ v4 \in [{"t"} -> Tabs] /\ v4["t"] \in Tabs /\ v2 \subseteq Acc!Pairs
      /\ \A d \in C : CallFits(v5[d])
  BY DEF AccInv, AccTyped
<1>1. /\ v5[c].kind = "me" /\ v5[c].live /\ v5[c].t = "t" /\ v5[c].where \in Acc!Wheres
      /\ v5' = [v5 EXCEPT ![c] = Acc!NoCall] /\ UNCHANGED <<v2, v3, v6, v7>>
      /\ v4' = IF v5[c].heard THEN [v4 EXCEPT !["t"][v5[c].where] = view] ELSE v4
      /\ IF v5[c].step = "ok" THEN UNCHANGED <<v1, v8>> ELSE v1' = Acc!NoToken /\ v8' = v8 \cup {"t"}
  BY <1>t, AccSorts DEF Acc!MeAnswered, CallFits, Acc!AfterMe, Acc!Draw
<1>2. view \in Views /\ view.user = user /\ ~view.loading
  BY <1>t, AccSorts DEF CallFits, Views
<1> HIDE DEF view
<1>3. v5' \in [C -> AccCalls] /\ v5'[c] = Acc!NoCall /\ \A d \in C \ {c} : v5'[d] = v5[d]
  BY <1>t, <1>1, AccSorts
<1>4. \A d \in C : CallFits(v5[d])'
  <2>1. \A d \in C : CallFits(v5'[d])
    BY <1>t, <1>3, AccSorts DEF CallFits
  <2> QED
    BY <2>1, <1>1 DEF CallFits
<1>5. /\ v4' \in [{"t"} -> Tabs] /\ v4'["t"].on = v4["t"].on
      /\ v4'["t"].header = IF v5[c].heard /\ v5[c].where = "header" THEN view ELSE v4["t"].header
      /\ v4'["t"].page = IF v5[c].heard /\ v5[c].where = "page" THEN view ELSE v4["t"].page
  <2>1. CASE ~v5[c].heard
    BY <2>1, <1>1, <1>t
  <2>2. CASE v5[c].heard /\ v5[c].where = "header"
    BY <2>2, <1>1, <1>2, <1>t DEF Tabs
  <2>3. CASE v5[c].heard /\ v5[c].where = "page"
    BY <2>3, <1>1, <1>2, <1>t DEF Tabs
  <2> QED
    BY <2>1, <2>2, <2>3, <1>1, AccSorts
<1>6. \A d \in C, w \in Acc!Wheres : Waits(d, w)' => d # c /\ Waits(d, w) /\ v5'[d].tok = v5[d].tok
  BY <1>3, AccSorts DEF Waits
<1>7. AccTyped'
  <2>1. v4["t"].on = "home" => ~(v5[c].heard /\ v5[c].where = "page")
    BY <1>1 DEF AccInv, AccTyped, Waits
  <2>2. v1' \in v2 \cup {Acc!NoToken} /\ v8' \subseteq {"t"}
    BY <1>1 DEF AccInv, AccTyped
  <2> QED
    BY <1>1, <1>3, <1>4, <1>5, <1>6, <2>1, <2>2, AccSorts DEF AccInv, AccTyped
<1>8. ASSUME v8' = {} PROVE (Settled \/ ShowsNobody)'
  <2>1. v8 = {} /\ v5[c].step = "ok" /\ v1' = v1
    BY <1>1, <1>8
  <2>2. ASSUME ShowsNobody PROVE ShowsNobody'
    <3>1. ~v5[c].heard
      BY <2>2, <1>1 DEF ShowsNobody, Waits
    <3> QED
      BY <3>1, <2>2, <1>5, <1>6 DEF ShowsNobody
  <2>3. ASSUME Settled PROVE Settled'
    <3>1. \A w \in Acc!Wheres, old \in Views : OfToken(old, w) => OfToken(old, w)'
      BY <2>1, <1>6, OfTokenKept
    <3>v. PICK new \in Views : new = view
      BY <1>2
    <3>5. ASSUME NEW w \in Acc!Wheres, NEW old \in Views, OfToken(old, w), v5[c].heard, v5[c].where = w
          PROVE  OfToken(new, w)'
      <4>1. Waits(c, w)
        BY <3>5, <1>1 DEF Waits
      <4>2. new.user = v1.u /\ \A d \in C : ~Waits(d, w)'
        BY <4>1, <3>5, <3>v, <2>1, <1>2, <1>6 DEF OfToken
      <4> QED
        BY <4>2, <3>v, <2>1, <1>2 DEF OfToken
    <3>2. v4["t"].header \in Views /\ v4["t"].page \in Views
      BY <1>t DEF Tabs
    <3>3. OfToken(v4["t"].header, "header")'
      <4>1. OfToken(v4["t"].header, "header")
        BY <2>3 DEF Settled
      <4>2. CASE v4'["t"].header = v4["t"].header
        <5>1. PICK old \in Views : old = v4["t"].header
          BY <3>2
        <5>2. OfToken(old, "header")
          BY <4>1, <5>1 DEF OfToken
        <5>3. OfToken(old, "header")'
          BY <5>2, <3>1, AccSorts
        <5> QED
          BY <5>1, <5>3, <4>2 DEF OfToken
      <4>3. CASE v5[c].heard /\ v5[c].where = "header" /\ v4'["t"].header = new
        BY <4>1, <4>3, <3>5, <3>2, AccSorts DEF OfToken
      <4> QED
        BY <4>2, <4>3, <1>5, <3>v
    <3>4. ASSUME v4["t"].on = "profile" PROVE OfToken(v4["t"].page, "page")'
      <4>1. OfToken(v4["t"].page, "page")
        BY <2>3, <3>4 DEF Settled
      <4>2. CASE v4'["t"].page = v4["t"].page
        <5>1. PICK old \in Views : old = v4["t"].page
          BY <3>2
        <5>2. OfToken(old, "page")
          BY <4>1, <5>1 DEF OfToken
        <5>3. OfToken(old, "page")'
          BY <5>2, <3>1, AccSorts
        <5> QED
          BY <5>1, <5>3, <4>2 DEF OfToken
      <4>3. CASE v5[c].heard /\ v5[c].where = "page" /\ v4'["t"].page = new
        BY <4>1, <4>3, <3>5, <3>2, AccSorts DEF OfToken
      <4> QED
        BY <4>2, <4>3, <1>5, <3>v
    <3>6. \A d \in C : Signs(d)' => Signs(d)
      BY <1>3, AccSorts DEF Signs
    <3> QED
      BY <3>3, <3>4, <3>6, <2>1, <2>3, <1>5 DEF Settled
  <2> QED
    BY <2>1, <2>2, <2>3 DEF AccInv
<1> QED
  BY <1>7, <1>8 DEF AccInv

LEMMA AccLeft ==
  ASSUME NamesApart, AccInv, NEW c \in C, Acc!LoggedOut(c)
  PROVE  AccInv'
<1>t. /\ v3 \subseteq v2 /\ CallFits(v5[c]) /\ v7 \subseteq {"t"} /\ v8 \subseteq {"t"} /\ v5[c] \in AccCalls
      /\ v5 \in [C -> AccCalls] /\ v4 \in [{"t"} -> Tabs] /\ v4["t"] \in Tabs
      /\ \A d \in C : CallFits(v5[d])
  BY DEF AccInv, AccTyped
<1> DEFINE header == IF v5[c].where = "header" THEN Acc!NoView ELSE v4["t"].header
           deaf(d) == [v5[d] EXCEPT !.heard = FALSE]
<1>1. /\ v5[c].t = "t" /\ v1' = Acc!NoToken /\ UNCHANGED <<v2, v3, v6>> /\ v7' \subseteq v7 /\ v8' = v8 \cup {"t"}
      /\ v4' = [v4 EXCEPT !["t"].on = "home", !["t"].page = Acc!NoView, !["t"].header = header]
      /\ v5' = [d \in C |-> IF d = c THEN Acc!NoCall
                          ELSE IF v5[d].t = "t" /\ v5[d].where = "page" THEN deaf(d) ELSE v5[d]]
  BY <1>t DEF Acc!LoggedOut, CallFits
<1>2. header \in Views
  BY <1>t, AccSorts DEF Tabs
<1>3. \A d \in C : CallFits(deaf(d)) /\ ~deaf(d).heard
  BY <1>t, AccMuted
<1> HIDE DEF header, deaf
<1>4. v4' \in [{"t"} -> Tabs] /\ v4'["t"].page = Acc!NoView
  BY <1>1, <1>2, <1>t, AccSorts DEF Tabs
<1>5. \A d \in C : CallFits(v5'[d]) /\ ~Waits(d, "page")'
  BY <1>t, <1>1, <1>3, AccSorts DEF CallFits, Waits
<1>6. v5' \in [C -> AccCalls]
  BY <1>t, <1>1, <1>3, AccSorts DEF CallFits
<1>7. \A d \in C : CallFits(v5[d])'
  BY <1>1, <1>5 DEF CallFits
<1>8. AccTyped'
  BY <1>t, <1>1, <1>4, <1>5, <1>6, <1>7 DEF AccInv, AccTyped
<1> QED
  BY <1>1, <1>8 DEF AccInv

\* The tab moves between home and the profile.
LEMMA AccMoves ==
  ASSUME NamesApart, AccInv, Acc!OpenHome("t")
  PROVE  AccInv'
<1>t. /\ v3 \subseteq v2 /\ v7 \subseteq {"t"} /\ v8 \subseteq {"t"}
      /\ v5 \in [C -> AccCalls] /\ v4 \in [{"t"} -> Tabs] /\ v4["t"] \in Tabs
      /\ \A d \in C : CallFits(v5[d])
  BY DEF AccInv, AccTyped
<1> DEFINE deaf(d) == [v5[d] EXCEPT !.heard = FALSE]
<1>1. /\ UNCHANGED <<v1, v2, v3, v6, v8>> /\ v7' \subseteq v7
      /\ v4' = [v4 EXCEPT !["t"].on = "home", !["t"].page = Acc!NoView]
      /\ v5' = [d \in C |-> IF v5[d].t = "t" /\ v5[d].where = "page" THEN deaf(d) ELSE v5[d]]
  BY DEF Acc!OpenHome, Acc!Leave
<1>3. \A d \in C : /\ CallFits(deaf(d)) /\ ~deaf(d).heard /\ deaf(d).kind = v5[d].kind
                   /\ deaf(d).live = v5[d].live
  <2>1. SUFFICES ASSUME NEW d \in C
                 PROVE  /\ CallFits(deaf(d)) /\ ~deaf(d).heard /\ deaf(d).kind = v5[d].kind
                        /\ deaf(d).live = v5[d].live
    OBVIOUS
  <2>2. v5[d] \in AccCalls /\ CallFits(v5[d])
    BY <1>t
  <2> QED
    BY <2>2 DEF CallFits, AccCalls
<1> HIDE DEF deaf
<1>4. v4' \in [{"t"} -> Tabs] /\ v4'["t"].page = Acc!NoView /\ v4'["t"].header = v4["t"].header /\ v4'["t"].on = "home"
  BY <1>1, <1>t, AccSorts DEF Tabs
<1>5. \A d \in C : /\ CallFits(v5'[d]) /\ ~Waits(d, "page")'
                   /\ Waits(d, "header")' => Waits(d, "header") /\ v5'[d].tok = v5[d].tok
                   /\ Signs(d)' => Signs(d)
  <2>1. SUFFICES ASSUME NEW d \in C
                 PROVE  /\ CallFits(v5'[d]) /\ ~Waits(d, "page")'
                        /\ Waits(d, "header")' => Waits(d, "header") /\ v5'[d].tok = v5[d].tok
                        /\ Signs(d)' => Signs(d)
    OBVIOUS
  <2>2. v5'[d] = IF v5[d].t = "t" /\ v5[d].where = "page" THEN deaf(d) ELSE v5[d]
    BY <1>1
  <2> QED
    BY <1>t, <1>3, <2>2 DEF CallFits, Waits, Signs
<1>6. v5' \in [C -> AccCalls]
  BY <1>t, <1>1, <1>3 DEF CallFits
<1>7. \A d \in C : CallFits(v5[d])'
  BY <1>1, <1>5 DEF CallFits
<1>8. AccTyped'
  BY <1>t, <1>1, <1>4, <1>5, <1>6, <1>7 DEF AccInv, AccTyped
<1>9. ASSUME v8 = {} PROVE (Settled \/ ShowsNobody)'
  <2>1. ASSUME ShowsNobody PROVE ShowsNobody'
    BY <2>1, <1>4, <1>5, AccSorts DEF ShowsNobody
  <2>2. ASSUME Settled PROVE Settled'
    <3>1. v4["t"].header \in Views /\ OfToken(v4["t"].header, "header")
      BY <2>2, <1>t DEF Settled, Tabs
    <3>2. \A old \in Views : OfToken(old, "header") => OfToken(old, "header")'
      BY <1>1, <1>5, OfTokenKept, AccSorts
    <3>3. OfToken(v4["t"].header, "header")'
      BY <3>1, <3>2, <1>4 DEF OfToken
    <3> QED
      BY <3>3, <2>2, <1>1, <1>4, <1>5 DEF Settled
  <2> QED
    BY <1>9, <2>1, <2>2 DEF AccInv
<1> QED
  BY <1>1, <1>8, <1>9 DEF AccInv

LEMMA AccOpens ==
  ASSUME NamesApart, AccInv, NEW c \in C, Acc!OpenProfile("t", c)
  PROVE  AccInv'
<1>t. /\ v3 \subseteq v2 /\ v7 \subseteq {"t"} /\ v8 \subseteq {"t"}
      /\ v5 \in [C -> AccCalls] /\ v4 \in [{"t"} -> Tabs] /\ v4["t"] \in Tabs
      /\ \A d \in C : CallFits(v5[d])
  BY DEF AccInv, AccTyped
<1> DEFINE view == Acc!View
           r == Acc!Request("me", "t", "page", "none")
<1>1. /\ UNCHANGED <<v1, v2, v3, v6, v7>> /\ v4["t"].on = "home"
      /\ v4' = [v4 EXCEPT !["t"].on = "profile", !["t"].page = view]
      /\ IF v1 = Acc!NoToken THEN UNCHANGED v5 ELSE v5[c] = Acc!NoCall /\ v5' = [v5 EXCEPT ![c] = r]
      /\ v8' = IF v1.u # v4["t"].header.user /\ ~v4["t"].header.loading THEN v8 \cup {"t"} ELSE v8
  BY AccSorts DEF Acc!OpenProfile, Acc!Send, Acc!Idle
<1>2. /\ view \in Views /\ (view.loading <=> v1 # Acc!NoToken) /\ view.user = "none"
      /\ r \in AccCalls /\ r.kind = "me" /\ r.where = "page" /\ r.tok = v1 /\ CallFits(r)
      /\ v1.u = "none" <=> v1 = Acc!NoToken
  BY AccView, AccRequest, AccSorts
<1> HIDE DEF view, r
<1>3. /\ v4' \in [{"t"} -> Tabs] /\ v4'["t"].page = view /\ v4'["t"].header = v4["t"].header
      /\ v4'["t"].on = "profile"
  BY <1>1, <1>2, <1>t DEF Tabs
<1>4. /\ v5' \in [C -> AccCalls] /\ \A d \in C : CallFits(v5'[d])
      /\ \A d \in C : \/ v5'[d] = v5[d]
                      \/ d = c /\ v5'[d] = r /\ v1 # Acc!NoToken
  BY <1>t, <1>1, <1>2
<1>5. \A d \in C : CallFits(v5[d])'
  BY <1>1, <1>4 DEF CallFits
<1>6. AccTyped'
  BY <1>t, <1>1, <1>3, <1>4, <1>5 DEF AccInv, AccTyped
<1>7. ASSUME v8' = {} PROVE (Settled \/ ShowsNobody)'
  <2>1. v8 = {} /\ (v4["t"].header.loading \/ v1.u = v4["t"].header.user)
    BY <1>1, <1>7
  <2>2. ASSUME ShowsNobody PROVE ShowsNobody'
    <3>1. v1 = Acc!NoToken
      BY <2>1, <2>2, <1>2, AccSorts DEF ShowsNobody
    <3>2. view = Acc!NoView
      BY <3>1, <1>2 DEF Views, Acc!NoView, Acc!None
    <3> QED
      BY <3>1, <3>2, <2>2, <1>1, <1>3 DEF ShowsNobody, Waits
  <2>3. ASSUME Settled PROVE Settled'
    <3>1. v4["t"].header \in Views /\ OfToken(v4["t"].header, "header")
      BY <2>3, <1>t DEF Settled, Tabs
    <3>2. \A d \in C : Waits(d, "header")' => Waits(d, "header") /\ v5'[d].tok = v5[d].tok
      BY <1>2, <1>4 DEF Waits
    <3>3. \A old \in Views : OfToken(old, "header") => OfToken(old, "header")'
      BY <1>1, <3>2, OfTokenKept, AccSorts
    <3>4. OfToken(v4["t"].header, "header")'
      BY <3>1, <3>3, <1>3 DEF OfToken
    <3>5. \A d \in C : Waits(d, "page")' => d = c /\ v5'[d] = r /\ v1 # Acc!NoToken
      BY <1>1, <1>4 DEF AccInv, AccTyped, Waits
    <3>6. OfToken(v4["t"].page, "page")'
      BY <3>5, <1>1, <1>2, <1>3, AccSorts DEF OfToken
    <3>7. \A d \in C : Signs(d)' => Signs(d)
      BY <1>2, <1>4 DEF Signs
    <3> QED
      BY <3>4, <3>6, <3>7, <2>3, <1>1, <1>3 DEF Settled
  <2> QED
    BY <2>1, <2>2, <2>3 DEF AccInv
<1> QED
  BY <1>6, <1>7 DEF AccInv

\* A button: a form is only drawn for nobody, when no token is stored.
LEMMA AccPressed ==
  ASSUME NamesApart, AccInv, NEW c \in C,
         \/ \E where \in Acc!Wheres : Acc!handleLogout("t", c, where)
         \/ \E kind \in {"save", "password"} : Acc!handleSave("t", c, kind)
         \/ \E u \in X, kind \in {"register", "login"} : Acc!handleAuth("t", c, u, kind)
  PROVE  AccInv'
<1>t. /\ v3 \subseteq v2 /\ v7 \subseteq {"t"} /\ v8 \subseteq {"t"} /\ v4["t"] \in Tabs
      /\ v5 \in [C -> AccCalls] /\ \A d \in C : CallFits(v5[d])
      /\ v4["t"].page.user \in X \cup {"none"} /\ v4["t"].header.user \in X \cup {"none"}
  BY DEF AccInv, AccTyped, Tabs, Views
<1>1. ASSUME NEW where \in Acc!Wheres, Acc!handleLogout("t", c, where) PROVE AccInv'
  <2> DEFINE r == Acc!Request("logout", "t", where, v4["t"][where].user)
  <2>1. v5' = [v5 EXCEPT ![c] = r] /\ UNCHANGED <<v1, v2, v3, v4, v6, v7, v8>>
    BY <1>1 DEF Acc!handleLogout, Acc!Send
  <2>2. v4["t"][where].user \in X \cup {"none"}
    <3>1. CASE where = "header"
      BY <3>1, <1>t
    <3>2. CASE where = "page"
      BY <3>2, <1>t
    <3> QED
      BY <3>1, <3>2, AccSorts
  <2>3. CallFits(r) /\ r.kind = "logout"
    BY <2>2, AccRequest
  <2> HIDE DEF r
  <2> QED
    BY <1>t, <2>1, <2>3, AccOne
<1>2. ASSUME NEW kind \in {"save", "password"}, Acc!handleSave("t", c, kind) PROVE AccInv'
  <2> DEFINE r == Acc!Request(kind, "t", "page", v4["t"].page.user)
  <2>1. v5' = [v5 EXCEPT ![c] = r] /\ UNCHANGED <<v1, v2, v3, v4, v6, v7, v8>>
    BY <1>2 DEF Acc!handleSave, Acc!Send
  <2>2. CallFits(r) /\ r.kind = kind
    BY <1>t, AccRequest, AccSorts
  <2> HIDE DEF r
  <2> QED
    BY <1>t, <2>1, <2>2, AccOne
<1>3. ASSUME NEW u \in X, NEW kind \in {"register", "login"}, Acc!handleAuth("t", c, u, kind) PROVE AccInv'
  <2> DEFINE r == Acc!Request(kind, "t", "page", u)
  <2>1. /\ v5' = [v5 EXCEPT ![c] = r] /\ UNCHANGED <<v1, v2, v3, v4, v6, v7, v8>>
        /\ v4["t"].on = "profile" /\ ~v4["t"].page.loading /\ v4["t"].page.user = "none"
    BY <1>3, AccSorts DEF Acc!handleAuth, Acc!Send, Acc!FormShown
  <2>2. CallFits(r) /\ r.kind = kind /\ r \in AccCalls
    BY <1>t, AccRequest, AccSorts
  <2> HIDE DEF r
  <2>3. /\ v5' \in [C -> AccCalls] /\ \A d \in C : CallFits(v5'[d])
        /\ \A d \in C, w \in Acc!Wheres : Waits(d, w)' => Waits(d, w) /\ v5'[d].tok = v5[d].tok
    BY <1>t, <2>1, <2>2 DEF Waits
  <2>4. AccTyped'
    <3>1. \A d \in C : CallFits(v5[d])'
      BY <2>1, <2>3 DEF CallFits
    <3> QED
      BY <3>1, <2>1, <2>3, <1>t, AccSorts DEF AccInv, AccTyped
  <2>5. ASSUME ShowsNobody PROVE ShowsNobody'
    BY <2>1, <2>3, <2>5 DEF ShowsNobody
  <2>6. ASSUME Settled PROVE Settled'
    <3>1. v1 = Acc!NoToken
      BY <2>1, <2>6, AccView DEF Settled, OfToken
    <3>2. v4["t"].header \in Views /\ v4["t"].page \in Views
      BY <1>t DEF Tabs
    <3>3. \A old \in Views, w \in Acc!Wheres : OfToken(old, w) => OfToken(old, w)'
      BY <2>1, <2>3, OfTokenKept
    <3>4. OfToken(v4["t"].header, "header")' /\ OfToken(v4["t"].page, "page")'
      BY <3>2, <3>3, <2>1, <2>6, AccSorts DEF Settled, OfToken
    <3> QED
      BY <3>1, <3>4, <2>1 DEF Settled
  <2> QED
    BY <2>1, <2>4, <2>5, <2>6 DEF AccInv
<1> QED
  BY <1>1, <1>2, <1>3

LEMMA AccNext ==
  ASSUME NamesApart
  PROVE  AccInv /\ Acc!Next => AccInv'
<1> SUFFICES ASSUME AccInv, Acc!Next PROVE AccInv'
  OBVIOUS
<1>1. ASSUME Acc!Reload("t") PROVE AccInv'
  BY <1>1, AccLoads DEF Acc!Reload, AccInv, AccTyped, Tabs
<1>2. ASSUME NEW c \in C, Acc!Serve(c) \/ Acc!Lost(c) \/ Acc!Answered(c) PROVE AccInv'
  BY <1>2, AccServed, AccEnds, AccSigned, AccTold, AccLeft DEF Acc!Serve, Acc!Answered
<1> QED
  BY <1>1, <1>2, AccMoves, AccOpens, AccPressed DEF Acc!Next

LEMMA AccSays ==
  ASSUME NamesApart
  PROVE  AccInv => Acc!TypeOK /\ Acc!HeaderAgrees
<1> SUFFICES ASSUME AccInv PROVE Acc!TypeOK /\ Acc!HeaderAgrees
  OBVIOUS
<1>1. Acc!TypeOK
  BY AccSorts DEF AccInv, AccTyped, Acc!TypeOK, Tabs, Views, AccCalls, AccTokens
<1>2. Acc!HeaderAgrees
  BY DEF AccInv, AccTyped, Settled, ShowsNobody, OfToken, Acc!HeaderAgrees
<1> QED
  BY <1>1, <1>2

LEMMA AccStill ==
  ASSUME NamesApart
  PROVE  AccInv /\ UNCHANGED <<v1, v2, v3, v4, v5, v7, v8>> => AccInv'
<1> SUFFICES ASSUME AccInv, UNCHANGED <<v1, v2, v3, v4, v5, v7, v8>> PROVE AccInv'
  OBVIOUS
<1>1. v3' \subseteq v2 /\ v7' \subseteq {"t"} /\ v8' \subseteq {"t"} /\ v5' \in [C -> AccCalls]
      /\ \A c \in C : CallFits(v5'[c])
  BY DEF AccInv, AccTyped
<1>2. \A c \in C : (\A w \in Acc!Wheres : Waits(c, w)' => Waits(c, w)) /\ (Signs(c)' => Signs(c))
  BY DEF Waits, Signs
<1> QED
  BY <1>1, <1>2, AccQuiet

-----------------------------------------------------------------------------
(* PhoneVerification: v1 the account, v2 the code, v3 the attempts, v4 the lockout, v5 the  *)
(* cooldown, v7 the message that arrived, v8 how many codes were made, v9 the cards, v10     *)
(* what a browser remembers, v11 the requests.                                               *)
Pho == INSTANCE PhoneVerification WITH
  Users <- {"u"}, Phones <- {"p"}, Tabs <- {"t", "s"}, UserOf <- [t |-> "u", s |-> "u"],
  Calls <- C, MaxAttempts <- 1, MaxDaily <- 1, Profile <- TRUE, Forgets <- TRUE,
  account <- v1, otp <- v2, attempts <- v3, lockout <- v4, cooldown <- v5, audit <- v6, sms <- v7,
  made <- v8, page <- v9, done <- v10, call <- v11, proven <- v12, wrong <- v13

CodeBound == 1 * Pho!Cardinality({"u"})
AnyCode == Pho!Codes \cup {Pho!NoCode}
PhoneCalls == [kind : {"idle", "send", "verify"}, t : {"t", "s", "none"}, phone : {"p", "none"}, code : AnyCode,
               step : {"idle", "sent", "ok", "refused", "checked", "cooling", "stored", "reset", "right",
                       "wrong", "locked", "saving"}, heard : BOOLEAN]
Cards == [stage : {"idle", "sent", "done"}, input : {"p", "none"}, wait : Nat]
Accounts == [phone : {"p", "none"}, verified : BOOLEAN]

PhoneTyped ==
  /\ v1 \in [{"u"} -> Accounts] /\ v2 \in [{"u"} -> AnyCode] /\ v3 \in [{"u"} -> Nat]
  /\ v4 \in [{"u"} -> BOOLEAN] /\ v5 \in [{"u"} -> Nat] /\ v7 \in [{"u"} -> AnyCode]
  /\ v8 \in 0..CodeBound /\ v9 \in [{"t", "s"} -> Cards] /\ v10 \subseteq {"u"} /\ v11 \in [C -> PhoneCalls]
  /\ v5["u"] <= v8 /\ v7["u"].n <= v8 /\ \A t \in {"t", "s"} : v9[t].wait <= v8
  /\ v1["u"].verified => v1["u"].phone # "none"

\* What was verified is verified for good.
SendFits(r) ==
  /\ r.code.n <= v8
  /\ r.kind = "idle" => r.step = "idle" /\ ~r.heard
  /\ r.kind # "idle" => r.t \in {"t", "s"} /\ r.phone = "p"
  /\ r.kind = "verify" /\ r.step = "ok" => v1["u"].verified

CardsRight ==
  /\ "u" \in v10 => v1["u"].verified
  /\ \A t \in {"t", "s"} : /\ v9[t].stage = "done" => v1["u"].verified
                           /\ v9[t].stage = "sent" => v9[t].input = "p"
                           /\ \A c \in C : v11[c].kind = "send" /\ v11[c].heard /\ v11[c].t = t => v9[t].input = "p"

PhoneInv == PhoneTyped /\ (\A c \in C : SendFits(v11[c])) /\ CardsRight

LEMMA PhoneSorts ==
  /\ CodeBound \in Nat /\ Pho!NoCode \in AnyCode /\ Pho!NoCode.n = 0 /\ Pho!NoCall \in PhoneCalls
  /\ Pho!NoCall.kind = "idle" /\ Pho!NoCall.step = "idle" /\ ~Pho!NoCall.heard /\ Pho!NoCall.code = Pho!NoCode
  /\ Pho!None = "none"
  /\ Pho!Codes = [n : 1..CodeBound, to : {"p"}]
  /\ \A k \in AnyCode : k.n \in 0..CodeBound
<1>1. Pho!Cardinality({"u"}) = Cardinality({"u"})
  BY DEF Pho!Cardinality, Cardinality
<1>2. CodeBound \in Nat
  <2>1. Cardinality({"u"}) = 1
    BY FS_Singleton
  <2> QED
    BY <1>1, <2>1 DEF CodeBound
<1> HIDE DEF CodeBound
<1>3. Pho!Codes = [n : 1..CodeBound, to : {"p"}]
  BY DEF Pho!Codes, CodeBound
<1>4. Pho!NoCode \in AnyCode /\ Pho!NoCode.n = 0
  BY DEF AnyCode, Pho!NoCode
<1>5. \A k \in AnyCode : k.n \in 0..CodeBound
  BY <1>2, <1>3, <1>4 DEF AnyCode
<1>6. /\ Pho!NoCall \in PhoneCalls /\ Pho!NoCall.kind = "idle" /\ Pho!NoCall.step = "idle" /\ ~Pho!NoCall.heard
      /\ Pho!NoCall.code = Pho!NoCode
  BY <1>4 DEF Pho!NoCall, PhoneCalls, Pho!None
<1> QED
  BY <1>2, <1>3, <1>4, <1>5, <1>6 DEF Pho!None

LEMMA PhoneUser == \A c \in C : v11[c].t \in {"t", "s"} => Pho!User(c) = "u"
BY DEF Pho!User

LEMMA PhoneInit == Pho!Init => PhoneInv
<1> SUFFICES ASSUME Pho!Init PROVE PhoneInv
  OBVIOUS
<1>1. v9 \in [{"t", "s"} -> Cards] /\ \A t \in {"t", "s"} : v9[t].wait = 0 /\ v9[t].stage = "idle"
  BY DEF Pho!Init, Cards, Pho!None
<1>2. PhoneTyped
  BY <1>1, PhoneSorts DEF Pho!Init, PhoneTyped, Accounts
<1>3. \A c \in C : SendFits(v11[c])
  BY PhoneSorts DEF Pho!Init, SendFits
<1>4. CardsRight
  BY <1>1, PhoneSorts DEF Pho!Init, CardsRight
<1> QED
  BY <1>2, <1>3, <1>4 DEF PhoneInv

\* Codes are made and an account is verified for good.
LEMMA SendFitsStays ==
  ASSUME PhoneInv, NEW r \in PhoneCalls, SendFits(r), v8' \in Nat, v8 <= v8',
         v1["u"].verified => v1'["u"].verified
  PROVE  SendFits(r)'
BY PhoneSorts DEF SendFits, PhoneInv, PhoneTyped, PhoneCalls

\* One request changes.
LEMMA PhoneOne ==
  ASSUME PhoneInv, NEW c \in C, PhoneTyped', v8 <= v8', v1["u"].verified => v1'["u"].verified,
         \A d \in C \ {c} : v11'[d] = v11[d], SendFits(v11[c])', CardsRight'
  PROVE  PhoneInv'
<1>1. ASSUME NEW d \in C \ {c} PROVE SendFits(v11[d])'
  <2>1. PICK r \in PhoneCalls : r = v11[d]
    BY DEF PhoneInv, PhoneTyped
  <2>2. SendFits(r)
    BY <2>1 DEF PhoneInv, SendFits
  <2>3. v8' \in Nat
    BY PhoneSorts DEF PhoneTyped
  <2>4. SendFits(r)'
    BY <2>1, <2>2, <2>3, SendFitsStays
  <2> QED
    BY <1>1, <2>1, <2>4 DEF SendFits
<1> QED
  BY <1>1 DEF PhoneInv

\* The server goes one step further in a request, or loses it.
LEMMA PhoneGoes ==
  ASSUME PhoneInv, NEW c \in C, NEW r \in PhoneCalls, v11' = [v11 EXCEPT ![c] = r],
         v11[c].kind # "idle", r.kind = v11[c].kind, r.t = v11[c].t, r.phone = v11[c].phone, r.heard = v11[c].heard,
         r.code = v11[c].code \/ r.code.n = v8',
         UNCHANGED <<v9, v10>>,
         v1' \in [{"u"} -> Accounts], v1'["u"].verified => v1'["u"].phone # "none",
         v1["u"].verified => v1'["u"].verified,
         v2' \in [{"u"} -> AnyCode], v3' \in [{"u"} -> Nat], v4' \in [{"u"} -> BOOLEAN], v7' \in [{"u"} -> AnyCode],
         v8' \in 0..CodeBound, v8 <= v8', v5' \in [{"u"} -> Nat], v5'["u"] <= v8', v7'["u"].n <= v8',
         r.step = "ok" /\ r.kind = "verify" => v1'["u"].verified
  PROVE  PhoneInv'
<1>t. v11 \in [C -> PhoneCalls] /\ v11[c] \in PhoneCalls /\ SendFits(v11[c]) /\ v8 \in 0..CodeBound
  BY DEF PhoneInv, PhoneTyped
<1>2. v11' \in [C -> PhoneCalls] /\ v11'[c] = r /\ \A d \in C \ {c} : v11'[d] = v11[d]
  BY <1>t
<1>3. PhoneTyped'
  <2>1. \A t \in {"t", "s"} : v9[t].wait \in Nat /\ v9[t].wait <= v8
    BY DEF PhoneInv, PhoneTyped, Cards
  <2>2. \A t \in {"t", "s"} : v9[t].wait <= v8'
    BY <2>1, <1>t, PhoneSorts
  <2> QED
    BY <1>2, <2>2 DEF PhoneInv, PhoneTyped
<1>4. SendFits(v11[c])'
  <2>1. r.code.n \in Nat /\ r.code.n <= v8'
    BY <1>t, PhoneSorts DEF SendFits, PhoneCalls
  <2> QED
    BY <1>t, <1>2, <2>1 DEF SendFits
<1>5. CardsRight'
  <2>1. \A d \in C : v11'[d].kind = v11[d].kind /\ v11'[d].heard = v11[d].heard /\ v11'[d].t = v11[d].t
    BY <1>2
  <2> QED
    BY <2>1 DEF PhoneInv, CardsRight
<1> QED
  BY <1>2, <1>3, <1>4, <1>5, PhoneOne

LEMMA PhoneServed ==
  ASSUME PhoneInv, NEW c \in C,
         \/ Pho!SendChecked(c) \/ Pho!CooldownSet(c) \/ Pho!CodeStored(c) \/ Pho!AttemptsReset(c)
         \/ Pho!MessageSent(c) \/ Pho!VerifyRead(c) \/ Pho!WrongCounted(c) \/ Pho!LockedDeleted(c)
         \/ Pho!RightDeleted(c) \/ Pho!Verified(c) \/ Pho!Lost(c)
  PROVE  PhoneInv'
<1> DEFINE Fine == /\ v1 \in [{"u"} -> Accounts] /\ (v1["u"].verified => v1["u"].phone # "none")
                   /\ v2 \in [{"u"} -> AnyCode] /\ v3 \in [{"u"} -> Nat] /\ v4 \in [{"u"} -> BOOLEAN]
                   /\ v7 \in [{"u"} -> AnyCode] /\ v5 \in [{"u"} -> Nat] /\ v5["u"] <= v8
                   /\ v8 \in 0..CodeBound /\ v7["u"].n <= v8
<1>t. /\ v11 \in [C -> PhoneCalls] /\ v11[c] \in PhoneCalls /\ SendFits(v11[c]) /\ v8 <= v8
      /\ v11[c].code \in AnyCode /\ Fine
  BY PhoneSorts DEF PhoneInv, PhoneTyped, PhoneCalls
<1>u. v11[c].kind # "idle" => Pho!User(c) = "u" /\ v11[c].phone = "p"
  BY <1>t, PhoneUser DEF SendFits
<1>g. ASSUME NEW step \in {"ok", "refused", "checked", "cooling", "stored", "reset", "right", "wrong", "locked", "saving"},
             Pho!Goto(c, step), v11[c].kind # "idle", UNCHANGED <<v8, v9, v10>>, Fine',
             v1["u"].verified => v1'["u"].verified, step = "ok" /\ v11[c].kind = "verify" => v1'["u"].verified
      PROVE  PhoneInv'
  <2> DEFINE r == [v11[c] EXCEPT !.step = step]
  <2>1. /\ r \in PhoneCalls /\ r.kind = v11[c].kind /\ r.t = v11[c].t /\ r.phone = v11[c].phone
        /\ r.heard = v11[c].heard /\ r.code = v11[c].code /\ r.step = step /\ v11' = [v11 EXCEPT ![c] = r]
    BY <1>t, <1>g DEF PhoneCalls, Pho!Goto
  <2>2. PICK s \in PhoneCalls : s = r
    BY <2>1
  <2> HIDE DEF r
  <2>3. v8 \in Nat
    BY <1>t, PhoneSorts
  <2> QED
    BY <1>g, <1>t, <2>1, <2>2, <2>3, PhoneGoes
<1>s. ASSUME NEW kind, NEW step, Pho!Step(c, kind, step), kind # "idle"
      PROVE  v11[c].kind = kind /\ v11[c].step = step /\ v11[c].kind # "idle" /\ Pho!User(c) = "u" /\ v11[c].phone = "p"
  BY <1>s, <1>u DEF Pho!Step
<1>1. CASE Pho!SendChecked(c)
  <2>1. /\ (Pho!Goto(c, "refused") \/ Pho!Goto(c, "checked")) /\ UNCHANGED <<v1, v2, v3, v4, v5, v7, v8, v9, v10>>
        /\ v11[c].kind = "send"
    BY <1>1, <1>s DEF Pho!SendChecked, Pho!keys, Pho!client
  <2> QED
    BY <1>t, <1>g, <2>1
<1>2. CASE Pho!CooldownSet(c)
  <2>0. /\ UNCHANGED <<v1, v2, v3, v4, v7, v9, v10>> /\ v11[c].kind = "send" /\ v11[c].phone = "p" /\ Pho!User(c) = "u"
    BY <1>2, <1>s DEF Pho!CooldownSet, Pho!client
  <2>1. CASE Pho!Goto(c, "refused") /\ UNCHANGED <<v5, v8>>
    BY <1>t, <1>g, <2>0, <2>1
  <2>2. CASE ~(Pho!Goto(c, "refused") /\ UNCHANGED <<v5, v8>>)
    <3> DEFINE k == [n |-> v8 + 1, to |-> "p"]
               r == [v11[c] EXCEPT !.step = "cooling", !.code = k]
    <3>1. v8 < CodeBound /\ v8' = v8 + 1 /\ v5' = [v5 EXCEPT !["u"] = v8 + 1] /\ v11' = [v11 EXCEPT ![c] = r]
      BY <1>2, <2>0, <2>2, <1>t DEF Pho!CooldownSet, CodeBound
    <3>2. k \in AnyCode /\ k.n = v8'
      BY <1>t, <3>1, PhoneSorts DEF AnyCode
    <3> HIDE DEF k
    <3>3. /\ r \in PhoneCalls /\ r.kind = v11[c].kind /\ r.t = v11[c].t /\ r.phone = v11[c].phone
          /\ r.heard = v11[c].heard /\ r.code = k /\ r.step = "cooling"
      BY <1>t, <3>2 DEF PhoneCalls
    <3> HIDE DEF r
    <3>4. PICK s \in PhoneCalls : s = r
      BY <3>3
    <3>5. v8' \in 0..CodeBound /\ v8 <= v8' /\ v5' \in [{"u"} -> Nat] /\ v5'["u"] <= v8'
          /\ v7'["u"].n <= v8'
      BY <1>t, <2>0, <3>1, PhoneSorts
    <3> QED
      BY <1>t, <2>0, <3>1, <3>2, <3>3, <3>4, <3>5, PhoneGoes
  <2> QED
    BY <2>1, <2>2
<1>3. CASE Pho!CodeStored(c)
  <2>1. /\ Pho!Goto(c, "stored") /\ UNCHANGED <<v1, v3, v4, v5, v7, v8, v9, v10>>
        /\ v11[c].kind = "send" /\ v2' = [v2 EXCEPT !["u"] = v11[c].code]
    BY <1>3, <1>s DEF Pho!CodeStored, Pho!client
  <2>2. Fine'
    BY <1>t, <2>1
  <2> HIDE DEF Fine
  <2> QED
    BY <1>g, <2>1, <2>2
<1>4. CASE Pho!AttemptsReset(c)
  <2>1. /\ Pho!Goto(c, "reset") /\ UNCHANGED <<v1, v2, v4, v5, v7, v8, v9, v10>>
        /\ v11[c].kind = "send" /\ v3' = [v3 EXCEPT !["u"] = 0]
    BY <1>4, <1>s DEF Pho!AttemptsReset, Pho!client
  <2>2. Fine'
    BY <1>t, <2>1
  <2> HIDE DEF Fine
  <2> QED
    BY <1>g, <2>1, <2>2
<1>5. CASE Pho!MessageSent(c)
  <2>1. /\ Pho!Goto(c, "ok") \/ Pho!Goto(c, "refused")
        /\ UNCHANGED <<v1, v2, v3, v4, v5, v8, v9, v10>>
        /\ v11[c].kind = "send" /\ (v7' = [v7 EXCEPT !["u"] = v11[c].code] \/ v7' = v7)
    BY <1>5, <1>s DEF Pho!MessageSent, Pho!client, Pho!keys
  <2>2. Fine'
    BY <1>t, <2>1 DEF SendFits
  <2> HIDE DEF Fine
  <2> QED
    BY <1>g, <2>1, <2>2
<1>6. CASE Pho!VerifyRead(c)
  <2>1. /\ Pho!Goto(c, "refused") \/ Pho!Goto(c, "right") \/ Pho!Goto(c, "wrong")
        /\ UNCHANGED <<v1, v2, v3, v4, v5, v7, v8, v9, v10>> /\ v11[c].kind = "verify"
    BY <1>6, <1>s DEF Pho!VerifyRead, Pho!client, Pho!keys
  <2> QED
    BY <1>t, <1>g, <2>1
<1>7. CASE Pho!WrongCounted(c)
  <2>1. /\ Pho!Goto(c, "refused") \/ Pho!Goto(c, "locked")
        /\ UNCHANGED <<v1, v2, v5, v7, v8, v9, v10>> /\ v11[c].kind = "verify"
        /\ v3' = [v3 EXCEPT !["u"] = v3["u"] + 1] /\ (v4' = v4 \/ v4' = [v4 EXCEPT !["u"] = TRUE])
    BY <1>7, <1>s DEF Pho!WrongCounted, Pho!client
  <2>2. Fine'
    <3>1. v3["u"] + 1 \in Nat /\ v3' \in [{"u"} -> Nat] /\ UNCHANGED <<v1, v2, v5, v7, v8>>
      BY <1>t, <2>1
    <3>2. v4' \in [{"u"} -> BOOLEAN]
      BY <1>t, <2>1
    <3> QED
      BY <1>t, <3>1, <3>2
  <2> HIDE DEF Fine
  <2> QED
    BY <1>g, <2>1, <2>2
<1>8. CASE Pho!LockedDeleted(c) \/ Pho!RightDeleted(c)
  <2>1. /\ Pho!Goto(c, "refused") \/ Pho!Goto(c, "saving")
        /\ UNCHANGED <<v1, v4, v5, v7, v8, v9, v10>> /\ v11[c].kind = "verify"
        /\ v2' = [v2 EXCEPT !["u"] = Pho!NoCode] /\ v3' = [v3 EXCEPT !["u"] = 0]
    BY <1>8, <1>s DEF Pho!LockedDeleted, Pho!RightDeleted, Pho!client
  <2>2. Fine'
    BY <1>t, <2>1, PhoneSorts
  <2> HIDE DEF Fine
  <2> QED
    BY <1>g, <2>1, <2>2
<1>9. CASE Pho!Verified(c)
  <2> DEFINE new == [phone |-> "p", verified |-> TRUE]
  <2>1. /\ UNCHANGED <<v2, v3, v4, v5, v7, v8, v9, v10>> /\ v11[c].kind = "verify"
        /\ \/ Pho!Goto(c, "refused") /\ v1' = v1
           \/ Pho!Goto(c, "ok") /\ v1' = [v1 EXCEPT !["u"] = new]
    BY <1>9, <1>s DEF Pho!Verified, Pho!client, Pho!keys
  <2>2. new \in Accounts /\ new.verified /\ new.phone # "none"
    BY DEF Accounts
  <2> HIDE DEF new
  <2>3. CASE Pho!Goto(c, "refused") /\ v1' = v1
    BY <1>t, <1>g, <2>1, <2>3
  <2>4. CASE Pho!Goto(c, "ok") /\ v1' = [v1 EXCEPT !["u"] = new]
    <3>1. Fine' /\ v1'["u"] = new
      BY <1>t, <2>1, <2>2, <2>4
    <3> HIDE DEF Fine
    <3> QED
      BY <1>g, <2>1, <2>2, <2>4, <3>1
  <2> QED
    BY <2>1, <2>3, <2>4
<1>10. CASE Pho!Lost(c)
  <2>1. /\ Pho!Goto(c, "refused") /\ UNCHANGED <<v1, v2, v3, v4, v5, v7, v8, v9, v10>> /\ v11[c].kind # "idle"
    BY <1>10, <1>t DEF Pho!Lost, Pho!client, Pho!keys, SendFits
  <2> QED
    BY <1>t, <1>g, <2>1
<1> QED
  BY <1>1, <1>2, <1>3, <1>4, <1>5, <1>6, <1>7, <1>8, <1>9, <1>10

\* A card hears its answer.
LEMMA PhoneHeard ==
  ASSUME PhoneInv, NEW c \in C, Pho!SentOk(c) \/ Pho!VerifiedOk(c) \/ Pho!Refused(c)
  PROVE  PhoneInv'
<1>t. /\ v11 \in [C -> PhoneCalls] /\ v11[c] \in PhoneCalls /\ SendFits(v11[c]) /\ v8 \in 0..CodeBound /\ v8 \in Nat
      /\ v9 \in [{"t", "s"} -> Cards] /\ v10 \subseteq {"u"} /\ CardsRight /\ v11[c].code.n \in Nat
      /\ \A t \in {"t", "s"} : v9[t].wait <= v8
  BY PhoneSorts DEF PhoneInv, PhoneTyped, PhoneCalls
<1>1. ASSUME v11' = [v11 EXCEPT ![c] = Pho!NoCall], UNCHANGED <<v1, v2, v3, v4, v5, v7, v8>>,
             v9' \in [{"t", "s"} -> Cards], \A t \in {"t", "s"} : v9'[t].wait <= v8 /\ v9'[t].input = v9[t].input,
             v10' \subseteq {"u"}, "u" \in v10' => v1["u"].verified,
             \A t \in {"t", "s"} : /\ v9'[t].stage = "done" => v1["u"].verified
                                   /\ v9'[t].stage = "sent" => v9[t].input = "p"
      PROVE  PhoneInv'
  <2>1. /\ v11' \in [C -> PhoneCalls] /\ v11'[c] = Pho!NoCall /\ \A d \in C \ {c} : v11'[d] = v11[d]
    BY <1>1, <1>t, PhoneSorts
  <2>2. PhoneTyped'
    BY <1>1, <2>1 DEF PhoneInv, PhoneTyped
  <2>3. SendFits(v11[c])'
    BY <1>1, <2>1, <1>t, PhoneSorts DEF SendFits
  <2>4. CardsRight'
    BY <1>1, <2>1, <1>t, PhoneSorts DEF CardsRight
  <2> QED
    BY <1>1, <1>t, <2>1, <2>2, <2>3, <2>4, PhoneOne
<1>2. CASE Pho!SentOk(c)
  <2>1. /\ v11[c].kind = "send" /\ v11' = [v11 EXCEPT ![c] = Pho!NoCall] /\ UNCHANGED <<v1, v2, v3, v4, v5, v7, v8, v10>>
        /\ v9' = IF ~v11[c].heard THEN v9 ELSE [v9 EXCEPT ![v11[c].t].stage = "sent", ![v11[c].t].wait = v11[c].code.n]
    BY <1>2 DEF Pho!SentOk, Pho!Step, Pho!keys
  <2>2. v11[c].t \in {"t", "s"} /\ v11[c].code.n <= v8 /\ (v11[c].heard => v9[v11[c].t].input = "p")
    BY <2>1, <1>t DEF SendFits, CardsRight
  <2>3. CASE ~v11[c].heard
    BY <1>1, <1>t, <2>1, <2>3 DEF CardsRight
  <2>4. CASE v11[c].heard
    <3> DEFINE t == v11[c].t
               new == [v9[t] EXCEPT !.stage = "sent", !.wait = v11[c].code.n]
    <3>1. new \in Cards /\ new.stage = "sent" /\ new.wait = v11[c].code.n /\ new.input = v9[t].input
      BY <1>t, <2>2 DEF Cards
    <3>2. v9' = [v9 EXCEPT ![t] = new]
      BY <1>t, <2>1, <2>2, <2>4
    <3> HIDE DEF new
    <3>3. v9' \in [{"t", "s"} -> Cards] /\ v9'[t] = new /\ \A u \in {"t", "s"} \ {t} : v9'[u] = v9[u]
      BY <1>t, <2>2, <3>1, <3>2
    <3> QED
      BY <1>1, <1>t, <2>1, <2>2, <2>4, <3>1, <3>3 DEF CardsRight
  <2> QED
    BY <2>3, <2>4
<1>3. CASE Pho!VerifiedOk(c)
  <2>1. /\ v11[c].kind = "verify" /\ v11[c].step = "ok" /\ v11' = [v11 EXCEPT ![c] = Pho!NoCall]
        /\ UNCHANGED <<v1, v2, v3, v4, v5, v7, v8>> /\ v10' = v10 \cup {Pho!User(c)}
        /\ v9' = IF v11[c].heard THEN [v9 EXCEPT ![v11[c].t].stage = "done"] ELSE v9
    BY <1>3 DEF Pho!VerifiedOk, Pho!Step, Pho!keys
  <2>2. v11[c].t \in {"t", "s"} /\ v1["u"].verified /\ Pho!User(c) = "u"
    BY <2>1, <1>t, PhoneUser DEF SendFits
  <2>3. v9' \in [{"t", "s"} -> Cards] /\ \A u \in {"t", "s"} :
          /\ v9'[u].wait = v9[u].wait /\ v9'[u].input = v9[u].input /\ v9'[u].stage \in {v9[u].stage, "done"}
    BY <1>t, <2>1, <2>2 DEF Cards
  <2> QED
    BY <1>1, <1>t, <2>1, <2>2, <2>3 DEF CardsRight
<1>4. CASE Pho!Refused(c)
  <2>1. v11' = [v11 EXCEPT ![c] = Pho!NoCall] /\ UNCHANGED <<v1, v2, v3, v4, v5, v7, v8, v9, v10>>
    BY <1>4 DEF Pho!Refused, Pho!AfterRefusal, Pho!keys
  <2> QED
    BY <1>1, <1>t, <2>1 DEF CardsRight
<1> QED
  BY <1>2, <1>3, <1>4

\* What the user does on a card.
LEMMA PhonePosts ==
  ASSUME PhoneInv, NEW c \in C, NEW t \in {"t", "s"}, NEW kind \in {"send", "verify"}, NEW k \in AnyCode,
         Pho!Post(t, c, kind, k), v9[t].input = "p", k.n <= v8
  PROVE  PhoneInv'
<1> DEFINE r == [kind |-> kind, t |-> t, phone |-> v9[t].input, code |-> k, step |-> "sent", heard |-> TRUE]
<1>1. /\ r \in PhoneCalls /\ r.kind = kind /\ r.t = t /\ r.phone = "p" /\ r.code = k /\ r.step = "sent"
  BY DEF PhoneCalls
<1>2. v11' = [v11 EXCEPT ![c] = r] /\ UNCHANGED <<v1, v2, v3, v4, v5, v7, v8, v9, v10>>
  BY DEF Pho!Post, Pho!keys, Pho!client
<1> HIDE DEF r
<1>3. v11' \in [C -> PhoneCalls] /\ v11'[c] = r /\ \A d \in C \ {c} : v11'[d] = v11[d]
  BY <1>1, <1>2 DEF PhoneInv, PhoneTyped
<1>4. PhoneTyped'
  BY <1>2, <1>3 DEF PhoneInv, PhoneTyped
<1>5. SendFits(v11[c])'
  BY <1>1, <1>2, <1>3 DEF SendFits
<1>6. CardsRight'
  BY <1>1, <1>2, <1>3 DEF PhoneInv, CardsRight
<1>7. v8 <= v8'
  BY <1>2, PhoneSorts DEF PhoneInv, PhoneTyped
<1> QED
  BY <1>2, <1>3, <1>4, <1>5, <1>6, <1>7, PhoneOne

LEMMA PhoneActs ==
  ASSUME PhoneInv, NEW t \in {"t", "s"},
         Pho!Mount(t) \/ Pho!NewCode(t) \/ Pho!WaitEnds(t) \/ \E p \in {"p"} : Pho!TypePhone(t, p)
  PROVE  PhoneInv'
<1>t. /\ v11 \in [C -> PhoneCalls] /\ v8 \in Nat /\ v9 \in [{"t", "s"} -> Cards] /\ CardsRight
      /\ v1 \in [{"u"} -> Accounts] /\ \A u \in {"t", "s"} : v9[u].wait <= v8 /\ v9[u] \in Cards
  BY PhoneSorts DEF PhoneInv, PhoneTyped
<1>1. ASSUME NEW card \in Cards, v9' = [v9 EXCEPT ![t] = card], UNCHANGED <<v1, v2, v3, v4, v5, v7, v8, v10>>,
             v11' \in [C -> PhoneCalls],
             \A c \in C : v11'[c] = v11[c] \/ v11'[c] = [v11[c] EXCEPT !.heard = FALSE],
             card.wait <= v8, card.stage = "done" => v1["u"].verified, card.stage = "sent" => card.input = "p",
             card.input = "p" \/ card.input = v9[t].input \/ \A c \in C : v11'[c].t = t => ~v11'[c].heard
      PROVE  PhoneInv'
  <2>1. v9' \in [{"t", "s"} -> Cards] /\ v9'[t] = card /\ \A u \in {"t", "s"} \ {t} : v9'[u] = v9[u]
    BY <1>1, <1>t
  <2>2. \A c \in C : /\ v11'[c].kind = v11[c].kind /\ v11'[c].t = v11[c].t /\ v11'[c].step = v11[c].step
                     /\ v11'[c].code = v11[c].code /\ v11'[c].phone = v11[c].phone
                     /\ v11'[c].heard => v11[c].heard
    BY <1>1, <1>t DEF PhoneCalls
  <2>3. PhoneTyped'
    BY <1>1, <2>1, <1>t DEF PhoneInv, PhoneTyped
  <2>4. \A c \in C : SendFits(v11[c])'
    BY <1>1, <2>2 DEF PhoneInv, SendFits
  <2>5. CardsRight'
    BY <1>1, <2>1, <2>2, <1>t DEF CardsRight
  <2> QED
    BY <2>3, <2>4, <2>5 DEF PhoneInv
<1>2. CASE Pho!Mount(t)
  <2> DEFINE card == Pho!Card(t)
  <2>1. /\ v9' = [v9 EXCEPT ![t] = card] /\ UNCHANGED <<v1, v2, v3, v4, v5, v7, v8, v10>>
        /\ v11' = [c \in C |-> IF v11[c].t = t THEN [v11[c] EXCEPT !.heard = FALSE] ELSE v11[c]]
    BY <1>2 DEF Pho!Mount, Pho!keys
  <2>2. /\ card \in Cards /\ card.wait = 0 /\ card.stage # "sent" /\ (card.stage = "done" => v1["u"].verified)
    BY <1>t DEF Pho!Card, Cards, CardsRight, Accounts
  <2>3. \A c \in C : [v11[c] EXCEPT !.heard = FALSE] \in PhoneCalls /\ ~[v11[c] EXCEPT !.heard = FALSE].heard
    BY <1>t DEF PhoneCalls
  <2>4. v11' \in [C -> PhoneCalls] /\ \A c \in C : v11'[c].t = t => ~v11'[c].heard
    <3>1. \A c \in C : v11[c].t = t => ~v11'[c].heard
      BY <2>1, <2>3
    <3>2. \A c \in C : v11'[c].t = v11[c].t
      BY <2>1, <1>t DEF PhoneCalls
    <3>3. v11' \in [C -> PhoneCalls]
      BY <2>1, <2>3, <1>t
    <3> QED
      BY <3>1, <3>2, <3>3
  <2>5. PICK new \in Cards : new = card
    BY <2>2
  <2> HIDE DEF card
  <2>6. \A c \in C : v11'[c] = v11[c] \/ v11'[c] = [v11[c] EXCEPT !.heard = FALSE]
    BY <2>1
  <2>7. new.wait <= v8
    BY <1>t, <2>2, <2>5
  <2> QED
    BY <1>1, <2>1, <2>2, <2>4, <2>5, <2>6, <2>7
<1>3. ASSUME NEW card \in Cards, v9' = [v9 EXCEPT ![t] = card],
             UNCHANGED <<v1, v2, v3, v4, v5, v7, v8, v10, v11>>,
             card.wait <= v8, card.stage # "idle" => card.stage = v9[t].stage, card.input \in {v9[t].input, "p"}
      PROVE  PhoneInv'
  BY <1>1, <1>3, <1>t DEF CardsRight
<1>4. CASE Pho!NewCode(t)
  <2> DEFINE card == [v9[t] EXCEPT !.stage = "idle"]
  <2>1. /\ card \in Cards /\ card.wait = v9[t].wait /\ card.stage = "idle" /\ card.input = v9[t].input
        /\ v9' = [v9 EXCEPT ![t] = card] /\ UNCHANGED <<v1, v2, v3, v4, v5, v7, v8, v10, v11>>
    BY <1>4, <1>t DEF Pho!NewCode, Cards, Pho!keys
  <2>2. PICK new \in Cards : new = card
    BY <2>1
  <2> HIDE DEF card
  <2> QED
    BY <1>3, <1>t, <2>1, <2>2
<1>5. CASE Pho!WaitEnds(t)
  <2> DEFINE card == [v9[t] EXCEPT !.wait = 0]
  <2>1. /\ card \in Cards /\ card.wait = 0 /\ card.stage = v9[t].stage /\ card.input = v9[t].input
        /\ v9' = [v9 EXCEPT ![t] = card] /\ UNCHANGED <<v1, v2, v3, v4, v5, v7, v8, v10, v11>>
    BY <1>5, <1>t DEF Pho!WaitEnds, Cards, Pho!keys
  <2>2. PICK new \in Cards : new = card
    BY <2>1
  <2> HIDE DEF card
  <2>3. /\ new.wait <= v8 /\ new.stage = v9[t].stage /\ new.input = v9[t].input /\ v9' = [v9 EXCEPT ![t] = new]
        /\ UNCHANGED <<v1, v2, v3, v4, v5, v7, v8, v10, v11>>
    BY <1>t, <2>1, <2>2
  <2> QED
    BY <1>3, <2>3
<1>6. CASE Pho!TypePhone(t, "p")
  <2> DEFINE card == [v9[t] EXCEPT !.input = "p"]
  <2>1. /\ card \in Cards /\ card.wait = v9[t].wait /\ card.stage = v9[t].stage /\ card.input = "p"
        /\ v9' = [v9 EXCEPT ![t] = card] /\ UNCHANGED <<v1, v2, v3, v4, v5, v7, v8, v10, v11>>
    BY <1>6, <1>t DEF Pho!TypePhone, Cards, Pho!keys
  <2>2. PICK new \in Cards : new = card
    BY <2>1
  <2> HIDE DEF card
  <2> QED
    BY <1>3, <1>t, <2>1, <2>2
<1> QED
  BY <1>2, <1>4, <1>5, <1>6

\* Keys run out, and the profile changes the phone.
LEMMA PhoneForgets ==
  ASSUME PhoneInv,
         \E u \in {"u"} : Pho!KeyExpires(u) \/ Pho!CooldownEnds(u) \/ \E p \in {"p"} : Pho!update_profile(u, p)
  PROVE  PhoneInv'
<1>t. /\ v1 \in [{"u"} -> Accounts] /\ v2 \in [{"u"} -> AnyCode] /\ v4 \in [{"u"} -> BOOLEAN] /\ v5 \in [{"u"} -> Nat]
      /\ v8 \in Nat
  BY PhoneSorts DEF PhoneInv, PhoneTyped
<1>1. ASSUME UNCHANGED <<v3, v7, v8, v9, v10, v11>>, v1' \in [{"u"} -> Accounts], v2' \in [{"u"} -> AnyCode],
             v4' \in [{"u"} -> BOOLEAN], v5' \in [{"u"} -> Nat], v5'["u"] <= v8,
             v1'["u"].verified <=> v1["u"].verified, v1'["u"].verified => v1'["u"].phone # "none"
      PROVE  PhoneInv'
  <2>1. PhoneTyped'
    BY <1>1 DEF PhoneInv, PhoneTyped
  <2>2. \A c \in C : SendFits(v11[c])'
    BY <1>1 DEF PhoneInv, SendFits
  <2>3. CardsRight'
    BY <1>1 DEF PhoneInv, CardsRight
  <2> QED
    BY <2>1, <2>2, <2>3 DEF PhoneInv
<1>2. CASE Pho!KeyExpires("u") \/ Pho!CooldownEnds("u")
  <2>1. /\ UNCHANGED <<v1, v3, v7, v8, v9, v10, v11>>
        /\ v2' = v2 \/ v2' = [v2 EXCEPT !["u"] = Pho!NoCode]
        /\ v4' = v4 \/ v4' = [v4 EXCEPT !["u"] = FALSE]
        /\ v5' = v5 \/ v5' = [v5 EXCEPT !["u"] = 0]
    BY <1>2 DEF Pho!KeyExpires, Pho!CooldownEnds, Pho!client
  <2>2. v2' \in [{"u"} -> AnyCode] /\ v4' \in [{"u"} -> BOOLEAN]
    BY <2>1, <1>t, PhoneSorts
  <2>3. v5' \in [{"u"} -> Nat] /\ v5'["u"] <= v8
    BY <2>1, <1>t DEF PhoneInv, PhoneTyped
  <2> QED
    BY <1>1, <2>1, <2>2, <2>3 DEF PhoneInv, PhoneTyped
<1>3. CASE Pho!update_profile("u", "p")
  <2>1. v1' = [v1 EXCEPT !["u"].phone = "p"] /\ UNCHANGED <<v2, v3, v4, v5, v7, v8, v9, v10, v11>>
    BY <1>3 DEF Pho!update_profile, Pho!keys, Pho!client
  <2> DEFINE new == [v1["u"] EXCEPT !.phone = "p"]
  <2>2. new \in Accounts /\ (new.verified <=> v1["u"].verified) /\ new.phone = "p" /\ v1' = [v1 EXCEPT !["u"] = new]
    BY <2>1, <1>t DEF Accounts
  <2> HIDE DEF new
  <2>3. v1' \in [{"u"} -> Accounts] /\ v1'["u"] = new
    BY <2>2, <1>t
  <2> QED
    BY <1>1, <1>t, <2>1, <2>2, <2>3 DEF PhoneInv, PhoneTyped
<1> QED
  BY <1>2, <1>3

LEMMA PhoneNext == PhoneInv /\ Pho!Next => PhoneInv'
<1> SUFFICES ASSUME PhoneInv, Pho!Next PROVE PhoneInv'
  OBVIOUS
<1>t. v8 \in Nat /\ v7["u"] \in AnyCode /\ v7["u"].n <= v8 /\ Pho!NoCode \in AnyCode /\ Pho!NoCode.n <= v8
  BY PhoneSorts DEF PhoneInv, PhoneTyped
<1>1. ASSUME NEW t \in {"t", "s"}, NEW c \in C, Pho!handleSendOtp(t, c) PROVE PhoneInv'
  <2>1. v9[t].input = "p"
    BY <1>1 DEF Pho!handleSendOtp, PhoneInv, PhoneTyped, Cards, Pho!None
  <2> QED
    BY <1>1, <1>t, <2>1, PhonePosts DEF Pho!handleSendOtp
<1>2. ASSUME NEW t \in {"t", "s"}, NEW c \in C, NEW k \in AnyCode, k.n <= v8, Pho!handleVerify(t, c, k) PROVE PhoneInv'
  <2>1. v9[t].input = "p"
    BY <1>2 DEF Pho!handleVerify, PhoneInv, CardsRight
  <2> QED
    BY <1>2, <1>t, <2>1, PhonePosts DEF Pho!handleVerify
<1>3. PICK new \in AnyCode : new = v7["u"]
  BY <1>t
<1>4. \A t \in {"t", "s"}, c \in C : Pho!handleVerify(t, c, v7[[t |-> "u", s |-> "u"][t]]) => PhoneInv'
  <2>1. \A t \in {"t", "s"} : [t |-> "u", s |-> "u"][t] = "u"
    OBVIOUS
  <2> QED
    BY <1>t, <1>2, <1>3, <2>1
<1>5. \A t \in {"t", "s"}, c \in C : Pho!handleVerify(t, c, Pho!NoCode) => PhoneInv'
  BY <1>t, <1>2
<1> QED
  BY <1>1, <1>4, <1>5, PhoneServed, PhoneHeard, PhoneActs, PhoneForgets DEF Pho!Next, Pho!Serve

LEMMA PhoneSays == PhoneInv => Pho!TypeOK /\ Pho!DoneIsVerified
<1> SUFFICES ASSUME PhoneInv PROVE Pho!TypeOK /\ Pho!DoneIsVerified
  OBVIOUS
<1>1. \A t \in {"t", "s"} : [t |-> "u", s |-> "u"][t] = "u"
  OBVIOUS
<1>2. Pho!DoneIsVerified
  BY <1>1 DEF PhoneInv, CardsRight, Pho!DoneIsVerified
<1>3. v5 \in [{"u"} -> 0..v8]
  BY PhoneSorts DEF PhoneInv, PhoneTyped
<1>4. v9 \in [{"t", "s"} -> [stage : {"idle", "sent", "done"}, input : {"p"} \cup {Pho!None}, wait : 0..v8]]
  BY PhoneSorts DEF PhoneInv, PhoneTyped, Cards
<1>5. v1 \in [{"u"} -> [phone : {"p"} \cup {Pho!None}, verified : BOOLEAN]]
  BY PhoneSorts DEF PhoneInv, PhoneTyped, Accounts
<1> QED
  BY <1>2, <1>3, <1>4, <1>5, PhoneSorts DEF PhoneInv, PhoneTyped, Pho!TypeOK, AnyCode

LEMMA PhoneStill == PhoneInv /\ UNCHANGED <<v1, v2, v3, v4, v5, v7, v8, v9, v10, v11>> => PhoneInv'
BY DEF PhoneInv, PhoneTyped, SendFits, CardsRight

-----------------------------------------------------------------------------
(* EditListing: v1 the listing, v2 the page, v3 the save, v4 the deletions, v5 the listing before. *)
Edi == INSTANCE EditListing WITH
  Photos <- X, Calls <- C, Acts <- Acts.edit,
  row <- v1, page <- v2, save <- v3, call <- v4, before <- v5

EditRows == [status : {"draft", "pending_review", "active"}, price : Edi!Prices, plate : Edi!Plates,
             edits : {0, 1}, vin : BOOLEAN, car : Edi!Cars, viewing : BOOLEAN, photos : SUBSET X, new : BOOLEAN]
EditFields == {"price", "plate", "car", "days", "files"}
EditPages == [at : {"loading", "form", "drafts"}, price : Edi!Prices, plate : Edi!Plates, car : Edi!Cars,
              days : BOOLEAN, files : {0, 1}, touched : SUBSET EditFields, photos : SUBSET X,
              deleting : X \cup {"none"}, submitting : BOOLEAN,
              said : {"none", "plate", "locked", "failed", "saved"}, failed : SUBSET X]
Updates == [price : Edi!Prices, plate : Edi!Plates, viewing : BOOLEAN, files : {0, 1}]
EditSaves == [at : {"none", "update", "upload", "windows"}, step : {"idle", "sent", "ok", "plate", "locked", "failed"},
              sent : Updates]
Deletions == [photo : X \cup {"none"}, step : {"idle", "sent", "ok", "failed"}, here : BOOLEAN]

EditTyped ==
  /\ v1 \in EditRows /\ v2 \in EditPages /\ v3 \in EditSaves /\ v4 \in [C -> Deletions]
  /\ v5.row \in EditRows

\* A save that goes on has its page, which says nothing yet.
OneSave ==
  /\ v2.submitting <=> v3.at # "none"
  /\ v3.at # "none" => v2.at = "form" /\ v2.said = "none"
  /\ v2.at = "loading" => v2.deleting = "none" /\ v2.said = "none"

Took == v1.price = v3.sent.price /\ (v3.sent.plate # 0 => v1.plate = v3.sent.plate)
AsBefore == v1.price = v5.row.price /\ v1.plate = v5.row.plate

\* An update that was admitted is in the listing, one that was refused changed nothing.
WholeOrNot ==
  /\ \/ v3.at \in {"upload", "windows"}
     \/ v3.at = "update" /\ v3.step = "ok"
     \/ v3.at = "none" /\ v2.said = "saved"
     => Took
  /\ v3.at = "update" /\ v3.step \in {"plate", "locked"} => AsBefore
  /\ v2.said \in {"plate", "locked"} => AsBefore

\* A photo said to be deleted is.
Hidden ==
  /\ v2.at = "form" => v1.photos \subseteq v2.photos
  /\ \A c \in C : v4[c].step = "ok" => v4[c].photo \notin v1.photos
  /\ \A c \in C : v4[c].step # "idle" => v4[c].photo \in X
ButtonWaits ==
  /\ v2.at = "form" /\ v2.deleting # "none" => \E c \in C : v4[c].photo = v2.deleting /\ v4[c].here

EditInv == EditTyped /\ OneSave /\ WholeOrNot /\ Hidden /\ ButtonWaits

LEMMA EditSorts ==
  /\ Edi!NoCall \in Deletions /\ Edi!NoCall.photo = "none" /\ Edi!NoCall.step = "idle" /\ Edi!None = "none"
  /\ Edi!NoSave \in EditSaves /\ Edi!NoSave.at = "none"
  /\ Edi!Loading \in EditPages /\ Edi!Loading.at = "loading" /\ ~Edi!Loading.submitting
  /\ Edi!Loading.said = "none" /\ Edi!Loading.deleting = "none"
BY DEF Edi!NoCall, Deletions, Edi!None, Edi!NoSave, EditSaves, Updates, Edi!Loading, EditPages, Edi!Prices,
       Edi!Plates, Edi!Cars, EditFields

LEMMA EditInit == Edi!Init => EditInv
<1> SUFFICES ASSUME Edi!Init PROVE EditInv
  OBVIOUS
<1>1. v1 \in EditRows
  BY DEF Edi!Init, EditRows, Edi!Prices, Edi!Plates, Edi!Cars
<1>2. v5.row = v1 /\ v2 = Edi!Loading /\ v3 = Edi!NoSave /\ v4 = [c \in C |-> Edi!NoCall]
  BY DEF Edi!Init
<1>3. EditTyped
  BY <1>1, <1>2, EditSorts DEF EditTyped
<1> QED
  BY <1>2, <1>3, EditSorts DEF EditInv, OneSave, WholeOrNot, Hidden, ButtonWaits

\* The page changes, and nothing else.
LEMMA EditDraws ==
  ASSUME EditInv, UNCHANGED <<v1, v3, v4, v5>>, v2' \in EditPages,
         v2'.submitting <=> v2.submitting, v2'.said = v2.said \/ v2'.said = "none",
         v2'.at = v2.at \/ (v2'.at # "loading" /\ v3.at = "none") \/ (v3.at = "none" /\ v2'.deleting = "none" /\ v2'.said = "none"),
         v2'.at = "form" => v1.photos \subseteq v2'.photos,
         v2'.deleting = v2.deleting \/ v2'.deleting = "none",
         v2'.at = "form" /\ v2'.deleting # "none" => v2.at = "form"
  PROVE  EditInv'
<1>1. EditTyped'
  BY DEF EditInv, EditTyped
<1>2. OneSave' /\ WholeOrNot'
  BY DEF EditInv, EditTyped, OneSave, WholeOrNot, Took, AsBefore
<1>3. Hidden' /\ ButtonWaits'
  BY DEF EditInv, Hidden, ButtonWaits
<1> QED
  BY <1>1, <1>2, <1>3 DEF EditInv

LEMMA EditPageActs ==
  ASSUME EditInv,
         \/ Edi!load \/ Edi!errorLoad \/ Edi!toggleDay \/ Edi!handleImageAdd \/ Edi!cancel
         \/ \E v \in Edi!Prices : Edi!setPrice(v)
         \/ \E v \in Edi!Plates : Edi!setLicensePlate(v)
         \/ \E v \in Edi!Cars : Edi!changeCar(v)
  PROVE  EditInv'
<1>t. /\ v1 \in EditRows /\ v2 \in EditPages /\ (v2.submitting <=> v3.at # "none") /\ v2.touched \in SUBSET EditFields
      /\ v2.at = "form" => v1.photos \subseteq v2.photos
      /\ v1.price \in Edi!Prices /\ v1.plate \in Edi!Plates /\ v1.car \in Edi!Cars /\ v1.photos \in SUBSET X
      /\ v2.at = "loading" => v3.at = "none" /\ v2.said = "none" /\ v2.deleting = "none"
  BY DEF EditInv, EditTyped, EditPages, OneSave, Hidden, EditRows
<1>1. CASE Edi!load
  <2>1. /\ v2' = [v2 EXCEPT !.at = "form", !.price = v1.price, !.plate = v1.plate, !.car = v1.car, !.photos = v1.photos]
        /\ UNCHANGED <<v1, v3, v4, v5>> /\ v2.at = "loading"
    BY <1>1 DEF Edi!load
  <2>2. /\ v2' \in EditPages /\ v2'.at = "form" /\ v2'.photos = v1.photos /\ v2'.said = v2.said
        /\ v2'.submitting = v2.submitting /\ v2'.deleting = v2.deleting
    BY <1>t, <2>1 DEF EditPages
  <2> QED
    BY <1>t, <2>1, <2>2, EditDraws
<1>2. CASE Edi!errorLoad \/ Edi!cancel
  <2>1. /\ v2' = [v2 EXCEPT !.at = "drafts"] /\ UNCHANGED <<v1, v3, v4, v5>> /\ v3.at = "none"
    BY <1>2, <1>t DEF Edi!errorLoad, Edi!cancel
  <2>2. /\ v2' \in EditPages /\ v2'.at = "drafts" /\ v2'.said = v2.said
        /\ v2'.submitting = v2.submitting /\ v2'.deleting = v2.deleting
    BY <1>t, <2>1 DEF EditPages
  <2> QED
    BY <1>t, <2>1, <2>2, EditDraws
<1>3. ASSUME NEW field \in EditFields, NEW p \in EditPages, v2.at = "form",
             p.at = v2.at, p.photos = v2.photos, p.said = v2.said, p.submitting = v2.submitting, p.deleting = v2.deleting,
             p.touched = v2.touched, v2' = [p EXCEPT !.touched = p.touched \cup {field}], UNCHANGED <<v1, v3, v4, v5>>
      PROVE  EditInv'
  <2>1. /\ v2' \in EditPages /\ v2'.at = v2.at /\ v2'.said = v2.said /\ v2'.photos = v2.photos
        /\ v2'.submitting = v2.submitting /\ v2'.deleting = v2.deleting
    BY <1>t, <1>3 DEF EditPages
  <2> QED
    BY <1>t, <1>3, <2>1, EditDraws
<1>4. CASE Edi!toggleDay
  <2> DEFINE p == [v2 EXCEPT !.days = ~@]
  <2>1. /\ p \in EditPages /\ p.at = v2.at /\ p.photos = v2.photos /\ p.said = v2.said /\ p.submitting = v2.submitting
        /\ p.deleting = v2.deleting /\ p.touched = v2.touched
    BY <1>t DEF EditPages
  <2>2. PICK q \in EditPages : q = p
    BY <2>1
  <2>3. /\ v2' = [q EXCEPT !.touched = q.touched \cup {"days"}] /\ UNCHANGED <<v1, v3, v4, v5>> /\ v2.at = "form"
    BY <1>4, <2>2 DEF Edi!toggleDay, Edi!Set
  <2> HIDE DEF p
  <2> QED
    BY <1>3, <2>1, <2>2, <2>3 DEF EditFields
<1>5. CASE Edi!handleImageAdd
  <2> DEFINE p == [v2 EXCEPT !.files = 1]
  <2>1. /\ p \in EditPages /\ p.at = v2.at /\ p.photos = v2.photos /\ p.said = v2.said /\ p.submitting = v2.submitting
        /\ p.deleting = v2.deleting /\ p.touched = v2.touched
    BY <1>t DEF EditPages
  <2>2. PICK q \in EditPages : q = p
    BY <2>1
  <2>3. /\ v2' = [q EXCEPT !.touched = q.touched \cup {"files"}] /\ UNCHANGED <<v1, v3, v4, v5>> /\ v2.at = "form"
    BY <1>5, <2>2 DEF Edi!handleImageAdd, Edi!Set
  <2> HIDE DEF p
  <2> QED
    BY <1>3, <2>1, <2>2, <2>3 DEF EditFields
<1>6. ASSUME NEW v \in Edi!Prices, Edi!setPrice(v) PROVE EditInv'
  <2> DEFINE p == [v2 EXCEPT !.price = v]
  <2>1. /\ p \in EditPages /\ p.at = v2.at /\ p.photos = v2.photos /\ p.said = v2.said /\ p.submitting = v2.submitting
        /\ p.deleting = v2.deleting /\ p.touched = v2.touched
    BY <1>t DEF EditPages
  <2>2. PICK q \in EditPages : q = p
    BY <2>1
  <2>3. /\ v2' = [q EXCEPT !.touched = q.touched \cup {"price"}] /\ UNCHANGED <<v1, v3, v4, v5>> /\ v2.at = "form"
    BY <1>6, <2>2 DEF Edi!setPrice, Edi!Set
  <2> HIDE DEF p
  <2> QED
    BY <1>3, <2>1, <2>2, <2>3 DEF EditFields
<1>7. ASSUME NEW v \in Edi!Plates, Edi!setLicensePlate(v) PROVE EditInv'
  <2> DEFINE p == [v2 EXCEPT !.plate = v]
  <2>1. /\ p \in EditPages /\ p.at = v2.at /\ p.photos = v2.photos /\ p.said = v2.said /\ p.submitting = v2.submitting
        /\ p.deleting = v2.deleting /\ p.touched = v2.touched
    BY <1>t DEF EditPages
  <2>2. PICK q \in EditPages : q = p
    BY <2>1
  <2>3. /\ v2' = [q EXCEPT !.touched = q.touched \cup {"plate"}] /\ UNCHANGED <<v1, v3, v4, v5>> /\ v2.at = "form"
    BY <1>7, <2>2 DEF Edi!setLicensePlate, Edi!Set
  <2> HIDE DEF p
  <2> QED
    BY <1>3, <2>1, <2>2, <2>3 DEF EditFields
<1>8. ASSUME NEW v \in Edi!Cars, Edi!changeCar(v) PROVE EditInv'
  <2> DEFINE p == [v2 EXCEPT !.car = v]
  <2>1. /\ p \in EditPages /\ p.at = v2.at /\ p.photos = v2.photos /\ p.said = v2.said /\ p.submitting = v2.submitting
        /\ p.deleting = v2.deleting /\ p.touched = v2.touched
    BY <1>t DEF EditPages
  <2>2. PICK q \in EditPages : q = p
    BY <2>1
  <2>3. /\ v2' = [q EXCEPT !.touched = q.touched \cup {"car"}] /\ UNCHANGED <<v1, v3, v4, v5>> /\ v2.at = "form"
    BY <1>8, <2>2 DEF Edi!changeCar, Edi!Set
  <2> HIDE DEF p
  <2> QED
    BY <1>3, <2>1, <2>2, <2>3 DEF EditFields
<1> QED
  BY <1>1, <1>2, <1>4, <1>5, <1>6, <1>7, <1>8

\* One deletion changes, and what the page shows of it.
LEMMA EditCalled ==
  ASSUME EditInv, NEW c \in C, NEW r \in Deletions, v4' = [v4 EXCEPT ![c] = r], UNCHANGED <<v3, v5>>,
         v1' \in EditRows, v1'.price = v1.price, v1'.plate = v1.plate, v1'.photos \subseteq v1.photos,
         v2' \in EditPages, v2'.at = v2.at, v2'.said = v2.said, v2'.submitting = v2.submitting,
         v2.at = "loading" => v2'.deleting = v2.deleting,
         v2'.at = "form" => v1'.photos \subseteq v2'.photos,
         r.step = "ok" => r.photo \notin v1'.photos, r.step # "idle" => r.photo \in X,
         v2'.at = "form" /\ v2'.deleting # "none" =>
           \/ r.photo = v2'.deleting /\ r.here
           \/ v2'.deleting = v2.deleting /\ (v4[c].here => r.photo = v4[c].photo /\ r.here)
  PROVE  EditInv'
<1>1. v4 \in [C -> Deletions] /\ v4'[c] = r /\ \A d \in C \ {c} : v4'[d] = v4[d]
  BY DEF EditInv, EditTyped
<1>2. EditTyped'
  BY <1>1 DEF EditInv, EditTyped
<1>3. OneSave'
  BY DEF EditInv, OneSave
<1>4. WholeOrNot'
  BY DEF EditInv, WholeOrNot, Took, AsBefore
<1>5. Hidden'
  BY <1>1 DEF EditInv, Hidden
<1>6. ButtonWaits'
  BY <1>1 DEF EditInv, ButtonWaits
<1> QED
  BY <1>2, <1>3, <1>4, <1>5, <1>6 DEF EditInv

LEMMA EditDeletes ==
  ASSUME EditInv, NEW c \in C,
         \/ \E p \in X : Edi!handleExistingImageDelete(c, p)
         \/ Edi!deleted(c) \/ Edi!delete_listing_image(c) \/ Edi!LostDeletion(c)
  PROVE  EditInv'
<1>t. /\ v1 \in EditRows /\ v2 \in EditPages /\ v4 \in [C -> Deletions] /\ v4[c] \in Deletions
      /\ v2.at = "form" => v1.photos \subseteq v2.photos
      /\ v4[c].step = "ok" => v4[c].photo \notin v1.photos
      /\ v4[c].step # "idle" => v4[c].photo \in X
      /\ v1.photos \in SUBSET X /\ v2.photos \in SUBSET X /\ v2.failed \in SUBSET X
      /\ Edi!None = "none"
  BY EditSorts DEF EditInv, EditTyped, EditPages, EditRows, Hidden
<1>1. ASSUME NEW p \in X, Edi!handleExistingImageDelete(c, p) PROVE EditInv'
  <2> DEFINE r == [Edi!NoCall EXCEPT !.photo = p, !.step = "sent"]
  <2>1. /\ v2.at = "form" /\ v4[c] = Edi!NoCall /\ v2' = [v2 EXCEPT !.deleting = p] /\ v4' = [v4 EXCEPT ![c] = r]
        /\ UNCHANGED <<v1, v3, v5>> /\ v2.deleting # p
    BY <1>1 DEF Edi!handleExistingImageDelete
  <2>2. r \in Deletions /\ r.photo = p /\ r.step = "sent" /\ r.here
    BY EditSorts DEF Edi!NoCall, Deletions
  <2> HIDE DEF r
  <2>3. PICK s \in Deletions : s = r
    BY <2>2
  <2>4. /\ v2' \in EditPages /\ v2'.at = "form" /\ v2'.said = v2.said /\ v2'.submitting = v2.submitting
        /\ v2'.photos = v2.photos /\ v2'.deleting = p
    BY <2>1, <1>t DEF EditPages
  <2> QED
    BY <1>t, <2>1, <2>2, <2>3, <2>4, EditCalled
<1>2. CASE Edi!deleted(c)
  <2>1. /\ v4[c].step \in {"ok", "failed"} /\ v4' = [v4 EXCEPT ![c] = Edi!NoCall] /\ UNCHANGED <<v1, v3, v5>>
        /\ v2' = IF ~(v4[c].here /\ v2.at = "form") THEN v2
                 ELSE IF v4[c].step = "ok" THEN [v2 EXCEPT !.deleting = "none", !.photos = @ \ {v4[c].photo}]
                 ELSE [v2 EXCEPT !.deleting = "none", !.failed = @ \cup {v4[c].photo}]
    BY <1>2, <1>t DEF Edi!deleted
  <2>2. PICK s \in Deletions : s = Edi!NoCall
    BY EditSorts
  <2>3. s.step = "idle"
    BY <2>2, EditSorts
  <2>4. CASE ~(v4[c].here /\ v2.at = "form")
    <3>1. v2' = v2
      BY <2>1, <2>4
    <3> QED
      BY <1>t, <2>1, <2>2, <2>3, <2>4, <3>1, EditCalled
  <2>5. CASE v4[c].here /\ v2.at = "form" /\ v4[c].step = "ok"
    <3>1. /\ v2' \in EditPages /\ v2'.at = "form" /\ v2'.said = v2.said /\ v2'.submitting = v2.submitting
          /\ v2'.photos = v2.photos \ {v4[c].photo} /\ v2'.deleting = "none"
      BY <1>t, <2>1, <2>5 DEF EditPages
    <3> QED
      BY <1>t, <2>1, <2>2, <2>3, <2>5, <3>1, EditCalled
  <2>6. CASE v4[c].here /\ v2.at = "form" /\ v4[c].step # "ok"
    <3>1. /\ v2'.at = "form" /\ v2'.said = v2.said /\ v2'.submitting = v2.submitting
          /\ v2'.photos = v2.photos /\ v2'.deleting = "none"
      BY <1>t, <2>1, <2>6 DEF EditPages
    <3>2. v4[c].photo \in X \cup {"none"} /\ v2' = [v2 EXCEPT !.deleting = "none", !.failed = @ \cup {v4[c].photo}]
      BY <1>t, <2>1, <2>6 DEF Deletions
    <3>3. v4[c].photo \in X
      BY <1>t, <2>1
    <3>4. v2' \in EditPages
      BY <1>t, <3>2, <3>3 DEF EditPages
    <3> QED
      BY <1>t, <2>1, <2>2, <2>3, <2>6, <3>1, <3>4, EditCalled
  <2> QED
    BY <2>4, <2>5, <2>6
<1>3. CASE Edi!delete_listing_image(c)
  <2> DEFINE r == [v4[c] EXCEPT !.step = IF v4[c].photo \in v1.photos THEN "ok" ELSE "failed"]
  <2>1. /\ v4[c].step = "sent" /\ v1' = [v1 EXCEPT !.photos = @ \ {v4[c].photo}] /\ UNCHANGED <<v2, v3, v5>>
        /\ v4' = [v4 EXCEPT ![c] = r]
    BY <1>3, <1>t DEF Edi!delete_listing_image
  <2>2. r \in Deletions /\ r.photo = v4[c].photo /\ r.here = v4[c].here
    BY <1>t DEF Deletions
  <2> HIDE DEF r
  <2>3. PICK s \in Deletions : s = r
    BY <2>2
  <2>4. v1' \in EditRows /\ v1'.price = v1.price /\ v1'.plate = v1.plate /\ v1'.photos = v1.photos \ {v4[c].photo}
    BY <1>t, <2>1 DEF EditRows
  <2> QED
    BY <1>t, <2>1, <2>2, <2>3, <2>4, EditCalled
<1>4. CASE Edi!LostDeletion(c)
  <2> DEFINE r == [v4[c] EXCEPT !.step = "failed"]
  <2>1. UNCHANGED <<v1, v2, v3, v5>> /\ v4' = [v4 EXCEPT ![c] = r] /\ v4[c].step \in {"sent", "ok"}
    BY <1>4, <1>t DEF Edi!LostDeletion
  <2>2. r \in Deletions /\ r.photo = v4[c].photo /\ r.here = v4[c].here /\ r.step = "failed"
    BY <1>t DEF Deletions
  <2> HIDE DEF r
  <2>3. PICK s \in Deletions : s = r
    BY <2>2
  <2> QED
    BY <1>t, <2>1, <2>2, <2>3, EditCalled
<1> QED
  BY <1>1, <1>2, <1>3, <1>4

\* A request of a save is sent, answered or lost, or the save ends.
LEMMA EditSaving ==
  ASSUME EditInv, UNCHANGED v4, v1' \in EditRows, v1'.photos = v1.photos, v5'.row \in EditRows,
         v2' \in EditPages, v2'.photos = v2.photos, v2'.deleting = v2.deleting, v2.at = "form",
         v2'.at \in {"form", "drafts"}, v3' \in EditSaves, v2'.submitting <=> v3'.at # "none",
         v3'.at # "none" => v2'.at = "form" /\ v2'.said = "none",
         WholeOrNot'
  PROVE  EditInv'
BY DEF EditInv, EditTyped, OneSave, Hidden, ButtonWaits

LEMMA EditSavesSteps ==
  ASSUME EditInv, \/ Edi!handleSubmit \/ Edi!updated \/ Edi!uploaded \/ Edi!saved
                  \/ Edi!edit_listing \/ Edi!upload_listing_image \/ Edi!Lost
  PROVE  EditInv'
<1>t. /\ v1 \in EditRows /\ v2 \in EditPages /\ v3 \in EditSaves /\ v5.row \in EditRows
      /\ v3.sent \in Updates /\ Edi!None = "none"
      /\ (v2.submitting <=> v3.at # "none") /\ (v3.at # "none" => v2.at = "form" /\ v2.said = "none")
      /\ WholeOrNot
  BY EditSorts DEF EditInv, EditTyped, EditSaves, OneSave
<1>1. CASE Edi!handleSubmit
  <2> DEFINE u == [price |-> v2.price, plate |-> v2.plate, viewing |-> v2.days, files |-> v2.files]
  <2>1. /\ v2.at = "form" /\ v2' = [v2 EXCEPT !.submitting = TRUE, !.said = "none"] /\ UNCHANGED <<v1, v4, v5>>
        /\ v3' = [at |-> "update", step |-> "sent", sent |-> u]
    BY <1>1, <1>t DEF Edi!handleSubmit
  <2>2. /\ v2' \in EditPages /\ v2'.at = "form" /\ v2'.photos = v2.photos /\ v2'.deleting = v2.deleting
        /\ v2'.submitting /\ v2'.said = "none"
    BY <1>t, <2>1 DEF EditPages
  <2>3. u \in Updates
    BY <1>t DEF EditPages, Updates
  <2> HIDE DEF u
  <2>4. v3' \in EditSaves /\ v3'.at = "update" /\ v3'.step = "sent"
    BY <2>1, <2>3 DEF EditSaves
  <2>5. WholeOrNot'
    BY <2>2, <2>4 DEF WholeOrNot
  <2> QED
    BY <1>t, <2>1, <2>2, <2>4, <2>5, EditSaving
<1>2. ASSUME NEW said \in {"plate", "locked", "failed", "saved"}, NEW at \in {"form", "drafts"},
             v3.at # "none", Edi!Ends(said, at), UNCHANGED <<v1, v4, v5>>,
             said = "saved" => Took, said \in {"plate", "locked"} => AsBefore
      PROVE  EditInv'
  <2>1. v3' \in EditSaves /\ v3'.at = "none" /\ v3'.step = "idle" /\ v3'.sent = v3.sent
    BY <1>2, <1>t DEF Edi!Ends, EditSaves
  <2>2. /\ v2' \in EditPages /\ v2'.at = at /\ v2'.photos = v2.photos /\ v2'.deleting = v2.deleting
        /\ ~v2'.submitting /\ v2'.said = said
    BY <1>2, <1>t DEF Edi!Ends, EditPages
  <2>3. WholeOrNot'
    BY <1>2, <2>1, <2>2 DEF WholeOrNot, Took, AsBefore
  <2> QED
    BY <1>2, <1>t, <2>1, <2>2, <2>3, EditSaving
<1>3. ASSUME NEW at \in {"upload", "windows"}, v3.at # "none", Edi!Step(at), Took, UNCHANGED <<v1, v2, v4, v5>>
      PROVE  EditInv'
  <2>1. v3' \in EditSaves /\ v3'.at = at /\ v3'.step = "sent" /\ v3'.sent = v3.sent
    BY <1>3, <1>t DEF Edi!Step, EditSaves
  <2>2. WholeOrNot'
    BY <1>3, <1>t, <2>1 DEF WholeOrNot, Took, AsBefore
  <2> QED
    BY <1>3, <1>t, <2>1, <2>2, EditSaving
<1>4. CASE Edi!updated
  <2>1. /\ v3.at = "update" /\ v3.step \in {"ok", "plate", "locked", "failed"} /\ UNCHANGED <<v1, v4, v5>>
        /\ IF v3.step = "ok" THEN Edi!Step("upload") /\ UNCHANGED v2 ELSE Edi!Ends(v3.step, "form")
    BY <1>4 DEF Edi!updated
  <2>2. /\ v3.step = "ok" => Took
        /\ v3.step \in {"plate", "locked"} => AsBefore
    BY <1>t, <2>1 DEF WholeOrNot
  <2>3. CASE v3.step = "ok"
    BY <1>3, <2>1, <2>2, <2>3
  <2>4. CASE v3.step # "ok"
    BY <1>2, <2>1, <2>2, <2>4
  <2> QED
    BY <2>3, <2>4
<1>5. CASE Edi!uploaded
  BY <1>3, <1>5, <1>t DEF Edi!uploaded, WholeOrNot
<1>6. CASE Edi!saved
  BY <1>2, <1>6, <1>t DEF Edi!saved, WholeOrNot
<1>7. CASE Edi!edit_listing
  <2>1. /\ v3.at = "update" /\ v3.step = "sent" /\ UNCHANGED <<v2, v4>>
        /\ v3' = [v3 EXCEPT !.step = IF Edi!Refusal = "none" THEN "ok" ELSE Edi!Refusal]
        /\ v1' = IF Edi!Refusal = "none" THEN Edi!Sets(v1, v3.sent) ELSE v1
        /\ v5' = [row |-> v1, edited |-> v5.edited \/ v1'.plate # v1.plate]
    BY <1>7, <1>t DEF Edi!edit_listing, Edi!Refused
  <2>2. Edi!Refusal \in {"none", "plate", "locked"} /\ (Edi!Refusal = "none" /\ v3.sent.plate # 0 => v1.edits = 0)
    BY <1>t DEF Edi!Refusal, EditRows
  <2>3. /\ v3' \in EditSaves /\ v3'.at = "update" /\ v3'.sent = v3.sent
        /\ v3'.step = IF Edi!Refusal = "none" THEN "ok" ELSE Edi!Refusal
    BY <1>t, <2>1, <2>2 DEF EditSaves
  <2>4. /\ v1' \in EditRows /\ v1'.photos = v1.photos
        /\ Edi!Refusal = "none" => v1'.price = v3.sent.price /\ (v3.sent.plate # 0 => v1'.plate = v3.sent.plate)
        /\ Edi!Refusal # "none" => v1' = v1
    <3> DEFINE new == Edi!Sets(v1, v3.sent)
               u == v3.sent
    <3>1. /\ u.price \in Edi!Prices /\ u.plate \in Edi!Plates /\ u.viewing \in BOOLEAN
          /\ v1.plate \in Edi!Plates /\ v1.edits \in {0, 1}
      BY <1>t DEF EditRows, Updates
    <3>2. ASSUME Edi!Refusal = "none" PROVE IF u.plate = 0 THEN v1.edits \in {0, 1} ELSE v1.edits + 1 \in {0, 1}
      BY <2>2, <3>1, <3>2
    <3>3. ASSUME Edi!Refusal = "none" PROVE new \in EditRows
      BY <1>t, <3>1, <3>2, <3>3 DEF Edi!Sets, EditRows
    <3>4. /\ new.photos = v1.photos /\ new.price = u.price /\ (u.plate # 0 => new.plate = u.plate)
      BY <1>t DEF Edi!Sets, EditRows
    <3> HIDE DEF new, u
    <3> QED
      BY <1>t, <2>1, <3>3, <3>4 DEF u, new
  <2>5. v5'.row = v1
    BY <2>1
  <2>6. WholeOrNot'
    BY <1>t, <2>1, <2>2, <2>3, <2>4, <2>5 DEF WholeOrNot, Took, AsBefore
  <2> QED
    BY <1>t, <2>1, <2>3, <2>4, <2>5, <2>6, EditSaving
<1>8. CASE Edi!upload_listing_image
  <2>1. /\ v3.at = "upload" /\ v1' = [v1 EXCEPT !.new = TRUE] /\ v3' = [v3 EXCEPT !.step = "ok"] /\ UNCHANGED <<v2, v4, v5>>
    BY <1>8 DEF Edi!upload_listing_image
  <2>2. v1' \in EditRows /\ v1'.photos = v1.photos /\ v1'.price = v1.price /\ v1'.plate = v1.plate
    BY <1>t, <2>1 DEF EditRows
  <2>3. v3' \in EditSaves /\ v3'.at = "upload" /\ v3'.sent = v3.sent
    BY <1>t, <2>1 DEF EditSaves
  <2>4. WholeOrNot'
    BY <1>t, <2>1, <2>2, <2>3 DEF WholeOrNot, Took, AsBefore
  <2> QED
    BY <1>t, <2>1, <2>2, <2>3, <2>4, EditSaving
<1>9. CASE Edi!Lost
  <2>1. v3.at \in {"update", "upload"} /\ v3' = [v3 EXCEPT !.step = "failed"] /\ UNCHANGED <<v1, v2, v4, v5>>
    BY <1>9 DEF Edi!Lost
  <2>2. v3' \in EditSaves /\ v3'.at = v3.at /\ v3'.sent = v3.sent /\ v3'.step = "failed"
    BY <1>t, <2>1 DEF EditSaves
  <2>3. WholeOrNot'
    BY <1>t, <2>1, <2>2 DEF WholeOrNot, Took, AsBefore
  <2> QED
    BY <1>t, <2>1, <2>2, <2>3, EditSaving
<1> QED
  BY <1>1, <1>4, <1>5, <1>6, <1>7, <1>8, <1>9

LEMMA EditMoves == EditInv /\ (Edi!open \/ Edi!Elsewhere) => EditInv'
<1> SUFFICES ASSUME EditInv, Edi!open \/ Edi!Elsewhere PROVE EditInv'
  OBVIOUS
<1>t. /\ v1 \in EditRows /\ v3 \in EditSaves /\ v4 \in [C -> Deletions]
      /\ v3.at # "none" => v2.at = "form"
  BY DEF EditInv, EditTyped, OneSave
<1>1. CASE Edi!open
  <2>1. /\ v2.at = "drafts" /\ v2' = Edi!Loading /\ UNCHANGED <<v1, v3, v5>>
        /\ v4' = [c \in C |-> IF v4[c] = Edi!NoCall THEN Edi!NoCall ELSE [v4[c] EXCEPT !.here = FALSE]]
    BY <1>1 DEF Edi!open
  <2>2. /\ v2' \in EditPages /\ v2'.at = "loading" /\ ~v2'.submitting /\ v2'.said = "none" /\ v2'.deleting = "none"
    BY <2>1, EditSorts
  <2>3. ASSUME NEW c \in C PROVE /\ v4'[c] \in Deletions /\ v4'[c].step = v4[c].step /\ v4'[c].photo = v4[c].photo
    BY <1>t, <2>1, EditSorts DEF Deletions
  <2>4. v4' \in [C -> Deletions]
    BY <2>1, <2>3
  <2>5. EditTyped' /\ OneSave'
    BY <1>t, <2>1, <2>2, <2>4 DEF EditInv, EditTyped, OneSave
  <2>6. WholeOrNot'
    BY <1>t, <2>1, <2>2 DEF EditInv, WholeOrNot, Took, AsBefore
  <2>7. Hidden' /\ ButtonWaits'
    BY <2>1, <2>2, <2>3 DEF EditInv, Hidden, ButtonWaits
  <2> QED
    BY <2>5, <2>6, <2>7 DEF EditInv
<1>2. CASE Edi!Elsewhere
  <2>1. UNCHANGED <<v2, v3, v4, v5>> /\ \E s \in {"pending_review", "active"} : v1' = [v1 EXCEPT !.status = s]
    BY <1>2 DEF Edi!Elsewhere
  <2>2. v1' \in EditRows /\ v1'.price = v1.price /\ v1'.plate = v1.plate /\ v1'.photos = v1.photos
    BY <1>t, <2>1 DEF EditRows
  <2>3. EditTyped' /\ OneSave' /\ WholeOrNot'
    BY <2>1, <2>2 DEF EditInv, EditTyped, OneSave, WholeOrNot, Took, AsBefore
  <2>4. Hidden' /\ ButtonWaits'
    BY <2>1, <2>2 DEF EditInv, Hidden, ButtonWaits
  <2> QED
    BY <2>3, <2>4 DEF EditInv
<1> QED
  BY <1>1, <1>2

LEMMA EditNext == EditInv /\ Edi!Next => EditInv'
BY EditPageActs, EditDeletes, EditSavesSteps, EditMoves DEF Edi!Next, Edi!Serve, Edi!Hear

LEMMA EditSays == EditInv => Edi!TypeOK /\ Edi!AllOrNothing /\ Edi!HiddenIsDeleted
<1>1. EditInv => Edi!TypeOK
  BY EditSorts DEF EditInv, EditTyped, OneSave, ButtonWaits, EditPages, EditRows, Edi!TypeOK
<1>2. EditInv => Edi!AllOrNothing
  BY DEF EditInv, WholeOrNot, Took, AsBefore, Edi!AllOrNothing
<1>3. EditInv => Edi!HiddenIsDeleted
  BY DEF EditInv, Hidden, Edi!HiddenIsDeleted
<1> QED
  BY <1>1, <1>2, <1>3

LEMMA EditStill == EditInv /\ UNCHANGED <<v1, v2, v3, v4, v5>> => EditInv'
BY DEF EditInv, EditTyped, OneSave, WholeOrNot, Took, AsBefore, Hidden, ButtonWaits

-----------------------------------------------------------------------------
(* Notifications: v1 the rows, v2 their order, v3 the bells, v4 the requests, v5 the bells *)
(* that asked for two things at once.                                                      *)
Bel == INSTANCE Notifications WITH
  Bells <- X, Notes <- Y, Calls <- C, Limit <- 1,
  rows <- v1, newest <- v2, bell <- v3, call <- v4, mixed <- v5

Reading == {"unread", "read"}
\* What a bell draws, or a list has: of some notifications whether they are read.
Drawings == UNION {[S -> Reading] : S \in SUBSET Y}
BellSet == [items : Drawings, open : BOOLEAN]
BellCalls == [kind : {"idle", "list", "one", "all"}, b : X \cup {"none"}, n : Y \cup {"none"},
              step : {"idle", "sent", "ok", "failed"}, data : Drawings, heard : BOOLEAN]

BellTyped ==
  /\ v1 \in [Y -> Reading \cup {"none"}] /\ v2 \in Seq(Y)
  /\ v3 \in [X -> BellSet] /\ v4 \in [C -> BellCalls] /\ v5 \subseteq X
  /\ \A c \in C : /\ v4[c].kind = "idle" => v4[c].step = "idle"
                  /\ v4[c].kind = "one" => v4[c].n \in Y
                  /\ v4[c].heard => v4[c].b \in X

Existing == {n \in Y : v1[n] # "none"}
Few(f) == \A n, m \in DOMAIN f : n = m
Sound(f) == DOMAIN f \subseteq Existing /\ Few(f)
Told(f) == \A n \in DOMAIN f : f[n] = "read" => v1[n] = "read"

\* Every list is of notifications that exist, and says of none that it is read that is not;
\* what a mark answered for is read.
Answers ==
  /\ \A i \in 1..Len(v2) : v2[i] \in Existing
  /\ \A b \in X : Sound(v3[b].items)
  /\ \A c \in C : /\ Sound(v4[c].data) /\ Told(v4[c].data)
                  /\ v4[c].step = "ok" /\ v4[c].kind = "one" => v1[v4[c].n] = "read"

\* A bell that asks one thing at a time has one request, and draws what it had when it asked.
OneAtATime ==
  \A b \in X \ v5 :
    /\ \A c, d \in Bel!Of(b) : c = d
    /\ Told(v3[b].items)
    /\ \A c \in Bel!Of(b) : v4[c].step = "ok" /\ v4[c].kind = "all"
         => \A n \in DOMAIN v3[b].items : v1[n] = "read"

BellInv == BellTyped /\ Answers /\ OneAtATime

LEMMA BellSorts ==
  /\ <<>> \in Drawings /\ Bel!Empty \in BellSet /\ Bel!NoCall \in BellCalls
  /\ DOMAIN <<>> = {} /\ Bel!Empty.items = <<>>
  /\ Bel!NoCall.kind = "idle" /\ Bel!NoCall.heard = FALSE /\ Bel!NoCall.data = <<>>
  /\ Bel!NoCall.step = "idle"
<1>1. <<>> \in [{} -> Reading] /\ DOMAIN <<>> = {}
  OBVIOUS
<1>2. <<>> \in Drawings
  BY <1>1 DEF Drawings
<1> QED
  BY <1>1, <1>2 DEF Bel!Empty, BellSet, Bel!NoCall, BellCalls

LEMMA DrawingFacts ==
  ASSUME NEW f \in Drawings
  PROVE  DOMAIN f \subseteq Y /\ \A n \in DOMAIN f : f[n] \in Reading
BY DEF Drawings

LEMMA DrawingMade ==
  ASSUME NEW S \in SUBSET Y, NEW g, \A n \in S : g[n] \in Reading
  PROVE  [n \in S |-> g[n]] \in Drawings /\ DOMAIN [n \in S |-> g[n]] = S
BY DEF Drawings

LEMMA BellInit == Bel!Init => BellInv
<1> SUFFICES ASSUME Bel!Init PROVE BellInv
  OBVIOUS
<1>1. BellTyped
  BY BellSorts DEF Bel!Init, BellTyped
<1>2. Answers /\ OneAtATime
  BY BellSorts DEF Bel!Init, Answers, OneAtATime, Sound, Few, Told, Bel!Of
<1> QED
  BY <1>1, <1>2 DEF BellInv

\* A request is sent: the bell had none, or is one that asked for two things at once.
LEMMA BellSends ==
  ASSUME BellInv, NEW c \in C, NEW kind \in {"list", "one", "all"}, NEW b \in X,
         NEW n \in Y \cup {"none"}, kind = "one" => n \in Y,
         Bel!Send(c, kind, b, n), UNCHANGED <<v1, v2>>,
         v3' \in [X -> BellSet], \A a \in X : v3'[a].items = v3[a].items
  PROVE  BellInv'
<1> DEFINE r == [Bel!NoCall EXCEPT !.kind = kind, !.b = b, !.n = n, !.step = "sent", !.heard = TRUE]
<1>1. /\ r \in BellCalls /\ r.kind = kind /\ r.b = b /\ r.n = n /\ r.step = "sent" /\ r.heard /\ r.data = <<>>
      /\ r # Bel!NoCall
  BY BellSorts DEF Bel!NoCall, BellCalls
<1>2. /\ v4[c] = Bel!NoCall /\ v4' = [v4 EXCEPT ![c] = r]
      /\ v5' = IF Bel!Of(b) # {} THEN v5 \cup {b} ELSE v5
  BY DEF Bel!Send
<1> HIDE DEF r
<1>3. v4 \in [C -> BellCalls] /\ v4' \in [C -> BellCalls] /\ v4'[c] = r /\ \A d \in C \ {c} : v4'[d] = v4[d]
  BY <1>1, <1>2 DEF BellInv, BellTyped
<1>4. BellTyped'
  BY <1>1, <1>2, <1>3 DEF BellInv, BellTyped
<1>5. Answers'
  BY <1>1, <1>3, BellSorts DEF BellInv, Answers, Sound, Told, Few, Existing
<1>6. OneAtATime'
  <2>1. ASSUME NEW a \in X \ v5' PROVE a \in X \ v5 /\ Bel!Of(a)' \subseteq Bel!Of(a) \cup {c}
                                       /\ (c \in Bel!Of(a)' => Bel!Of(a) = {})
    BY <2>1, <1>1, <1>2, <1>3, BellSorts DEF Bel!Of
  <2>2. ASSUME NEW a \in X \ v5' PROVE \A d, e \in Bel!Of(a)' : d = e
    BY <2>1, <2>2 DEF BellInv, OneAtATime
  <2>3. ASSUME NEW a \in X \ v5', NEW d \in Bel!Of(a)', v4'[d].step = "ok"
        PROVE  d \in Bel!Of(a) /\ v4[d].step = "ok" /\ v4'[d].kind = v4[d].kind
    BY <2>1, <2>3, <1>1, <1>3 DEF Bel!Of
  <2> QED
    BY <2>1, <2>2, <2>3 DEF BellInv, OneAtATime, Told
<1> QED
  BY <1>4, <1>5, <1>6 DEF BellInv

LEMMA BellMounts ==
  ASSUME BellInv, NEW b \in X, NEW c \in C, Bel!Mount(b, c)
  PROVE  BellInv'
<1> DEFINE r == [Bel!NoCall EXCEPT !.kind = "list", !.b = b, !.step = "sent", !.heard = TRUE]
           Deaf(d) == [v4[d] EXCEPT !.heard = FALSE]
<1>t. v3 \in [X -> BellSet] /\ v4 \in [C -> BellCalls] /\ v5 \subseteq X /\ v4[c] = Bel!NoCall
  BY DEF BellInv, BellTyped, Bel!Mount
<1>1. /\ r \in BellCalls /\ r.kind = "list" /\ r.b = b /\ r.step = "sent" /\ r.heard /\ r.data = <<>>
      /\ r # Bel!NoCall
  BY BellSorts DEF Bel!NoCall, BellCalls
<1>2. ASSUME NEW d \in C
      PROVE  /\ Deaf(d) \in BellCalls /\ Deaf(d).kind = v4[d].kind /\ Deaf(d).b = v4[d].b
             /\ Deaf(d).n = v4[d].n /\ Deaf(d).step = v4[d].step /\ ~Deaf(d).heard
             /\ Deaf(d).data = v4[d].data
  BY <1>t DEF BellCalls
<1>3. /\ v3' = [v3 EXCEPT ![b] = Bel!Empty] /\ v5' = v5 \ {b} /\ UNCHANGED <<v1, v2>>
      /\ v4' = [d \in C |-> IF d = c THEN r ELSE IF v4[d].b = b THEN Deaf(d) ELSE v4[d]]
  BY DEF Bel!Mount
<1> HIDE DEF r, Deaf
<1>4. /\ v3' \in [X -> BellSet] /\ v3'[b] = Bel!Empty /\ \A a \in X \ {b} : v3'[a] = v3[a]
      /\ v4' \in [C -> BellCalls] /\ v4'[c] = r
      /\ \A d \in C \ {c} : v4'[d] = IF v4[d].b = b THEN Deaf(d) ELSE v4[d]
  BY <1>t, <1>1, <1>2, <1>3, BellSorts
<1>5. \A d \in C \ {c} :
        /\ v4'[d].kind = v4[d].kind /\ v4'[d].b = v4[d].b /\ v4'[d].n = v4[d].n
        /\ v4'[d].step = v4[d].step /\ v4'[d].data = v4[d].data
        /\ v4'[d].heard <=> v4[d].heard /\ v4[d].b # b
  BY <1>4, <1>2, <1>t DEF BellCalls
<1>6. BellTyped'
  BY <1>1, <1>3, <1>4, <1>5, BellSorts DEF BellInv, BellTyped
<1>7. Answers'
  <2>1. Existing' = Existing /\ \A f : (Sound(f)' <=> Sound(f)) /\ (Told(f)' <=> Told(f))
    BY <1>3 DEF Existing, Sound, Told
  <2>2. \A a \in X : Sound(v3'[a].items)
    BY <1>4, BellSorts DEF BellInv, Answers, Sound, Few
  <2>3. Sound(v4'[c].data) /\ Told(v4'[c].data) /\ v4'[c].step # "ok"
    BY <1>1, <1>4, BellSorts DEF Sound, Few, Told
  <2>4. ASSUME NEW d \in C \ {c}
        PROVE  /\ Sound(v4'[d].data) /\ Told(v4'[d].data)
               /\ v4'[d].step = "ok" /\ v4'[d].kind = "one" => v1'[v4'[d].n] = "read"
    BY <1>3, <1>5 DEF BellInv, Answers
  <2> QED
    BY <1>3, <2>1, <2>2, <2>3, <2>4 DEF BellInv, Answers, Sound, Told, Existing
<1>8. OneAtATime'
  <2>1. Bel!Of(b)' \subseteq {c}
    BY <1>4, <1>5, <1>1 DEF Bel!Of
  <2>2. ASSUME NEW a \in X \ v5', a # b
        PROVE  a \notin v5 /\ Bel!Of(a)' = Bel!Of(a) /\ c \notin Bel!Of(a) /\ v3'[a] = v3[a]
    BY <2>2, <1>t, <1>3, <1>4, <1>5, <1>1, BellSorts DEF Bel!Of
  <2>3. ASSUME NEW a \in X \ v5', a # b
        PROVE  /\ \A d, e \in Bel!Of(a)' : d = e
               /\ Told(v3'[a].items)
               /\ \A d \in Bel!Of(a)' : v4'[d].step = "ok" /\ v4'[d].kind = "all"
                    => \A n \in DOMAIN v3'[a].items : v1[n] = "read"
    <3>1. \A d \in Bel!Of(a) : d \in C \ {c} /\ v4'[d].step = v4[d].step /\ v4'[d].kind = v4[d].kind
      BY <2>2, <2>3, <1>5 DEF Bel!Of
    <3> QED
      BY <2>2, <2>3, <3>1, <1>t DEF BellInv, OneAtATime
  <2>4. Told(v3'[b].items) /\ \A d \in Bel!Of(b)' : v4'[d].step # "ok"
    BY <2>1, <1>1, <1>4, BellSorts DEF Told
  <2> QED
    BY <2>1, <2>3, <2>4, <1>3 DEF OneAtATime, Told
<1> QED
  BY <1>6, <1>7, <1>8 DEF BellInv

\* An answer is drawn, or heard by nobody.
LEMMA BellAnswered ==
  ASSUME BellInv, NEW c \in C, Bel!Answered(c)
  PROVE  BellInv'
<1> DEFINE r == v4[c]
           items == Bel!AfterAnswer(v3[r.b].items, r)
<1>t. /\ v3 \in [X -> BellSet] /\ v4 \in [C -> BellCalls] /\ v5 \subseteq X /\ r \in BellCalls
      /\ r.step \in {"ok", "failed"} /\ v4' = [v4 EXCEPT ![c] = Bel!NoCall] /\ UNCHANGED <<v1, v2, v5>>
      /\ v3' = IF r.heard THEN [v3 EXCEPT ![r.b].items = items] ELSE v3
      /\ r.kind # "idle" /\ (r.heard => r.b \in X)
  BY BellSorts DEF BellInv, BellTyped, Bel!Answered
<1>1. ASSUME r.heard
      PROVE  /\ items \in Drawings /\ Sound(items)
             /\ r.b \notin v5 => Told(items)
  <2>1. /\ r.b \in X /\ v3[r.b].items \in Drawings /\ Sound(v3[r.b].items) /\ r.data \in Drawings
        /\ Sound(r.data) /\ Told(r.data) /\ c \in Bel!Of(r.b)
    BY <1>1, <1>t DEF BellInv, Answers, BellSet, BellCalls, Bel!Of
  <2>2. DOMAIN v3[r.b].items \subseteq Y /\ \A n \in DOMAIN v3[r.b].items : v3[r.b].items[n] \in Reading
    BY <2>1, DrawingFacts
  <2>3. r.b \notin v5 => Told(v3[r.b].items)
    BY <2>1 DEF BellInv, OneAtATime
  <2>4. CASE r.step = "failed"
    BY <2>4, <2>1, <2>3 DEF Bel!AfterAnswer
  <2>5. CASE r.step = "ok" /\ r.kind = "list"
    BY <2>5, <2>1 DEF Bel!AfterAnswer
  <2>6. CASE r.step = "ok" /\ r.kind = "one"
    <3>1. items = [n \in DOMAIN v3[r.b].items |-> IF n = r.n THEN "read" ELSE v3[r.b].items[n]]
      BY <2>6 DEF Bel!AfterAnswer
    <3>2. items \in Drawings /\ DOMAIN items = DOMAIN v3[r.b].items
      BY <3>1, <2>2 DEF Drawings, Reading
    <3>3. v1[r.n] = "read"
      BY <2>6 DEF BellInv, Answers
    <3>4. \A n \in DOMAIN items : items[n] = IF n = r.n THEN "read" ELSE v3[r.b].items[n]
      BY <3>1
    <3> QED
      BY <3>2, <3>3, <3>4, <2>1, <2>3 DEF Sound, Few, Told
  <2>7. CASE r.step = "ok" /\ r.kind = "all"
    <3>1. items = [n \in DOMAIN v3[r.b].items |-> "read"]
      BY <2>7 DEF Bel!AfterAnswer
    <3>2. items \in Drawings /\ DOMAIN items = DOMAIN v3[r.b].items
      BY <3>1, <2>2 DEF Drawings, Reading
    <3>3. r.b \notin v5 => \A n \in DOMAIN items : v1[n] = "read"
      BY <3>2, <2>1, <2>7 DEF BellInv, OneAtATime
    <3> QED
      BY <3>2, <3>3, <2>1 DEF Sound, Few, Told
  <2> QED
    BY <1>t, <2>4, <2>5, <2>6, <2>7 DEF BellCalls
<1> HIDE DEF items
<1>2. /\ v4' \in [C -> BellCalls] /\ v4'[c] = Bel!NoCall /\ \A d \in C \ {c} : v4'[d] = v4[d]
  BY <1>t, BellSorts
<1>3. /\ v3' \in [X -> BellSet]
      /\ \A a \in X : v3'[a].items = IF r.heard /\ a = r.b THEN items ELSE v3[a].items
  <2>1. ASSUME r.heard PROVE [v3[r.b] EXCEPT !.items = items] \in BellSet
    BY <2>1, <1>1, <1>t DEF BellSet
  <2>2. ASSUME r.heard PROVE [v3[r.b] EXCEPT !.items = items].items = items
    BY <2>2, <1>t DEF BellSet
  <2>3. r.heard => v3' = [v3 EXCEPT ![r.b] = [v3[r.b] EXCEPT !.items = items]]
    BY <1>t
  <2> DEFINE new == [v3[r.b] EXCEPT !.items = items]
  <2> HIDE DEF new
  <2> QED
    BY <1>t, <2>1, <2>2, <2>3 DEF new
<1>4. BellTyped'
  BY <1>t, <1>2, <1>3, BellSorts DEF BellInv, BellTyped
<1>5. Answers'
  <2>1. \A a \in X : Sound(v3'[a].items)
    BY <1>1, <1>3 DEF BellInv, Answers
  <2> QED
    BY <1>t, <1>2, <2>1, BellSorts DEF BellInv, Answers, Sound, Told, Few, Existing
<1>6. OneAtATime'
  <2>1. ASSUME NEW a \in X \ v5 PROVE OneAtATime!(a)'
    <3>1. Bel!Of(a)' = Bel!Of(a) \ {c}
      BY <1>2, BellSorts DEF Bel!Of
    <3>2. \A d, e \in Bel!Of(a) : d = e
      BY DEF BellInv, OneAtATime
    <3>3. r.heard /\ a = r.b => Bel!Of(a)' = {}
      BY <1>t, <3>1, <3>2 DEF Bel!Of
    <3>4. Told(v3'[a].items)
      BY <1>1, <1>3 DEF BellInv, OneAtATime
    <3>5. ASSUME NEW d \in Bel!Of(a)', v4'[d].step = "ok", v4'[d].kind = "all"
          PROVE  \A n \in DOMAIN v3'[a].items : v1[n] = "read"
      <4>1. d \in Bel!Of(a) /\ v4'[d] = v4[d] /\ v3'[a].items = v3[a].items
        BY <3>1, <3>3, <3>5, <1>2, <1>3 DEF Bel!Of
      <4> QED
        BY <4>1, <3>5 DEF BellInv, OneAtATime
    <3> QED
      BY <1>t, <3>1, <3>2, <3>4, <3>5 DEF Told
  <2> QED
    BY <1>t, <2>1 DEF OneAtATime
<1> QED
  BY <1>4, <1>5, <1>6 DEF BellInv

\* Rows are marked or made, and a request is answered or lost: what was read stays so.
LEMMA BellServed ==
  ASSUME BellInv, v1' \in [Y -> Reading \cup {"none"}], v2' \in Seq(Y), UNCHANGED <<v3, v5>>,
         \A n \in Y : (v1[n] = "read" => v1'[n] = "read") /\ (v1[n] # "none" => v1'[n] # "none"),
         \A i \in 1..Len(v2') : v1'[v2'[i]] # "none",
         v4' \in [C -> BellCalls],
         \A d \in C : /\ v4'[d].kind = v4[d].kind /\ v4'[d].b = v4[d].b /\ v4'[d].n = v4[d].n
                      /\ v4'[d].heard = v4[d].heard
                      /\ (v4'[d] = v4[d] \/ (v4[d].step # "idle" /\ v4'[d].step # "idle")),
         \A d \in C : v4'[d] # v4[d] =>
           /\ Sound(v4[d].data)'
           /\ Told(v4[d].data)'
           /\ v4'[d].step = "ok" /\ v4[d].kind = "one" => v1'[v4[d].n] = "read"
           /\ v4'[d].step = "ok" /\ v4[d].kind = "all" => \A n \in Existing : v1'[n] = "read"
  PROVE  BellInv'
<1>1. BellTyped'
  <2>1. \A i \in 1..Len(v2') : v2'[i] \in Y
    OBVIOUS
  <2> QED
    BY BellSorts DEF BellInv, BellTyped
<1>2. Answers'
  <2>1. \A i \in 1..Len(v2') : v2'[i] \in Existing'
    BY DEF Existing
  <2>2. \A b \in X : Sound(v3[b].items)'
    BY DEF BellInv, Answers, Sound, Existing, Few
  <2>3. ASSUME NEW d \in C
        PROVE  Sound(v4[d].data)' /\ Told(v4[d].data)'
               /\ (v4'[d].step = "ok" /\ v4'[d].kind = "one" => v1'[v4'[d].n] = "read")
    BY <2>3 DEF BellInv, BellTyped, Answers, Sound, Existing, Few, Told
  <2> QED
    BY <2>1, <2>2, <2>3 DEF Answers
<1>3. OneAtATime'
  <2>1. \A a \in X : Bel!Of(a)' = Bel!Of(a)
    BY DEF Bel!Of
  <2>2. ASSUME NEW a \in X \ v5, NEW d \in Bel!Of(a), v4'[d].step = "ok", v4'[d].kind = "all"
        PROVE  \A n \in DOMAIN v3[a].items : v1'[n] = "read"
    <3>1. DOMAIN v3[a].items \subseteq Existing /\ Existing \subseteq Y /\ d \in C
      BY DEF BellInv, Answers, Sound, Existing, Bel!Of
    <3> QED
      BY <2>2, <3>1 DEF BellInv, OneAtATime
  <2>3. ASSUME NEW a \in X \ v5 PROVE \A n \in DOMAIN v3[a].items : v3[a].items[n] = "read" => v1'[n] = "read"
    <3>1. DOMAIN v3[a].items \subseteq Y
      BY DEF BellInv, Answers, Sound, Existing
    <3> QED
      BY <3>1 DEF BellInv, OneAtATime, Told
  <2> QED
    BY <2>1, <2>2, <2>3 DEF BellInv, OneAtATime, Told
<1> QED
  BY <1>1, <1>2, <1>3 DEF BellInv

LEMMA BellReplies ==
  ASSUME BellInv, NEW c \in C, NEW data \in Drawings, NEW step \in {"ok", "failed"},
         v4[c].step # "idle",
         v4' = [v4 EXCEPT ![c].step = step, ![c].data = data]
  PROVE  /\ v4' \in [C -> BellCalls] /\ v4'[c].step = step /\ v4'[c].data = data
         /\ \A d \in C : /\ v4'[d].kind = v4[d].kind /\ v4'[d].b = v4[d].b /\ v4'[d].n = v4[d].n
                         /\ v4'[d].heard = v4[d].heard
                         /\ (v4'[d] = v4[d] \/ (v4[d].step # "idle" /\ v4'[d].step # "idle"))
         /\ \A d \in C \ {c} : v4'[d] = v4[d]
<1> DEFINE r == [v4[c] EXCEPT !.step = step, !.data = data]
<1>t. v4 \in [C -> BellCalls] /\ v4[c] \in BellCalls
  BY DEF BellInv, BellTyped
<1>1. /\ r \in BellCalls /\ r.step = step /\ r.data = data /\ r.kind = v4[c].kind /\ r.b = v4[c].b
      /\ r.n = v4[c].n /\ r.heard = v4[c].heard
  BY <1>t DEF BellCalls
<1>2. v4' = [v4 EXCEPT ![c] = r]
  BY <1>t
<1> HIDE DEF r
<1>3. v4' \in [C -> BellCalls] /\ v4'[c] = r /\ \A d \in C \ {c} : v4'[d] = v4[d]
  BY <1>t, <1>1, <1>2
<1> QED
  BY <1>1, <1>3

LEMMA BellLists ==
  ASSUME BellInv, NEW c \in C, Bel!list_notifications(c)
  PROVE  BellInv'
<1> DEFINE data == [n \in Bel!Listed |-> v1[n]]
<1>t. /\ v1 \in [Y -> Reading \cup {"none"}] /\ v2 \in Seq(Y) /\ \A i \in 1..Len(v2) : v2[i] \in Existing
  BY DEF BellInv, BellTyped, Answers
<1>1. Bel!Listed \subseteq Existing /\ \A n, m \in Bel!Listed : n = m
  <2>1. Len(v2) \in Nat
    BY <1>t
  <2>2. \A i \in 1..Len(v2) : i > Len(v2) - 1 => i = Len(v2)
    BY <2>1
  <2>3. \A n \in Bel!Listed : \E i \in 1..Len(v2) : i > Len(v2) - 1 /\ n = v2[i]
    BY DEF Bel!Listed
  <2> QED
    BY <1>t, <2>2, <2>3
<1>2. data \in Drawings /\ DOMAIN data = Bel!Listed /\ \A n \in Bel!Listed : data[n] = v1[n]
  <2>1. \A n \in Bel!Listed : v1[n] \in Reading
    BY <1>1, <1>t DEF Existing
  <2>2. Bel!Listed \in SUBSET Y
    BY <1>1 DEF Existing
  <2> QED
    BY <2>1, <2>2, DrawingMade
<1>3. Sound(data) /\ Told(data)
  BY <1>1, <1>2 DEF Sound, Few, Told
<1>4. /\ v4[c].step = "sent" /\ v4[c].kind = "list" /\ UNCHANGED <<v1, v2, v3, v5>>
      /\ v4' = [v4 EXCEPT ![c].step = "ok", ![c].data = data]
  BY DEF Bel!list_notifications, Bel!Reply
<1> HIDE DEF data
<1>5. /\ v4' \in [C -> BellCalls] /\ v4'[c].step = "ok" /\ v4'[c].data = data
      /\ \A d \in C : /\ v4'[d].kind = v4[d].kind /\ v4'[d].b = v4[d].b /\ v4'[d].n = v4[d].n
                      /\ v4'[d].heard = v4[d].heard
                      /\ (v4'[d] = v4[d] \/ (v4[d].step # "idle" /\ v4'[d].step # "idle"))
      /\ \A d \in C \ {c} : v4'[d] = v4[d]
  BY <1>2, <1>4, BellReplies
<1>6. Sound(v4[c].data)' /\ Told(v4[c].data)'
  BY <1>3, <1>4, <1>5 DEF Sound, Few, Told, Existing
<1> QED
  BY <1>t, <1>4, <1>5, <1>6, BellServed DEF Existing

\* A mark is answered when its rows are read, and a request is lost.
LEMMA BellMarks ==
  ASSUME BellInv, NEW c \in C, Bel!mark_read(c) \/ Bel!mark_all_read(c) \/ Bel!Lost(c)
  PROVE  BellInv'
<1>t. /\ v1 \in [Y -> Reading \cup {"none"}] /\ v2 \in Seq(Y) /\ \A i \in 1..Len(v2) : v2[i] \in Existing
      /\ v4[c] \in BellCalls
  BY DEF BellInv, BellTyped, Answers
<1>1. PICK step \in {"ok", "failed"} :
        /\ v4' = [v4 EXCEPT ![c].step = step, ![c].data = <<>>] /\ UNCHANGED <<v2, v3, v5>>
        /\ v4[c].step # "idle"
        /\ v1' \in [Y -> Reading \cup {"none"}]
        /\ \A n \in Y : (v1[n] = "read" => v1'[n] = "read") /\ (v1[n] # "none" => v1'[n] # "none")
        /\ step = "ok" /\ v4[c].kind = "one" => v1'[v4[c].n] = "read"
        /\ step = "ok" /\ v4[c].kind = "all" => \A n \in Existing : v1'[n] = "read"
  <2>1. CASE Bel!mark_read(c)
    <3>1. v4[c].kind = "one" /\ v4[c].n \in Y /\ v4[c].step = "sent"
          /\ v1' = [v1 EXCEPT ![v4[c].n] = "read"] /\ UNCHANGED <<v2, v3, v5>>
          /\ v4' = [v4 EXCEPT ![c].step = "ok", ![c].data = <<>>]
      BY <2>1 DEF Bel!mark_read, Bel!Reply, BellInv, BellTyped
    <3> QED
      BY <3>1, <1>t DEF Reading
  <2>2. CASE Bel!mark_all_read(c)
    <3>1. v4[c].kind = "all" /\ v4[c].step = "sent" /\ UNCHANGED <<v2, v3, v5>>
          /\ v1' = [n \in Y |-> IF v1[n] = "unread" THEN "read" ELSE v1[n]]
          /\ v4' = [v4 EXCEPT ![c].step = "ok", ![c].data = <<>>]
      BY <2>2 DEF Bel!mark_all_read, Bel!Reply
    <3>2. \A n \in Y : v1[n] \in {"unread", "read", "none"}
      BY <1>t DEF Reading
    <3>3. v1' \in [Y -> Reading \cup {"none"}] /\ \A n \in Y : v1'[n] = IF v1[n] = "unread" THEN "read" ELSE v1[n]
      BY <3>1, <1>t DEF Reading
    <3> QED
      BY <3>1, <3>2, <3>3 DEF Existing
  <2>3. CASE Bel!Lost(c)
    BY <2>3, <1>t DEF Bel!Lost
  <2> QED
    BY <2>1, <2>2, <2>3
<1>2. /\ v4' \in [C -> BellCalls] /\ v4'[c].step = step /\ v4'[c].data = <<>>
      /\ \A d \in C : /\ v4'[d].kind = v4[d].kind /\ v4'[d].b = v4[d].b /\ v4'[d].n = v4[d].n
                      /\ v4'[d].heard = v4[d].heard
                      /\ (v4'[d] = v4[d] \/ (v4[d].step # "idle" /\ v4'[d].step # "idle"))
      /\ \A d \in C \ {c} : v4'[d] = v4[d]
  BY <1>1, BellSorts, BellReplies
<1>3. Sound(v4[c].data)' /\ Told(v4[c].data)'
  BY <1>2, BellSorts DEF Sound, Few, Told
<1>4. \A i \in 1..Len(v2') : v1'[v2'[i]] # "none"
  BY <1>t, <1>1 DEF Existing
<1> QED
  BY <1>t, <1>1, <1>2, <1>3, <1>4, BellServed

LEMMA BellNotified ==
  ASSUME BellInv, NEW n \in Y, Bel!Notify(n)
  PROVE  BellInv'
<1>t. /\ v1 \in [Y -> Reading \cup {"none"}] /\ v2 \in Seq(Y) /\ \A i \in 1..Len(v2) : v2[i] \in Existing
      /\ v4 \in [C -> BellCalls]
  BY DEF BellInv, BellTyped, Answers
<1>1. v1[n] = "none" /\ v1' = [v1 EXCEPT ![n] = "unread"] /\ v2' = Append(v2, n) /\ UNCHANGED <<v3, v4, v5>>
  BY DEF Bel!Notify
<1>2. /\ v1' \in [Y -> Reading \cup {"none"}]
      /\ \A m \in Y : (v1[m] = "read" => v1'[m] = "read") /\ (v1[m] # "none" => v1'[m] # "none")
      /\ v1'[n] # "none"
  BY <1>1, <1>t DEF Reading
<1>3. v2' \in Seq(Y) /\ \A i \in 1..Len(v2') : v1'[v2'[i]] # "none"
  BY <1>1, <1>2, <1>t, AppendProperties DEF Existing
<1>4. /\ v4' \in [C -> BellCalls]
      /\ \A d \in C : /\ v4'[d].kind = v4[d].kind /\ v4'[d].b = v4[d].b /\ v4'[d].n = v4[d].n
                      /\ v4'[d].heard = v4[d].heard /\ v4'[d] = v4[d]
  BY <1>1, <1>t
<1> QED
  BY <1>1, <1>2, <1>3, <1>4, BellServed

LEMMA BellPressed ==
  ASSUME BellInv, NEW b \in X, NEW c \in C,
         \/ Bel!handleToggle(b, c) \/ Bel!handleMarkAllRead(b, c)
         \/ \E n \in Y : Bel!handleMarkOne(b, c, n)
  PROVE  BellInv'
<1>t. v3 \in [X -> BellSet]
  BY DEF BellInv, BellTyped
<1>1. CASE Bel!handleToggle(b, c)
  <2>1. /\ v3' \in [X -> BellSet] /\ \A a \in X : v3'[a].items = v3[a].items
        /\ UNCHANGED <<v1, v2>>
    <3>1. v3' = [v3 EXCEPT ![b] = [v3[b] EXCEPT !.open = ~v3[b].open]] /\ UNCHANGED <<v1, v2>>
      BY <1>1 DEF Bel!handleToggle
    <3>2. [v3[b] EXCEPT !.open = ~v3[b].open] \in BellSet
      BY <1>t DEF BellSet
    <3>3. [v3[b] EXCEPT !.open = ~v3[b].open].items = v3[b].items
      BY <1>t DEF BellSet
    <3> DEFINE new == [v3[b] EXCEPT !.open = ~v3[b].open]
    <3> HIDE DEF new
    <3> QED
      BY <3>1, <3>2, <3>3, <1>t DEF new
  <2>2. CASE Bel!Send(c, "list", b, "none")
    BY <2>1, <2>2, BellSends
  <2>3. CASE UNCHANGED <<v4, v5>>
    <3>1. BellTyped'
      BY <2>1, <2>3 DEF BellInv, BellTyped
    <3>2. Answers'
      BY <2>1, <2>3 DEF BellInv, Answers, Sound, Told, Existing
    <3>3. OneAtATime'
      BY <2>1, <2>3 DEF BellInv, OneAtATime, Told, Bel!Of
    <3> QED
      BY <3>1, <3>2, <3>3 DEF BellInv
  <2> QED
    BY <1>1, <2>2, <2>3 DEF Bel!handleToggle
<1>2. CASE Bel!handleMarkAllRead(b, c)
  BY <1>2, <1>t, BellSends DEF Bel!handleMarkAllRead
<1>3. ASSUME NEW n \in Y, Bel!handleMarkOne(b, c, n) PROVE BellInv'
  BY <1>3, <1>t, BellSends DEF Bel!handleMarkOne
<1> QED
  BY <1>1, <1>2, <1>3

LEMMA BellNext == BellInv /\ Bel!Next => BellInv'
BY BellLists, BellMarks, BellNotified, BellPressed, BellMounts, BellAnswered DEF Bel!Next, Bel!Serve

LEMMA Card == \A S : Bel!Cardinality(S) = Cardinality(S)
BY DEF Bel!Cardinality, Cardinality

LEMMA BellSays == BellInv => Bel!TypeOK /\ Bel!NothingHidden
<1> SUFFICES ASSUME BellInv PROVE Bel!TypeOK /\ Bel!NothingHidden
  OBVIOUS
<1>1. ASSUME NEW f \in Drawings, Sound(f)
      PROVE  /\ DOMAIN f \subseteq {n \in Y : v1[n] # "none"} /\ Cardinality(DOMAIN f) <= 1
             /\ \A n \in DOMAIN f : f[n] \in {"unread", "read"}
  <2>1. Cardinality(DOMAIN f) <= 1
    <3>1. CASE DOMAIN f = {}
      BY <3>1, FS_EmptySet
    <3>2. ASSUME NEW n \in DOMAIN f PROVE Cardinality(DOMAIN f) <= 1
      <4>1. DOMAIN f = {n}
        BY <1>1 DEF Sound, Few
      <4>2. Cardinality(DOMAIN f) = 1
        BY <4>1, FS_Singleton
      <4> QED
        BY <4>2
    <3> QED
      BY <3>1, <3>2
  <2> QED
    BY <1>1, <2>1, DrawingFacts DEF Sound, Existing, Reading
<1>2. \A b \in X : v3[b].items \in Drawings /\ Sound(v3[b].items)
  BY DEF BellInv, BellTyped, BellSet, Answers
<1>3. Bel!TypeOK
  BY <1>1, <1>2 DEF BellInv, BellTyped, Bel!TypeOK, Reading, Bel!Cardinality, Cardinality
<1>4. Bel!NothingHidden
  BY DEF BellInv, OneAtATime, Told, Bel!NothingHidden
<1> QED
  BY <1>3, <1>4

LEMMA BellStill == BellInv /\ UNCHANGED <<v1, v2, v3, v4, v5>> => BellInv'
<1> SUFFICES ASSUME BellInv, UNCHANGED <<v1, v2, v3, v4, v5>> PROVE BellInv'
  OBVIOUS
<1>1. BellTyped'
  BY DEF BellInv, BellTyped
<1>2. Answers'
  BY DEF BellInv, Answers, Sound, Told, Existing
<1>3. OneAtATime'
  BY DEF BellInv, OneAtATime, Told, Bel!Of
<1> QED
  BY <1>1, <1>2, <1>3 DEF BellInv

-----------------------------------------------------------------------------
(* AdminCarForm: v1 the listings, v2 the descriptions made, v3 the form, v4 the details awaited, *)
(* v5 the save, v6 whether two forms had details on their way.                                  *)
For == INSTANCE AdminCarForm WITH
  Listings <- X, Calls <- C, Acts <- Acts.form,
  row <- v1, created <- v2, tab <- v3, call <- v4, save <- v5, mixed <- v6

FormValues == [of : X \cup {"none", "typed"}, masked : BOOLEAN]
FormRows == [vin : FormValues, description : FormValues, condition : BOOLEAN, photos : BOOLEAN]
FormTabs == [open : BOOLEAN, l : X \cup {"none"}, vin : FormValues, description : FormValues,
             condition : BOOLEAN, files : BOOLEAN, loading : BOOLEAN, saving : BOOLEAN,
             said : {"none", "published", "Listing deleted", "error"}]
FormCalls == [l : X \cup {"none"}, step : {"idle", "sent", "ok", "failed"}, vin : FormValues]
FormSaves == [l : X \cup {"none"}, step : {"idle", "sent", "patched", "photos", "failed"},
              vin : FormValues, description : FormValues, condition : BOOLEAN, files : BOOLEAN]

FormTyped ==
  /\ v1 \in [X -> FormRows] /\ v2 \subseteq FormValues /\ v3 \in FormTabs /\ v4 \in [C -> FormCalls]
  /\ v5 \in FormSaves /\ v6 \in BOOLEAN
  /\ \A c \in C : v4[c] = For!NoCall \/ (v4[c].l \in X /\ v4[c].step # "idle")
  /\ v3.loading => For!Asked # {}
  /\ v3.saving <=> v5.step # "idle"

\* What a form, or a save, of l may hold.
Entered(l) == {For!Empty, For!Of(l), For!Of("typed")}

\* The details on their way are those of the form that is open.
FormOwn ==
  /\ \A l \in X : v1[l].vin \in For!Written(l) /\ v1[l].description \in For!Written(l)
  /\ v2 \subseteq {For!Empty, For!Of("typed")}
  /\ v3.vin \in Entered(v3.l) /\ v3.description \in Entered(v3.l)
  /\ v5.vin \in Entered(v5.l) /\ v5.description \in Entered(v5.l)
  /\ \A c, d \in For!Asked : c = d
  /\ \A c \in For!Asked : /\ v4[c].step = "ok" => v4[c].vin \in For!Written(v4[c].l)
                          /\ v3.open => v3.l = v4[c].l

FormInv == FormTyped /\ (~v6 => FormOwn)

LEMMA FormSorts ==
  /\ For!Empty \in FormValues /\ For!NoCall \in FormCalls /\ For!NoSave \in FormSaves
  /\ For!Closed \in FormTabs /\ For!None = "none" /\ For!Typed = "typed"
  /\ \A l \in X \cup {"none", "typed"} : /\ For!Of(l) \in FormValues /\ For!Of(l).of = l
                                       /\ For!Empty \in Entered(l) /\ For!Of(l) \in Entered(l)
                                       /\ For!Of("typed") \in Entered(l)
                                       /\ For!Written(l) \subseteq Entered(l)
  /\ For!Empty = For!Of("none")
  /\ For!NoCall.l = "none" /\ For!NoCall.step = "idle"
  /\ For!NoSave.l = "none" /\ For!NoSave.step = "idle" /\ For!NoSave.vin = For!Empty /\ For!NoSave.description = For!Empty
  /\ For!Closed.l = "none" /\ For!Closed.vin = For!Empty /\ For!Closed.description = For!Empty
  /\ ~For!Closed.open /\ ~For!Closed.saving /\ ~For!Closed.loading
BY DEF For!Empty, FormValues, For!NoCall, FormCalls, For!NoSave, FormSaves, For!Closed, FormTabs, For!None,
       For!Typed, For!Of, Entered, For!Written

LEMMA FormInit == For!Init => FormInv
<1> SUFFICES ASSUME For!Init PROVE FormInv
  OBVIOUS
<1>1. FormTyped
  BY FormSorts DEF For!Init, FormTyped, FormRows
<1>2. FormOwn
  BY FormSorts DEF For!Init, FormOwn, For!Written, For!Asked
<1> QED
  BY <1>1, <1>2 DEF FormInv

\* A step of the form: the requests for details stay.
LEMMA FormSteps ==
  ASSUME FormInv, UNCHANGED <<v1, v2, v4>>, v3' \in FormTabs, v5' \in FormSaves, v6' \in BOOLEAN, v6 => v6',
         v3'.loading => v3.loading, v3'.saving <=> v5'.step # "idle",
         v6' \/ (v3'.open => For!Asked = {} \/ (v3.open /\ v3'.l = v3.l)),
         FormOwn => /\ v3'.vin \in Entered(v3'.l) /\ v3'.description \in Entered(v3'.l)
                    /\ v5'.vin \in Entered(v5'.l) /\ v5'.description \in Entered(v5'.l)
  PROVE  FormInv'
<1>1. For!Asked' = For!Asked
  BY DEF For!Asked, For!NoCall
<1>2. FormTyped'
  BY <1>1 DEF FormInv, FormTyped, For!NoCall
<1>3. ASSUME ~v6' PROVE FormOwn'
  BY <1>1, <1>3 DEF FormInv, FormOwn, Entered, For!Written, For!Empty, For!Of
<1> QED
  BY <1>2, <1>3 DEF FormInv

LEMMA FormActs ==
  ASSUME FormInv,
         \/ For!openCreate \/ For!onClose \/ For!setCondition \/ For!handleSave \/ For!saved
         \/ For!setVin(For!Of("typed")) \/ For!setDescription(For!Of("typed"))
         \/ \E b \in BOOLEAN : For!setFiles(b)
  PROVE  FormInv'
<1>t. /\ v3 \in FormTabs /\ v5 \in FormSaves /\ v6 \in BOOLEAN
      /\ (v3.saving <=> v5.step # "idle") /\ (v3.loading => For!Asked # {})
      /\ v3.saving \in BOOLEAN /\ v3.l \in X \cup {"none"} /\ v5.l \in X \cup {"none"}
      /\ For!Closed \in FormTabs /\ For!None = "none"
  BY FormSorts DEF FormInv, FormTyped, FormTabs, FormSaves
<1>k. /\ \A l \in X \cup {"none"} : For!Empty \in Entered(l) /\ For!Of("typed") \in Entered(l)
      /\ For!Empty \in FormValues /\ For!Of("typed") \in FormValues
      /\ For!Closed.l = "none" /\ For!Closed.vin = For!Empty /\ For!Closed.description = For!Empty /\ ~For!Closed.open
  BY FormSorts
<1>o. FormOwn => /\ v3.vin \in Entered(v3.l) /\ v3.description \in Entered(v3.l)
                 /\ v5.vin \in Entered(v5.l) /\ v5.description \in Entered(v5.l)
  BY DEF FormOwn
<1>1. CASE For!openCreate
  <2>1. /\ v3' \in FormTabs /\ v3'.open /\ v3'.l = "none" /\ v3'.vin = For!Empty /\ v3'.description = For!Empty
        /\ v3'.loading = v3.loading /\ v3'.saving = v3.saving
    BY <1>1, <1>t, FormSorts DEF For!openCreate, For!Opens, FormTabs
  <2>2. v6' \in BOOLEAN /\ (v6 => v6') /\ (v6' \/ For!Asked = {}) /\ UNCHANGED <<v1, v2, v4, v5>>
    BY <1>1, <1>t DEF For!openCreate
  <2> QED
    BY <1>t, <1>k, <1>o, <2>1, <2>2, FormSteps
<1>2. ASSUME v3' = For!Shut(v3) PROVE
        /\ v3' \in FormTabs /\ ~v3'.open /\ v3'.l = "none" /\ v3'.vin = For!Empty /\ v3'.description = For!Empty
        /\ v3'.loading = v3.loading /\ v3'.saving = v3.saving
  BY <1>2, <1>t, FormSorts DEF For!Shut, FormTabs
<1>3. CASE For!onClose
  BY <1>t, <1>k, <1>o, <1>2, <1>3, FormSteps DEF For!onClose
<1>4. ASSUME UNCHANGED <<v1, v2, v4, v5, v6>>, v3.open,
             \/ v3' = [v3 EXCEPT !.condition = TRUE]
             \/ v3' = [v3 EXCEPT !.vin = For!Of("typed")]
             \/ v3' = [v3 EXCEPT !.description = For!Of("typed")]
             \/ \E b \in BOOLEAN : v3' = [v3 EXCEPT !.files = b]
      PROVE  FormInv'
  <2>1. /\ v3' \in FormTabs /\ v3'.open = v3.open /\ v3'.l = v3.l
        /\ v3'.vin \in {v3.vin, For!Of("typed")} /\ v3'.description \in {v3.description, For!Of("typed")}
        /\ v3'.loading = v3.loading /\ v3'.saving = v3.saving
    <3>q. PICK typed : typed = For!Of("typed") /\ typed \in FormValues
      BY <1>k
    <3>1. CASE v3' = [v3 EXCEPT !.condition = TRUE]
      BY <3>1, <1>t DEF FormTabs
    <3>2. CASE v3' = [v3 EXCEPT !.vin = typed]
      BY <3>2, <3>q, <1>t DEF FormTabs
    <3>3. CASE v3' = [v3 EXCEPT !.description = typed]
      BY <3>3, <3>q, <1>t DEF FormTabs
    <3>4. ASSUME NEW b \in BOOLEAN, v3' = [v3 EXCEPT !.files = b]
          PROVE  /\ v3' \in FormTabs /\ v3'.open = v3.open /\ v3'.l = v3.l
                 /\ v3'.vin = v3.vin /\ v3'.description = v3.description
                 /\ v3'.loading = v3.loading /\ v3'.saving = v3.saving
      BY <3>4, <1>t DEF FormTabs
    <3> QED
      BY <1>4, <3>q, <3>1, <3>2, <3>3, <3>4
  <2> QED
    BY <1>4, <1>t, <1>k, <1>o, <2>1, FormSteps
<1>5. CASE \/ For!setCondition \/ For!setVin(For!Of("typed")) \/ For!setDescription(For!Of("typed"))
           \/ \E b \in BOOLEAN : For!setFiles(b)
  BY <1>4, <1>5 DEF For!setCondition, For!setVin, For!setDescription, For!setFiles, For!Set
<1>6. CASE For!handleSave
  <2>1. /\ v3' \in FormTabs /\ v3'.open = v3.open /\ v3'.l = v3.l /\ v3'.vin = v3.vin
        /\ v3'.description = v3.description /\ v3'.loading = v3.loading /\ v3'.saving
    BY <1>6, <1>t, FormSorts DEF For!handleSave, FormTabs
  <2>2. /\ v5' \in FormSaves /\ v5'.l = v3.l /\ v5'.vin = v3.vin /\ v5'.description = v3.description /\ v5'.step = "sent"
    BY <1>6, <1>t DEF For!handleSave, FormTabs, FormSaves
  <2>3. UNCHANGED <<v1, v2, v4, v6>> /\ v3.open
    BY <1>6 DEF For!handleSave
  <2> QED
    BY <1>t, <1>k, <1>o, <2>1, <2>2, <2>3, FormSteps
<1>7. CASE For!saved
  <2>1. /\ UNCHANGED <<v1, v2, v4, v6>> /\ v5' = [v5 EXCEPT !.step = "idle", !.vin = For!Empty, !.description = For!Empty]
        /\ \/ v3' = [v3 EXCEPT !.saving = FALSE, !.said = "error"]
           \/ v3' = [For!Shut(v3) EXCEPT !.saving = FALSE, !.said = For!Says(v5)]
    BY <1>7 DEF For!saved
  <2>2. /\ v5' \in FormSaves /\ v5'.step = "idle" /\ v5'.l = v5.l /\ v5'.vin = For!Empty /\ v5'.description = For!Empty
    BY <2>1, <1>t, <1>k DEF FormSaves
  <2>3. For!Says(v5) \in {"published", "Listing deleted"}
    BY DEF For!Says
  <2>4. CASE v3' = [v3 EXCEPT !.saving = FALSE, !.said = "error"]
    <3>1. /\ v3' \in FormTabs /\ v3'.open = v3.open /\ v3'.l = v3.l /\ v3'.vin = v3.vin
          /\ v3'.description = v3.description /\ v3'.loading = v3.loading /\ ~v3'.saving
      BY <2>4, <1>t DEF FormTabs
    <3> QED
      BY <1>t, <1>k, <1>o, <2>1, <2>2, <3>1, FormSteps
  <2>5. CASE v3' = [For!Shut(v3) EXCEPT !.saving = FALSE, !.said = For!Says(v5)]
    <3>1. /\ v3' \in FormTabs /\ ~v3'.open /\ v3'.l = "none" /\ v3'.vin = For!Empty
          /\ v3'.description = For!Empty /\ v3'.loading = v3.loading /\ ~v3'.saving
      BY <2>3, <2>5, <1>t, FormSorts DEF For!Shut, FormTabs
    <3> QED
      BY <1>t, <1>k, <1>o, <2>1, <2>2, <3>1, FormSteps
  <2> QED
    BY <2>1, <2>4, <2>5
<1> QED
  BY <1>1, <1>3, <1>5, <1>6, <1>7

LEMMA FormAsks ==
  ASSUME NamesApart, FormInv, NEW c \in C, NEW l \in X, For!openEdit(c, l)
  PROVE  FormInv'
<1> DEFINE r == [For!NoCall EXCEPT !.l = l, !.step = "sent"]
<1>t. /\ v3 \in FormTabs /\ v4 \in [C -> FormCalls] /\ (v3.saving <=> v5.step # "idle")
      /\ v3.saving \in BOOLEAN /\ v6 \in BOOLEAN
  BY DEF FormInv, FormTyped, FormTabs
<1>1. r \in FormCalls /\ r.l = l /\ r.step = "sent" /\ r # For!NoCall
  BY FormSorts DEF FormCalls, NamesApart
<1>2. v4' = [v4 EXCEPT ![c] = r] /\ UNCHANGED <<v1, v2, v5>> /\ v4[c] = For!NoCall
      /\ v6' \in BOOLEAN /\ (v6 => v6') /\ (v6' \/ For!Asked = {})
  BY <1>t DEF For!openEdit
<1> HIDE DEF r
<1>3. v4' \in [C -> FormCalls] /\ v4'[c] = r /\ \A d \in C \ {c} : v4'[d] = v4[d]
  BY <1>t, <1>1, <1>2
<1>4. /\ v3' \in FormTabs /\ v3'.open /\ v3'.l = l /\ v3'.vin = For!Empty /\ v3'.description = For!Empty
      /\ v3'.saving = v3.saving
  BY <1>t, FormSorts DEF For!openEdit, For!Opens, FormTabs
<1>5. For!Asked' = For!Asked \cup {c} /\ For!NoCall' = For!NoCall
  BY <1>1, <1>3 DEF For!Asked, For!NoCall
<1>6. FormTyped'
  BY <1>1, <1>2, <1>3, <1>4, <1>5, <1>t DEF FormInv, FormTyped
<1>7. ASSUME ~v6' PROVE FormOwn'
  <2>1. FormOwn /\ For!Asked' = {c}
    BY <1>2, <1>5, <1>7 DEF FormInv
  <2>2. \A k \in X : For!Written(k)' = For!Written(k)
    BY DEF For!Written, For!Of, For!Typed
  <2>3. \A k \in X \cup {"none"} : Entered(k)' = Entered(k)
    BY DEF Entered, For!Empty, For!Of
  <2> QED
    BY <2>1, <2>2, <2>3, <1>1, <1>2, <1>3, <1>4, FormSorts DEF FormOwn, Entered
<1> QED
  BY <1>6, <1>7 DEF FormInv

\* One request for details changes, or ends.
LEMMA FormCalled ==
  ASSUME FormInv, NEW c \in C, NEW r \in FormCalls, c \in For!Asked,
         r = For!NoCall \/ (r.l = v4[c].l /\ r.step # "idle"),
         FormOwn /\ r.step = "ok" => r.vin \in For!Written(v4[c].l),
         v4' = [v4 EXCEPT ![c] = r], UNCHANGED <<v1, v2, v5, v6>>,
         v3' \in FormTabs, v3'.saving = v3.saving, v3'.open = v3.open, v3'.l = v3.l,
         v3'.loading => v3.loading /\ r # For!NoCall,
         FormOwn => v3'.vin \in Entered(v3.l) /\ v3'.description \in Entered(v3.l)
  PROVE  FormInv'
<1>1. v4 \in [C -> FormCalls] /\ v4' \in [C -> FormCalls] /\ v4'[c] = r /\ \A d \in C \ {c} : v4'[d] = v4[d]
  BY DEF FormInv, FormTyped
<1>2. For!Asked' \subseteq For!Asked /\ (r # For!NoCall => c \in For!Asked') /\ (r = For!NoCall => c \notin For!Asked')
  BY <1>1 DEF For!Asked, For!NoCall
<1>3. FormTyped'
  BY <1>1, <1>2 DEF FormInv, FormTyped, For!NoCall, For!Asked
<1>4. ASSUME ~v6' PROVE FormOwn'
  <2>1. FormOwn
    BY <1>4 DEF FormInv
  <2>2. \A k : For!Written(k)' = For!Written(k) /\ Entered(k)' = Entered(k)
    BY DEF For!Written, For!Of, For!Typed, Entered, For!Empty
  <2>3. For!Asked = {c}
    BY <2>1 DEF FormOwn
  <2> QED
    BY <1>1, <1>2, <2>1, <2>2, <2>3 DEF FormOwn, For!Empty, For!Of
<1> QED
  BY <1>3, <1>4 DEF FormInv

LEMMA FormTold ==
  ASSUME WholeAnswers, FormInv, NEW c \in C, For!get_listing_detail(c) \/ For!detailed(c)
  PROVE  FormInv'
<1>t. /\ v3 \in FormTabs /\ v4 \in [C -> FormCalls] /\ v4[c] \in FormCalls
      /\ v4[c] = For!NoCall \/ (v4[c].l \in X /\ v4[c].step # "idle")
      /\ v1 \in [X -> FormRows]
  BY DEF FormInv, FormTyped
<1>1. CASE For!get_listing_detail(c)
  <2> DEFINE r == [v4[c] EXCEPT !.step = "ok", !.vin = v1[v4[c].l].vin]
  <2>1. v4[c].step = "sent" /\ UNCHANGED <<v1, v2, v3, v5, v6>> /\ v4' = [v4 EXCEPT ![c] = r]
    BY <1>1, <1>t DEF For!get_listing_detail, WholeAnswers
  <2>2. v4[c].l \in X /\ c \in For!Asked
    BY <2>1, <1>t, FormSorts DEF For!Asked
  <2>3. r \in FormCalls /\ r.l = v4[c].l /\ r.step = "ok" /\ r.vin = v1[v4[c].l].vin
    BY <2>2, <1>t DEF FormCalls, FormRows
  <2> HIDE DEF r
  <2>4. PICK s \in FormCalls : s = r
    BY <2>3
  <2>5. r # For!NoCall
    BY <2>3, FormSorts
  <2>6. FormOwn => /\ v3.vin \in Entered(v3.l) /\ v3.description \in Entered(v3.l)
                   /\ r.vin \in For!Written(v4[c].l)
    BY <2>2, <2>3 DEF FormOwn
  <2> QED
    BY <1>t, <2>1, <2>2, <2>3, <2>4, <2>5, <2>6, FormCalled
<1>2. CASE For!detailed(c)
  <2>1. /\ v4[c].step \in {"ok", "failed"} /\ UNCHANGED <<v1, v2, v5, v6>> /\ v4' = [v4 EXCEPT ![c] = For!NoCall]
        /\ v3' = IF v4[c].step = "ok" THEN For!Filled(v4[c]) ELSE [v3 EXCEPT !.loading = FALSE]
    BY <1>2 DEF For!detailed
  <2>2. v4[c].l \in X /\ c \in For!Asked
    BY <2>1, <1>t, FormSorts DEF For!Asked
  <2>3. /\ v3' \in FormTabs /\ v3'.saving = v3.saving /\ v3'.open = v3.open /\ v3'.l = v3.l /\ ~v3'.loading
        /\ \/ v3'.vin = v3.vin /\ v3'.description = v3.description
           \/ v4[c].step = "ok" /\ v3.open /\ v3'.vin = v4[c].vin /\ v3'.description = For!Of(v4[c].l)
    BY <2>1, <2>2, <1>t, FormSorts DEF For!Filled, For!Fill, FormTabs, FormCalls
  <2>4. FormOwn => v3'.vin \in Entered(v3.l) /\ v3'.description \in Entered(v3.l)
    BY <2>2, <2>3, FormSorts DEF FormOwn
  <2> QED
    BY <1>t, <2>1, <2>2, <2>3, <2>4, FormCalled, FormSorts
<1> QED
  BY <1>1, <1>2

\* The requests of a save.
LEMMA FormServed ==
  ASSUME FormInv, For!Serve \/ For!Fails
  PROVE  FormInv'
<1>t. /\ v3 \in FormTabs /\ v4 \in [C -> FormCalls] /\ v5 \in FormSaves /\ v1 \in [X -> FormRows] /\ v2 \subseteq FormValues
      /\ v3.saving <=> v5.step # "idle"
  BY DEF FormInv, FormTyped
<1>1. CASE For!edit_listing_admin
  <2>1. /\ v5.step = "sent" /\ v5.l # "none" /\ v1' = [v1 EXCEPT ![v5.l] = For!Patched(@)]
        /\ v5' = [v5 EXCEPT !.step = "patched"] /\ UNCHANGED <<v2, v3, v4, v6>>
    BY <1>1, FormSorts DEF For!edit_listing_admin
  <2>2. /\ v5' \in FormSaves /\ v5'.l = v5.l /\ v5'.vin = v5.vin /\ v5'.description = v5.description /\ v5'.step = "patched"
        /\ v5.l \in X /\ v5.vin \in FormValues /\ v5.description \in FormValues
    BY <2>1, <1>t DEF FormSaves
  <2> DEFINE row == v1[v5.l]
             new == For!Patched(row)
  <2>3. /\ new \in FormRows /\ new.vin = For!Or(v5.vin, row.vin)
        /\ new.description = For!Or(v5.description, row.description)
    BY <2>2, <1>t DEF For!Patched, FormRows, For!Or
  <2>4. v1' \in [X -> FormRows] /\ v1'[v5.l] = new /\ \A l \in X \ {v5.l} : v1'[l] = v1[l]
    BY <2>1, <2>2, <2>3, <1>t
  <2> HIDE DEF new
  <2>5. For!Asked' = For!Asked
    BY <2>1 DEF For!Asked, For!NoCall
  <2>6. FormTyped'
    BY <2>1, <2>2, <2>4, <2>5, <1>t DEF FormInv, FormTyped, For!NoCall
  <2>7. ASSUME ~v6' PROVE FormOwn'
    <3>1. FormOwn
      BY <2>1, <2>7 DEF FormInv
    <3>2. \A k : For!Written(k)' = For!Written(k) /\ Entered(k)' = Entered(k)
      BY DEF For!Written, For!Of, For!Typed, Entered, For!Empty
    <3>3. new.vin \in For!Written(v5.l) /\ new.description \in For!Written(v5.l)
      BY <3>1, <2>2, <2>3, <1>t DEF FormOwn, Entered, For!Or, For!Written, For!Typed
    <3> QED
      BY <2>1, <2>2, <2>4, <2>5, <3>1, <3>2, <3>3 DEF FormOwn, For!Empty, For!Of
  <2> QED
    BY <2>6, <2>7 DEF FormInv
<1>2. ASSUME NEW step \in {"photos", "failed"}, v5' = [v5 EXCEPT !.step = step], v5.step # "idle",
             UNCHANGED <<v1, v3, v4, v6>>, v2' \subseteq FormValues,
             FormOwn => v2' \subseteq {For!Empty, For!Of("typed")}
      PROVE  FormInv'
  <2>1. /\ v5' \in FormSaves /\ v5'.l = v5.l /\ v5'.vin = v5.vin /\ v5'.description = v5.description /\ v5'.step # "idle"
    BY <1>2, <1>t DEF FormSaves
  <2>2. For!Asked' = For!Asked
    BY <1>2 DEF For!Asked, For!NoCall
  <2>3. FormTyped'
    BY <1>2, <2>1, <2>2, <1>t DEF FormInv, FormTyped, For!NoCall
  <2>4. ASSUME ~v6' PROVE FormOwn'
    <3>1. FormOwn
      BY <1>2, <2>4 DEF FormInv
    <3>2. \A k : For!Written(k)' = For!Written(k) /\ Entered(k)' = Entered(k)
      BY DEF For!Written, For!Of, For!Typed, Entered, For!Empty
    <3> QED
      BY <1>2, <2>1, <2>2, <3>1, <3>2 DEF FormOwn, For!Empty, For!Of
  <2> QED
    BY <2>3, <2>4 DEF FormInv
<1>3. FormOwn => v2 \subseteq {For!Empty, For!Of("typed")}
  BY DEF FormOwn
<1>4. CASE For!upload_listing_image
  BY <1>2, <1>3, <1>4, <1>t DEF For!upload_listing_image
<1>5. CASE For!create_listing
  <2>1. v5.description \in FormValues /\ (FormOwn => v5.description \in {For!Empty, For!Of("typed")})
    BY <1>5, <1>t, FormSorts DEF For!create_listing, FormSaves, FormOwn, Entered
  <2> QED
    BY <1>2, <1>3, <1>5, <1>t, <2>1 DEF For!create_listing
<1>6. CASE For!Fails
  <2>1. ASSUME NEW c \in C, v4[c].step = "sent", v4' = [v4 EXCEPT ![c].step = "failed"], UNCHANGED <<v1, v2, v3, v5, v6>>
        PROVE  FormInv'
    <3> DEFINE r == [v4[c] EXCEPT !.step = "failed"]
    <3>1. v4[c] \in FormCalls /\ v4[c] # For!NoCall /\ c \in For!Asked
      BY <2>1, <1>t, FormSorts DEF For!Asked
    <3>2. r \in FormCalls /\ r.l = v4[c].l /\ r.step = "failed" /\ r # For!NoCall /\ v4' = [v4 EXCEPT ![c] = r]
      BY <2>1, <3>1, FormSorts DEF FormCalls
    <3> HIDE DEF r
    <3>3. PICK s \in FormCalls : s = r
      BY <3>2
    <3>4. FormOwn => v3.vin \in Entered(v3.l) /\ v3.description \in Entered(v3.l)
      BY DEF FormOwn
    <3> QED
      BY <1>t, <2>1, <3>1, <3>2, <3>3, <3>4, FormCalled
  <2> QED
    BY <1>2, <1>3, <1>6, <1>t, <2>1 DEF For!Fails
<1> QED
  BY <1>1, <1>4, <1>5, <1>6 DEF For!Serve

LEMMA FormNext ==
  ASSUME NamesApart, WholeAnswers
  PROVE  FormInv /\ For!Next => FormInv'
BY FormActs, FormAsks, FormTold, FormServed DEF For!Next, For!Typed

LEMMA FormSays == FormInv => For!TypeOK /\ For!WritesItsOwn
<1>1. FormInv => For!TypeOK
  BY FormSorts DEF FormInv, FormTyped, FormTabs, For!TypeOK
<1>2. FormInv => For!WritesItsOwn
  BY FormSorts DEF FormInv, FormOwn, For!WritesItsOwn
<1> QED
  BY <1>1, <1>2

LEMMA FormStill == FormInv /\ UNCHANGED <<v1, v2, v3, v4, v5, v6>> => FormInv'
<1> SUFFICES ASSUME FormInv, UNCHANGED <<v1, v2, v3, v4, v5, v6>> PROVE FormInv'
  OBVIOUS
<1>1. /\ For!Asked' = For!Asked
      /\ \A k : For!Written(k)' = For!Written(k) /\ Entered(k)' = Entered(k)
  BY DEF For!Written, For!Of, For!Typed, Entered, For!Empty, For!Asked, For!NoCall
<1> QED
  BY <1>1 DEF FormInv, FormTyped, FormOwn, For!NoCall, For!Empty, For!Of

-----------------------------------------------------------------------------
(* CarChoice: v1 is the form, v2 the requests, v3 the levels asked for twice. *)
Cho == INSTANCE CarChoice WITH
  Widths <- <<2, 2, 1, 1>>, Calls <- C, Acts <- Acts.choice,
  form <- v1, call <- v2, mixed <- v3
Entries == Seq(Int)
ChoiceForms ==
  [sel : [1..4 -> Entries], offer : [1..4 -> Entries],
   loading : [1..4 -> BOOLEAN], original : BOOLEAN]
ChoiceCalls == [level : 0..4, of : Entries, step : {"idle", "sent", "ok", "failed"}]

ChoiceTyped ==
  /\ v1 \in ChoiceForms /\ v2 \in [C -> ChoiceCalls]
  /\ \A c \in C : v2[c].level = 0 <=> v2[c] = Cho!NoCall
  /\ v1.original => v1.sel[3] = Cho!None

\* The request for a level is of the choice above it, where there is one, and is the only one.
OfTheChoice ==
  \A c \in C : v2[c].level > 1 =>
    /\ v1.sel[v2[c].level - 1] # Cho!None => v2[c].of = v1.sel[v2[c].level - 1]
    /\ v1.loading[v2[c].level]
OnePerLevel == \A c, d \in C : v2[c].level # 0 /\ v2[c].level = v2[d].level => c = d
OffersFit ==
  \A k \in Cho!Levels \ {1} :
    v1.offer[k] # Cho!None /\ v1.sel[k - 1] # Cho!None /\ ~v1.loading[k]
      => v1.offer[k] = v1.sel[k - 1]

ChoiceInv ==
  /\ ChoiceTyped /\ Cho!TypeOK
  /\ v3 = {} => Cho!OneCar /\ OfTheChoice /\ OnePerLevel /\ OffersFit

LEMMA FourLevels == Cho!Levels = 1..4 /\ Cho!Last = 4
BY DEF Cho!Levels, Cho!Last

LEMMA Appended ==
  ASSUME NEW e \in Entries, NEW i \in Int
  PROVE  Append(e, i) \in Entries /\ Cho!Parent(Append(e, i)) = e
BY AppendProperties DEF Entries, Cho!Parent

LEMMA Children ==
  ASSUME NEW e \in Entries, NEW x \in Cho!Under(e)
  PROVE  x \in Entries /\ Cho!Parent(x) = e
<1>1. PICK i \in Int : x = Append(e, i)
  BY DEF Cho!Under
<1> QED
  BY <1>1, Appended

LEMMA ChoiceSorts ==
  /\ Cho!None \in Entries /\ Cho!Root \in Entries /\ Cho!NoCall \in ChoiceCalls
  /\ Cho!NoCall.level = 0
BY DEF Cho!None, Cho!Root, Cho!NoCall, Entries, ChoiceCalls

LEMMA Pair ==
  ASSUME NEW i \in Int, NEW j \in Int
  PROVE  <<i, j>> \in Entries /\ Cho!Parent(<<i, j>>) = <<i>> /\ <<i>> \in Entries
<1>1. <<i>> \in Entries /\ <<i, j>> \in Entries /\ Len(<<i>>) = 1 /\ Len(<<i, j>>) = 2
  BY DEF Entries
<1>3. <<i, j>> = Append(<<i>>, j)
  <2>1. /\ Append(<<i>>, j) \in Entries /\ Len(Append(<<i>>, j)) = 2
        /\ Append(<<i>>, j)[1] = i /\ Append(<<i>>, j)[2] = j
    BY <1>1, AppendProperties DEF Entries
  <2>2. \A k \in 1..2 : <<i, j>>[k] = Append(<<i>>, j)[k]
    BY <2>1
  <2> QED
    BY <1>1, <2>1, <2>2, SeqEqual DEF Entries
<1>2. Cho!Parent(<<i, j>>) = <<i>>
  BY <1>1, <1>3, Appended
<1> QED
  BY <1>1, <1>2

LEMMA ChoiceInit == Cho!Init => ChoiceInv
<1> SUFFICES ASSUME Cho!Init PROVE ChoiceInv
  OBVIOUS
<1> USE FourLevels, ChoiceSorts
<1>1. ASSUME NEW edit \in BOOLEAN, NEW car \in (1..<<2, 2, 1, 1>>[1]) \X (1..<<2, 2, 1, 1>>[2])
      PROVE  car \in Entries /\ Cho!Parent(car) \in Entries \ {Cho!None}
  <2>1. PICK i \in 1..2, j \in 1..2 : car = <<i, j>>
    <3>1. <<2, 2, 1, 1>>[1] = 2 /\ <<2, 2, 1, 1>>[2] = 2
      OBVIOUS
    <3> QED
      BY <3>1
  <2> QED
    <3>1. <<i>> # Cho!None
      BY DEF Cho!None
    <3>2. i \in Int /\ j \in Int
      OBVIOUS
    <3>3. <<i, j>> \in Entries /\ Cho!Parent(<<i, j>>) = <<i>> /\ <<i>> \in Entries
      BY <3>2, Pair
    <3> QED
      BY <2>1, <3>1, <3>3
<1> DEFINE Known(e, m) == IF e THEN m ELSE 0
<1>2. \E edit \in BOOLEAN, car \in Entries, n \in 1..3 :
        /\ Cho!Parent(car) \in Entries \ {Cho!None}
        /\ v1.sel = [k \in Cho!Levels |-> v1.sel[k]] /\ v1.offer = [k \in Cho!Levels |-> v1.offer[k]]
        /\ v1 = [sel |-> v1.sel, offer |-> v1.offer, loading |-> v1.loading, original |-> edit]
        /\ \A k \in 1..4 :
             /\ v1.sel[k] = IF k = 1 /\ Known(edit, n) > 0 THEN Cho!Parent(car)
                            ELSE IF k = 2 /\ Known(edit, n) > 1 THEN car ELSE Cho!None
             /\ v1.offer[k] = IF k = 2 /\ Known(edit, n) > 1 THEN Cho!Parent(car)
                              ELSE IF k = 3 /\ Known(edit, n) > 2 THEN car ELSE Cho!None
        /\ v1.loading = [k \in Cho!Levels |-> k = 1]
  BY <1>1 DEF Cho!Init
<1>3. PICK edit \in BOOLEAN, car \in Entries, n \in 1..3 :
        /\ v1 \in ChoiceForms /\ Cho!Parent(car) # Cho!None
        /\ \A k \in 1..4 :
             /\ v1.sel[k] = IF k = 1 /\ Known(edit, n) > 0 THEN Cho!Parent(car)
                            ELSE IF k = 2 /\ Known(edit, n) > 1 THEN car ELSE Cho!None
             /\ v1.offer[k] = IF k = 2 /\ Known(edit, n) > 1 THEN Cho!Parent(car)
                              ELSE IF k = 3 /\ Known(edit, n) > 2 THEN car ELSE Cho!None
             /\ v1.loading[k] <=> k = 1
  <2>1. /\ [k \in Cho!Levels |-> k = 1] \in [1..4 -> BOOLEAN]
        /\ \A k \in 1..4 : [j \in Cho!Levels |-> j = 1][k] <=> k = 1
    OBVIOUS
  <2>2. PICK edit \in BOOLEAN, car \in Entries, n \in 1..3 : <1>2!(edit, car, n)
    BY <1>2
  <2>3. v1.sel \in [1..4 -> Entries] /\ v1.offer \in [1..4 -> Entries] /\ v1.loading \in [1..4 -> BOOLEAN]
    <3>1. \A k \in 1..4 : v1.sel[k] \in Entries /\ v1.offer[k] \in Entries
      BY <2>2
    <3>2. /\ v1.sel = [k \in Cho!Levels |-> v1.sel[k]] /\ v1.offer = [k \in Cho!Levels |-> v1.offer[k]]
          /\ v1.loading = [k \in Cho!Levels |-> k = 1]
      BY <2>2
    <3>3. v1.sel \in [1..4 -> Entries]
      BY <3>1, <3>2
    <3>4. v1.offer \in [1..4 -> Entries]
      BY <3>1, <3>2
    <3>5. v1.loading \in [1..4 -> BOOLEAN]
      BY <3>2
    <3> QED
      BY <3>3, <3>4, <3>5
  <2>4. v1 \in ChoiceForms
    <3>1. PICK s \in [1..4 -> Entries], o \in [1..4 -> Entries], l \in [1..4 -> BOOLEAN] :
            v1 = [sel |-> s, offer |-> o, loading |-> l, original |-> edit]
      <4>1. v1 = [sel |-> v1.sel, offer |-> v1.offer, loading |-> v1.loading, original |-> edit]
        BY <2>2
      <4> QED
        BY <4>1, <2>3
    <3> QED
      BY <3>1 DEF ChoiceForms
  <2>5. \A k \in 1..4 : v1.loading[k] <=> k = 1
    BY <2>1, <2>2
  <2> HIDE DEF Known
  <2> QED
    BY <2>2, <2>4, <2>5
<1>4. PICK c \in C : v2 = [d \in C |-> IF d = c THEN Cho!Ask(1, Cho!Root) ELSE Cho!NoCall]
  BY DEF Cho!Init
<1>5. /\ Cho!Ask(1, Cho!Root) \in ChoiceCalls /\ Cho!Ask(1, Cho!Root).level = 1
      /\ v2 \in [C -> ChoiceCalls] /\ \A d \in C : v2[d].level = IF d = c THEN 1 ELSE 0
      /\ \A d \in C \ {c} : v2[d] = Cho!NoCall
  BY <1>4 DEF Cho!Ask, ChoiceCalls
<1>6. ChoiceTyped
  BY <1>3, <1>5 DEF ChoiceTyped
<1>7. Cho!TypeOK
  <2>2. \A k \in 1..4 : v1.loading[k] => \E d \in C : v2[d].level = k
    BY <1>3, <1>5
  <2>3. \A k \in 2..4 : v1.sel[k] # Cho!None => v1.sel[k - 1] # Cho!None
    BY <1>3
  <2> QED
    BY <1>3, <2>2, <2>3 DEF Cho!TypeOK
<1>8. OfTheChoice /\ OnePerLevel
  BY <1>5 DEF OfTheChoice, OnePerLevel
<1>9. OffersFit
  BY <1>3 DEF OffersFit
<1>10. Cho!OneCar
  BY <1>3, <1>9 DEF OffersFit, Cho!OneCar, Cho!Enabled
<1> QED
  BY <1>6, <1>7, <1>8, <1>9, <1>10 DEF ChoiceInv

LEMMA ChoiceChanges ==
  ASSUME ChoiceInv, NEW c \in C, NEW k \in Cho!Levels, NEW entry \in Cho!Offered(k),
         Cho!handleChange(c, k, entry)
  PROVE  ChoiceInv'
<1> USE FourLevels, ChoiceSorts
<1>1. /\ k \in 1..3 /\ Cho!Enabled(k) /\ v2[c] = Cho!NoCall
      /\ v1.offer[k] # Cho!None /\ entry \in Cho!Under(v1.offer[k])
      /\ v1 \in ChoiceForms /\ v2 \in [C -> ChoiceCalls]
  BY DEF Cho!handleChange, Cho!Offered, ChoiceInv, ChoiceTyped
<1>2. entry \in Entries /\ Cho!Parent(entry) = v1.offer[k]
  BY <1>1, Children DEF ChoiceForms
<1> DEFINE S == [j \in Cho!Levels |-> IF j = k THEN entry ELSE IF j > k THEN Cho!None ELSE v1.sel[j]]
           O == [j \in Cho!Levels |-> IF j > k THEN Cho!None ELSE v1.offer[j]]
           L == [v1.loading EXCEPT ![k + 1] = TRUE]
<1>3. v1' = [sel |-> S, offer |-> O, loading |-> L, original |-> FALSE]
  BY DEF Cho!handleChange, Cho!Cleared
<1>4. /\ S \in [1..4 -> Entries] /\ O \in [1..4 -> Entries] /\ L \in [1..4 -> BOOLEAN]
      /\ v1' \in ChoiceForms
      /\ v1'.sel = S /\ v1'.offer = O /\ v1'.loading = L /\ v1'.original = FALSE
      /\ \A j \in 1..4 : S[j] = IF j = k THEN entry ELSE IF j > k THEN Cho!None ELSE v1.sel[j]
      /\ \A j \in 1..4 : O[j] = IF j > k THEN Cho!None ELSE v1.offer[j]
      /\ \A j \in 1..4 : L[j] <=> v1.loading[j] \/ j = k + 1
  <2>1. S \in [1..4 -> Entries]
    BY <1>1, <1>2 DEF ChoiceForms
  <2>2. O \in [1..4 -> Entries]
    BY <1>1 DEF ChoiceForms
  <2>3. L \in [1..4 -> BOOLEAN] /\ \A j \in 1..4 : L[j] <=> v1.loading[j] \/ j = k + 1
    BY <1>1 DEF ChoiceForms
  <2>4. /\ \A j \in 1..4 : S[j] = IF j = k THEN entry ELSE IF j > k THEN Cho!None ELSE v1.sel[j]
        /\ \A j \in 1..4 : O[j] = IF j > k THEN Cho!None ELSE v1.offer[j]
    OBVIOUS
  <2> HIDE DEF S, O, L
  <2> QED
    BY <1>3, <2>1, <2>2, <2>3, <2>4 DEF ChoiceForms
<1> HIDE DEF S, O, L
<1>5. /\ Cho!Ask(k + 1, entry) \in ChoiceCalls
      /\ Cho!Ask(k + 1, entry).level = k + 1 /\ Cho!Ask(k + 1, entry).of = entry
  BY <1>1, <1>2 DEF Cho!Ask, ChoiceCalls
<1>6. v2' = [v2 EXCEPT ![c] = Cho!Ask(k + 1, entry)]
  BY DEF Cho!handleChange
<1>7. /\ v2' \in [C -> ChoiceCalls] /\ v2'[c].level = k + 1 /\ v2'[c].of = entry
      /\ \A d \in C \ {c} : v2'[d] = v2[d]
  BY <1>1, <1>5, <1>6
<1>8. ChoiceTyped'
  BY <1>1, <1>4, <1>7 DEF ChoiceTyped, ChoiceInv
<1>9. Cho!TypeOK'
  <2>1. \A j \in 1..4 : v1'.loading[j] => \E d \in C : v2'[d].level = j
    BY <1>1, <1>4, <1>7 DEF ChoiceInv, Cho!TypeOK
  <2>2. \A j \in 2..4 : v1'.sel[j] # Cho!None => v1'.sel[j - 1] # Cho!None
    BY <1>1, <1>4 DEF ChoiceInv, Cho!TypeOK, Cho!Enabled
  <2>3. v1'.sel[4] = Cho!None
    BY <1>1, <1>4
  <2> QED
    BY <2>1, <2>2, <2>3 DEF Cho!TypeOK
<1>10. ASSUME v3' = {} PROVE (Cho!OneCar /\ OfTheChoice /\ OnePerLevel /\ OffersFit)'
  <2>1. v3 = {} /\ \A d \in C : v2[d].level # k + 1
    BY <1>10 DEF Cho!handleChange
  <2>2. Cho!OneCar /\ OfTheChoice /\ OnePerLevel /\ OffersFit
    BY <2>1 DEF ChoiceInv
  <2>3. k > 1 => v1.offer[k] = v1.sel[k - 1]
    BY <1>1, <2>2 DEF Cho!Enabled, OffersFit
  <2>4. OfTheChoice'
    <3>1. ASSUME NEW d \in C, v2'[d].level > 1, d # c
          PROVE  /\ v1'.sel[v2'[d].level - 1] # Cho!None => v2'[d].of = v1'.sel[v2'[d].level - 1]
                 /\ v1'.loading[v2'[d].level]
      <4>1. v2[d] \in ChoiceCalls /\ v2'[d] = v2[d] /\ v2[d].level \in 2..4 /\ v2[d].level - 1 \in 1..4
            /\ v2[d].level - 1 # k
        BY <1>1, <1>7, <2>1, <3>1 DEF ChoiceCalls
      <4> QED
        BY <1>1, <1>4, <2>2, <4>1 DEF OfTheChoice
    <3> QED
      BY <1>1, <1>4, <1>7, <3>1 DEF OfTheChoice
  <2>5. OnePerLevel'
    BY <1>1, <1>7, <2>1, <2>2 DEF OnePerLevel
  <2>6. OffersFit'
    <3>1. ASSUME NEW j \in 2..4, v1'.offer[j] # Cho!None
          PROVE  j <= k /\ v1'.offer[j] = v1.offer[j] /\ v1'.sel[j - 1] = v1.sel[j - 1]
                 /\ (v1'.loading[j] <=> v1.loading[j])
      BY <3>1, <1>1, <1>4
    <3> QED
      BY <3>1, <2>2 DEF OffersFit
  <2>7. Cho!OneCar'
    <3>1. ASSUME NEW j \in 2..4, v1'.sel[j] # Cho!None PROVE Cho!Parent(v1'.sel[j]) = v1'.sel[j - 1]
      <4>1. CASE j = k
        BY <3>1, <4>1, <1>1, <1>2, <1>4, <2>3
      <4>2. CASE j < k
        <5>1. v1'.sel[j] = v1.sel[j] /\ v1'.sel[j - 1] = v1.sel[j - 1] /\ j \in Cho!Levels \ {1}
          BY <4>2, <1>1, <1>4
        <5>2. Cho!Parent(v1.sel[j]) = v1.sel[j - 1]
          BY <3>1, <5>1, <2>1, <2>2 DEF Cho!OneCar
        <5> QED
          BY <5>1, <5>2
      <4>3. CASE j > k
        BY <3>1, <4>3, <1>1, <1>4
      <4> QED
        BY <4>1, <4>2, <4>3, <1>1
    <3> QED
      BY <3>1, <2>6 DEF Cho!OneCar, Cho!Enabled, OffersFit
  <2> QED
    BY <2>4, <2>5, <2>6, <2>7
<1> QED
  BY <1>8, <1>9, <1>10 DEF ChoiceInv

LEMMA ChoiceAnswers ==
  ASSUME ChoiceInv, NEW c \in C, Cho!answered(c)
  PROVE  ChoiceInv'
<1> USE FourLevels, ChoiceSorts
<1> DEFINE r == v2[c]
           k == r.level
<1>1. /\ v1 \in ChoiceForms /\ v2 \in [C -> ChoiceCalls] /\ r \in ChoiceCalls
      /\ r.step \in {"ok", "failed"} /\ v2' = [v2 EXCEPT ![c] = Cho!NoCall] /\ v3' = v3
      /\ k \in 1..4 /\ r.of \in Entries
  BY DEF ChoiceInv, ChoiceTyped, Cho!answered, ChoiceCalls, Cho!NoCall
<1>2. PICK e \in Entries :
        /\ e \in {r.of, Cho!None}
        /\ v1' = [sel |-> v1.sel, offer |-> [v1.offer EXCEPT ![k] = e],
                  loading |-> [v1.loading EXCEPT ![k] = FALSE], original |-> v1.original]
  BY <1>1 DEF Cho!answered, Cho!Answered, ChoiceForms
<1>3. v1' \in ChoiceForms
  BY <1>1, <1>2 DEF ChoiceForms
<1>4. /\ v2' \in [C -> ChoiceCalls] /\ v2'[c] = Cho!NoCall
      /\ \A d \in C \ {c} : v2'[d] = v2[d]
  BY <1>1
<1>5. ChoiceTyped'
  <2>1. v1'.sel = v1.sel /\ v1'.original = v1.original
    BY <1>2
  <2> QED
    BY <1>3, <1>4, <2>1 DEF ChoiceTyped, ChoiceInv
<1>6. Cho!TypeOK'
  <2>1. \A j \in 1..4 : v1'.loading[j] => \E d \in C : v2'[d].level = j
    BY <1>1, <1>2, <1>4 DEF ChoiceInv, Cho!TypeOK, ChoiceForms
  <2> QED
    BY <2>1, <1>2 DEF Cho!TypeOK, ChoiceInv
<1>7. ASSUME v3' = {} PROVE (Cho!OneCar /\ OfTheChoice /\ OnePerLevel /\ OffersFit)'
  <2>1. Cho!OneCar /\ OfTheChoice /\ OnePerLevel /\ OffersFit
    BY <1>1, <1>7 DEF ChoiceInv
  <2>2. \A d \in C \ {c} : v2[d].level # k
    BY <1>1, <2>1 DEF OnePerLevel
  <2>3. /\ v1'.sel = v1.sel
        /\ \A j \in 1..4 : v1'.offer[j] = IF j = k THEN e ELSE v1.offer[j]
        /\ \A j \in 1..4 : v1'.loading[j] <=> v1.loading[j] /\ j # k
    BY <1>1, <1>2 DEF ChoiceForms
  <2>4. OfTheChoice'
    <3>1. ASSUME NEW d \in C, v2'[d].level > 1
          PROVE  /\ v1'.sel[v2'[d].level - 1] # Cho!None => v2'[d].of = v1'.sel[v2'[d].level - 1]
                 /\ v1'.loading[v2'[d].level]
      <4>1. d # c /\ v2[d] \in ChoiceCalls /\ v2'[d] = v2[d] /\ v2[d].level \in 2..4 /\ v2[d].level # k
        BY <1>1, <1>4, <2>2, <3>1 DEF ChoiceCalls
      <4> QED
        BY <2>1, <2>3, <4>1 DEF OfTheChoice
    <3> QED
      BY <3>1 DEF OfTheChoice
  <2>5. OnePerLevel'
    BY <1>4, <2>1 DEF OnePerLevel
  <2>6. OffersFit'
    <3>1. ASSUME NEW j \in 2..4, v1'.offer[j] # Cho!None, v1'.sel[j - 1] # Cho!None, ~v1'.loading[j]
          PROVE  v1'.offer[j] = v1'.sel[j - 1]
      <4>1. CASE j = k
        BY <3>1, <4>1, <1>1, <1>2, <2>1, <2>3 DEF OfTheChoice
      <4>2. CASE j # k
        BY <3>1, <4>2, <2>1, <2>3 DEF OffersFit
      <4> QED
        BY <4>1, <4>2
    <3> QED
      BY <3>1 DEF OffersFit
  <2>7. Cho!OneCar'
    <3>1. \A j \in Cho!Levels \ {1} :
            v1'.sel[j] # Cho!None => Cho!Parent(v1'.sel[j]) = v1'.sel[j - 1]
      BY <1>7, <1>1, <2>1, <2>3 DEF Cho!OneCar
    <3> QED
      BY <3>1, <2>6 DEF Cho!OneCar, OffersFit, Cho!Enabled
  <2> QED
    BY <2>4, <2>5, <2>6, <2>7
<1> QED
  BY <1>5, <1>6, <1>7 DEF ChoiceInv

\* The catalog answers, or fails; the last level is chosen.
LEMMA ChoiceServed ==
  ASSUME ChoiceInv, NEW c \in C, Cho!getEntries(c) \/ Cho!Fails(c)
  PROVE  ChoiceInv'
<1> USE FourLevels, ChoiceSorts
<1>1. PICK step \in {"ok", "failed"} :
        v2' = [v2 EXCEPT ![c].step = step] /\ UNCHANGED <<v1, v3>> /\ v2[c].step = "sent"
  BY DEF Cho!getEntries, Cho!Fails
<1>2. /\ v2 \in [C -> ChoiceCalls] /\ v2' \in [C -> ChoiceCalls]
      /\ \A d \in C : v2'[d].level = v2[d].level /\ v2'[d].of = v2[d].of
      /\ \A d \in C \ {c} : v2'[d] = v2[d]
      /\ v2[c].level # 0
  BY <1>1 DEF ChoiceInv, ChoiceTyped, ChoiceCalls, Cho!NoCall
<1>3. ChoiceTyped'
  BY <1>1, <1>2 DEF ChoiceInv, ChoiceTyped
<1>4. Cho!TypeOK' /\ (Cho!OneCar => Cho!OneCar') /\ (OffersFit => OffersFit')
  BY <1>1, <1>2 DEF ChoiceInv, Cho!TypeOK, Cho!OneCar, OffersFit, Cho!Enabled
<1>5. (OfTheChoice => OfTheChoice') /\ (OnePerLevel => OnePerLevel')
  BY <1>1, <1>2 DEF OfTheChoice, OnePerLevel
<1> QED
  BY <1>1, <1>3, <1>4, <1>5 DEF ChoiceInv

LEMMA ChoiceEnds ==
  ASSUME ChoiceInv, NEW entry \in Cho!Offered(Cho!Last), Cho!setSelectedMod(entry)
  PROVE  ChoiceInv'
<1> USE FourLevels, ChoiceSorts
<1>1. /\ v1 \in ChoiceForms /\ Cho!Enabled(4)
      /\ v1.offer[4] # Cho!None /\ entry \in Cho!Under(v1.offer[4])
      /\ v1' = [v1 EXCEPT !.sel[4] = entry] /\ UNCHANGED <<v2, v3>>
  BY DEF ChoiceInv, ChoiceTyped, Cho!setSelectedMod, Cho!Offered
<1>2. entry \in Entries /\ Cho!Parent(entry) = v1.offer[4]
  BY <1>1, Children DEF ChoiceForms
<1> DEFINE S == [v1.sel EXCEPT ![4] = entry]
<1>3. /\ S \in [1..4 -> Entries] /\ S[4] = entry /\ \A j \in 1..3 : S[j] = v1.sel[j]
      /\ v1' = [sel |-> S, offer |-> v1.offer, loading |-> v1.loading, original |-> v1.original]
  BY <1>1, <1>2 DEF ChoiceForms
<1> HIDE DEF S
<1>4. /\ v1' \in ChoiceForms /\ v1'.sel[4] = entry /\ \A j \in 1..3 : v1'.sel[j] = v1.sel[j]
      /\ v1'.offer = v1.offer /\ v1'.loading = v1.loading /\ v1'.original = v1.original
  BY <1>1, <1>3 DEF ChoiceForms
<1>5. ChoiceTyped' /\ ~v1.original
  BY <1>1, <1>4 DEF ChoiceInv, ChoiceTyped, Cho!Enabled
<1>6. Cho!TypeOK'
  BY <1>1, <1>4, <1>5 DEF ChoiceInv, Cho!TypeOK, Cho!Enabled
<1>7. ASSUME v3' = {} PROVE (Cho!OneCar /\ OfTheChoice /\ OnePerLevel /\ OffersFit)'
  <2>1. Cho!OneCar /\ OfTheChoice /\ OnePerLevel /\ OffersFit
    BY <1>1, <1>7 DEF ChoiceInv
  <2>2. \A d \in C : v2[d].level \in 0..4
    BY DEF ChoiceInv, ChoiceTyped, ChoiceCalls
  <2>3. OfTheChoice' /\ OnePerLevel' /\ OffersFit'
    BY <1>1, <1>4, <2>1, <2>2 DEF OfTheChoice, OnePerLevel, OffersFit
  <2>4. Cho!OneCar'
    <3>1. v1.offer[4] = v1.sel[3]
      BY <1>1, <2>1 DEF OffersFit, Cho!Enabled
    <3>2. \A j \in 2..4 : v1'.sel[j] # Cho!None => Cho!Parent(v1'.sel[j]) = v1'.sel[j - 1]
      BY <1>1, <1>2, <1>4, <1>7, <2>1, <3>1 DEF Cho!OneCar
    <3> QED
      BY <3>2, <2>3 DEF Cho!OneCar, OffersFit, Cho!Enabled
  <2> QED
    BY <2>3, <2>4
<1> QED
  BY <1>5, <1>6, <1>7 DEF ChoiceInv

LEMMA ChoiceNext == ChoiceInv /\ Cho!Next => ChoiceInv'
BY ChoiceChanges, ChoiceAnswers, ChoiceServed, ChoiceEnds DEF Cho!Next

LEMMA ChoiceSays == ChoiceInv => Cho!TypeOK /\ (v3 = {} => Cho!OneCar)
BY DEF ChoiceInv

LEMMA ChoiceStill == ChoiceInv /\ UNCHANGED <<v1, v2, v3>> => ChoiceInv'
BY DEF ChoiceInv, ChoiceTyped, Cho!TypeOK, Cho!OneCar, OfTheChoice, OnePerLevel, OffersFit, Cho!Enabled

-----------------------------------------------------------------------------
(* Favorites: v1 whose token is stored, v2 the hearts, v3 the rows, v4 the listings, v5 the *)
(* requests of the context, v6 the page, v7 its loads, v8 whether requests overlapped or    *)
(* were lost.                                                                               *)
Fav == INSTANCE Favorites WITH
  Users <- {"u"}, Cars <- X, MaxFavorites <- 1, Reqs <- C, Fetches <- Y, MeFails <- TRUE,
  token <- v1, ids <- v2, db <- v3, listed <- v4, req <- v5, page <- v6, fetch <- v7, upset <- v8
HeartReqs == [kind : {"idle", "load", "add", "remove", "clear"}, c : X \cup {"none"},
              u : {"u", "none"}, step : {"idle", "sent", "counted", "ok", "failed", "404"},
              heard : BOOLEAN, data : SUBSET X]
HeartPages == [open : BOOLEAN, cars : SUBSET X, missing : SUBSET X, loading : BOOLEAN]
HeartLoads == [busy : BOOLEAN, of : SUBSET X]

HeartTyped ==
  /\ v1 \in {"u", "none"} /\ v2 \subseteq X /\ v3 \in [{"u"} -> SUBSET X] /\ v4 \subseteq X
  /\ v5 \in [C -> HeartReqs] /\ v6 \in HeartPages /\ v7 \in [Y -> HeartLoads] /\ v8 \in BOOLEAN
  /\ v3["u"] \subseteq v4
  /\ \A q \in C : IF v5[q].kind = "idle" THEN v5[q] = Fav!NoReq
                  ELSE v5[q].u = "u" /\ (v5[q].kind = "load" \/ v5[q].c \in X)

\* What the answer of a request will do to the hearts makes them what the server has.
AddsUp(r) ==
  /\ r.heard /\ r.u = "u"
  /\ r.kind = "load" => r.step \in {"sent", "ok"} /\ (r.step = "ok" => r.data \cap v4 = v3["u"])
  /\ r.kind = "add" => /\ r.c \in v2
                       /\ r.step \in {"sent", "counted", "failed"} => (v2 \ {r.c}) \cap v4 = v3["u"]
                       /\ r.step \in {"ok", "404"} => v2 \cap v4 = v3["u"]
                       /\ r.step # "idle"
  /\ r.kind = "remove" => /\ r.step \in {"sent", "ok"} /\ r.c \notin v2
                          /\ v2 \cap v4 = IF r.step = "ok" THEN v3["u"] ELSE v3["u"] \ {r.c}
  /\ r.kind = "clear" => r.step \in {"sent", "ok"} /\ v2 = {}
Clears(q) == v5[q].kind = "clear"

\* One thing is under way at a time, or several requests of one clear, which remove all there is.
HeartsAddUp ==
  /\ \A q \in C : v5[q].kind # "idle" => AddsUp(v5[q])
  /\ \A p, q \in C : v5[p].kind # "idle" /\ v5[q].kind # "idle" => p = q \/ (Clears(p) /\ Clears(q))
  /\ (\A q \in C : v5[q].kind = "idle") => v2 \cap v4 = v3["u"]
  /\ (\E q \in C : Clears(q))
       => \A c \in v3["u"] : \E p \in C : Clears(p) /\ v5[p].step = "sent" /\ v5[p].c = c

HeartInv == HeartTyped /\ (~v8 /\ v1 # "none" => HeartsAddUp)

LEMMA HeartSorts ==
  /\ Fav!NoReq \in HeartReqs /\ Fav!NoReq.kind = "idle" /\ Fav!NoReq.step = "idle"
  /\ Fav!Closed \in HeartPages /\ Fav!NoFetch \in HeartLoads /\ Fav!None = "none"
BY DEF Fav!NoReq, HeartReqs, Fav!Closed, HeartPages, Fav!NoFetch, HeartLoads, Fav!None

LEMMA HeartInit == Fav!Init => HeartInv
<1> SUFFICES ASSUME Fav!Init PROVE HeartInv
  OBVIOUS
<1>1. /\ v1 = "none" /\ v2 = {} /\ v3 \in [{"u"} -> SUBSET X] /\ v4 = X /\ v5 = [q \in C |-> Fav!NoReq]
      /\ v6 = Fav!Closed /\ v7 = [f \in Y |-> Fav!NoFetch] /\ v8 = FALSE
  BY HeartSorts DEF Fav!Init
<1> QED
  BY <1>1, HeartSorts DEF HeartInv, HeartTyped

\* Nobody is at work on the hearts.
LEMMA HeartBusy ==
  ASSUME HeartInv
  PROVE  /\ \A q \in C : Fav!Idle(q) <=> v5[q].kind = "idle"
         /\ Fav!Busy = {} <=> \A q \in C : v5[q].kind = "idle"
BY HeartSorts DEF HeartInv, HeartTyped, Fav!Idle, Fav!Busy

LEMMA HeartWatch ==
  ASSUME HeartInv, NEW new \in SUBSET X, Fav!SetIds(new)
  PROVE  v2' = new /\ v6' \in HeartPages /\ v7' \in [Y -> HeartLoads]
<1>t. v6 \in HeartPages /\ v7 \in [Y -> HeartLoads]
  BY DEF HeartInv, HeartTyped
<1>1. CASE UNCHANGED <<v6, v7>>
  BY <1>1, <1>t DEF Fav!SetIds
<1>2. CASE v6' = [v6 EXCEPT !.cars = {}] /\ UNCHANGED v7
  BY <1>2, <1>t DEF Fav!SetIds, HeartPages
<1>3. ASSUME NEW f \in Y, v7' = [v7 EXCEPT ![f] = [busy |-> TRUE, of |-> new]],
             v6' = [v6 EXCEPT !.loading = TRUE]
      PROVE  v2' = new /\ v6' \in HeartPages /\ v7' \in [Y -> HeartLoads]
  <2>1. [busy |-> TRUE, of |-> new] \in HeartLoads
    BY DEF HeartLoads
  <2>2. v6' \in HeartPages
    BY <1>3, <1>t DEF HeartPages
  <2>3. v7' \in [Y -> HeartLoads]
    BY <1>3, <1>t, <2>1
  <2> QED
    BY <2>2, <2>3 DEF Fav!SetIds
<1> QED
  BY <1>1, <1>2, <1>3 DEF Fav!SetIds, Fav!Watch

LEMMA HeartMounts ==
  ASSUME HeartInv, NEW u \in {"u", "none"}, NEW q \in C, Fav!Mount(u, q)
  PROVE  HeartInv'
<1> DEFINE load == [Fav!NoReq EXCEPT !.kind = "load", !.u = u, !.step = "sent", !.heard = TRUE]
<1>t. /\ v3 \in [{"u"} -> SUBSET X] /\ v4 \subseteq X /\ v5 \in [C -> HeartReqs] /\ v3["u"] \subseteq v4
      /\ \A r \in C : v5[r].kind = "idle" => v5[r] = Fav!NoReq
      /\ \A r \in C : v5[r].kind # "idle" => v5[r].u = "u" /\ (v5[r].kind = "load" \/ v5[r].c \in X)
  BY DEF HeartInv, HeartTyped
<1>1. /\ v1' = u /\ v2' = {} /\ v6' = Fav!Closed /\ v7' = [f \in Y |-> Fav!NoFetch]
      /\ v5' = [r \in C |-> IF r = q /\ u # "none" THEN load
                            ELSE IF v5[r].kind = "idle" THEN Fav!NoReq ELSE [v5[r] EXCEPT !.heard = FALSE]]
      /\ v8' = (Fav!Busy # {}) /\ UNCHANGED <<v3, v4>>
  BY HeartBusy, HeartSorts DEF Fav!Mount
<1>2. load \in HeartReqs /\ load.kind = "load" /\ load.u = u /\ load.step = "sent" /\ load.heard
  BY HeartSorts DEF Fav!NoReq, HeartReqs
<1> HIDE DEF load
<1>3. \A r \in C :
        /\ [v5[r] EXCEPT !.heard = FALSE] \in HeartReqs
        /\ [v5[r] EXCEPT !.heard = FALSE].kind = v5[r].kind
        /\ [v5[r] EXCEPT !.heard = FALSE].u = v5[r].u
        /\ [v5[r] EXCEPT !.heard = FALSE].c = v5[r].c
  <2>1. \A r \in C : v5[r] \in HeartReqs
    BY <1>t
  <2> QED
    BY <2>1 DEF HeartReqs
<1>4. /\ v5' \in [C -> HeartReqs]
      /\ \A r \in C : IF v5'[r].kind = "idle" THEN v5'[r] = Fav!NoReq
                      ELSE v5'[r].u = "u" /\ (v5'[r].kind = "load" \/ v5'[r].c \in X)
  <2>1. ASSUME NEW r \in C PROVE /\ v5'[r] \in HeartReqs
                               /\ IF v5'[r].kind = "idle" THEN v5'[r] = Fav!NoReq
                                  ELSE v5'[r].u = "u" /\ (v5'[r].kind = "load" \/ v5'[r].c \in X)
    <3>1. CASE r = q /\ u # "none"
      BY <3>1, <1>1, <1>2
    <3>2. CASE ~(r = q /\ u # "none") /\ v5[r].kind = "idle"
      BY <3>2, <1>1, HeartSorts
    <3>3. CASE ~(r = q /\ u # "none") /\ v5[r].kind # "idle"
      <4>1. v5'[r] = [v5[r] EXCEPT !.heard = FALSE]
        BY <3>3, <1>1
      <4> QED
        BY <4>1, <3>3, <1>3, <1>t
    <3> QED
      BY <3>1, <3>2, <3>3
  <2> QED
    BY <2>1, <1>1
<1>5. HeartTyped'
  BY <1>1, <1>4, <1>t, HeartSorts DEF HeartTyped
<1>6. ASSUME ~v8', v1' # "none" PROVE HeartsAddUp'
  <2>1. \A r \in C : v5'[r] = IF r = q THEN load ELSE Fav!NoReq
    BY <1>1, <1>6, HeartBusy
  <2>2. AddsUp(load)'
    BY <1>1, <1>2, <1>6 DEF AddsUp
  <2>3. AddsUp(v5[q])' /\ v5'[q].kind = "load"
    BY <2>1, <2>2, <1>2 DEF AddsUp
  <2>4. \A r \in C : r # q => v5'[r].kind = "idle"
    BY <2>1, HeartSorts
  <2> QED
    BY <2>3, <2>4 DEF HeartsAddUp, Clears
<1> QED
  BY <1>5, <1>6 DEF HeartInv

\* A heart that is pressed while nothing is under way.
LEMMA HeartToggles ==
  ASSUME NamesApart, HeartInv, NEW c \in X, NEW q \in C, Fav!toggle(c, q)
  PROVE  HeartInv'
<1> DEFINE kind == IF c \in v2 THEN "remove" ELSE "add"
           new == IF c \in v2 THEN v2 \ {c} ELSE v2 \cup {c}
           r == Fav!Sent(kind, c)
<1>t. /\ v1 \in {"u", "none"} /\ v2 \subseteq X /\ v3 \in [{"u"} -> SUBSET X] /\ v4 \subseteq X
      /\ v5 \in [C -> HeartReqs] /\ v3["u"] \subseteq v4 /\ v8 \in BOOLEAN
      /\ \A p \in C : v5[p].kind = "idle" => v5[p] = Fav!NoReq
      /\ \A p \in C : v5[p].kind # "idle" => v5[p].u = "u" /\ (v5[p].kind = "load" \/ v5[p].c \in X)
  BY DEF HeartInv, HeartTyped
<1>1. /\ v1 = "u" /\ v5[q].kind = "idle" /\ v5' = [v5 EXCEPT ![q] = r] /\ v8' = (v8 \/ Fav!Busy # {})
      /\ Fav!SetIds(new) /\ UNCHANGED <<v1, v3, v4>>
  BY <1>t, HeartBusy, HeartSorts DEF Fav!toggle, Fav!Send, Fav!others
<1>2. /\ r \in HeartReqs /\ r.kind = kind /\ r.c = c /\ r.u = "u" /\ r.step = "sent" /\ r.heard
  BY <1>1 DEF Fav!Sent, HeartReqs
<1>3. v2' = new /\ v6' \in HeartPages /\ v7' \in [Y -> HeartLoads]
  BY <1>1, <1>t, HeartWatch
<1> HIDE DEF r
<1>4. v5' \in [C -> HeartReqs] /\ v5'[q] = r /\ \A p \in C : p # q => v5'[p] = v5[p]
  BY <1>1, <1>2, <1>t
<1>5. HeartTyped'
  BY <1>1, <1>2, <1>3, <1>4, <1>t DEF HeartTyped
<1>6. ASSUME ~v8', v1' # "none" PROVE HeartsAddUp'
  <2>1. ~v8 /\ \A p \in C : v5[p].kind = "idle"
    BY <1>1, <1>6, HeartBusy
  <2>2. v2 \cap v4 = v3["u"]
    BY <2>1, <1>1 DEF HeartInv, HeartsAddUp
  <2>3. AddsUp(v5[q])'
    BY <2>2, <1>1, <1>2, <1>3, <1>4 DEF AddsUp
  <2>4. v5'[q].kind \in {"add", "remove"} /\ \A p \in C : p # q => v5'[p].kind = "idle"
    BY <1>2, <1>4, <2>1
  <2> QED
    BY <2>3, <2>4 DEF HeartsAddUp, Clears
<1> QED
  BY <1>5, <1>6 DEF HeartInv

LEMMA HeartClears ==
  ASSUME NamesApart, HeartInv, Fav!clear
  PROVE  HeartInv'
<1>t. /\ v1 \in {"u", "none"} /\ v2 \subseteq X /\ v3 \in [{"u"} -> SUBSET X] /\ v4 \subseteq X
      /\ v5 \in [C -> HeartReqs] /\ v3["u"] \subseteq v4 /\ v8 \in BOOLEAN
      /\ \A p \in C : v5[p].kind = "idle" => v5[p] = Fav!NoReq
      /\ \A p \in C : v5[p].kind # "idle" => v5[p].u = "u" /\ (v5[p].kind = "load" \/ v5[p].c \in X)
  BY DEF HeartInv, HeartTyped
<1>1. PICK to \in [v2 -> C] :
        /\ \A c, d \in v2 : to[c] = to[d] => c = d
        /\ v5' = [q \in C |-> IF \E c \in v2 : to[c] = q
                              THEN Fav!Sent("clear", CHOOSE c \in v2 : to[c] = q) ELSE v5[q]]
  BY DEF Fav!clear
<1>2. v1 = "u" /\ v2 # {} /\ v8' = (v8 \/ Fav!Busy # {}) /\ Fav!SetIds({}) /\ UNCHANGED <<v1, v3, v4>>
  BY <1>t, HeartSorts DEF Fav!clear, Fav!others
<1>3. v2' = {} /\ v6' \in HeartPages /\ v7' \in [Y -> HeartLoads]
  BY <1>2, HeartWatch
<1>4. \A c \in v2 : LET r == Fav!Sent("clear", c) IN
        r \in HeartReqs /\ r.kind = "clear" /\ r.c = c /\ r.u = "u" /\ r.step = "sent" /\ r.heard
  BY <1>2, <1>t DEF Fav!Sent, HeartReqs
<1>5. \A c \in v2 : v5'[to[c]] = Fav!Sent("clear", c) /\ to[c] \in C
  <2>1. SUFFICES ASSUME NEW c \in v2 PROVE v5'[to[c]] = Fav!Sent("clear", c) /\ to[c] \in C
    OBVIOUS
  <2>2. (CHOOSE d \in v2 : to[d] = to[c]) = c
    BY <1>1
  <2> QED
    BY <2>2, <1>1
<1>6. \A q \in C : (\E c \in v2 : q = to[c]) \/ v5'[q] = v5[q]
  BY <1>1
<1>7. \A q \in C : /\ v5'[q] \in HeartReqs
                  /\ IF v5'[q].kind = "idle" THEN v5'[q] = Fav!NoReq
                     ELSE v5'[q].u = "u" /\ (v5'[q].kind = "load" \/ v5'[q].c \in X)
  BY <1>4, <1>5, <1>6, <1>t
<1>8. v5' \in [C -> HeartReqs]
  BY <1>1, <1>7
<1>9. HeartTyped'
  BY <1>2, <1>3, <1>7, <1>8, <1>t DEF HeartTyped
<1>10. ASSUME ~v8', v1' # "none" PROVE HeartsAddUp'
  <2>1. ~v8 /\ \A p \in C : v5[p].kind = "idle"
    BY <1>2, <1>10, HeartBusy
  <2>2. v2 \cap v4 = v3["u"]
    BY <2>1, <1>2 DEF HeartInv, HeartsAddUp
  <2>3. \A q \in C : v5'[q].kind # "idle" => v5'[q].kind = "clear" /\ v5'[q].step = "sent" /\ v5'[q].heard /\ v5'[q].u = "u"
    BY <2>1, <1>4, <1>5, <1>6
  <2>4. \A q \in C : v5'[q].kind # "idle" => AddsUp(v5[q])'
    BY <2>3, <1>3 DEF AddsUp
  <2>5. \A c \in v3["u"] : \E p \in C : v5'[p].kind = "clear" /\ v5'[p].step = "sent" /\ v5'[p].c = c
    BY <2>2, <1>4, <1>5
  <2>6. \E p \in C : v5'[p].kind # "idle"
    <3>1. PICK c \in v2 : TRUE
      BY <1>2
    <3> QED
      BY <3>1, <1>4, <1>5
  <2> QED
    BY <2>3, <2>4, <2>5, <2>6, <1>2 DEF HeartsAddUp, Clears
<1> QED
  BY <1>9, <1>10 DEF HeartInv

LEMMA HeartTypes ==
  ASSUME HeartInv
  PROVE  /\ v1 \in {"u", "none"} /\ v2 \subseteq X /\ v3 \in [{"u"} -> SUBSET X] /\ v4 \subseteq X
         /\ v5 \in [C -> HeartReqs] /\ v6 \in HeartPages /\ v7 \in [Y -> HeartLoads]
         /\ v3["u"] \subseteq v4 /\ v8 \in BOOLEAN
         /\ \A p \in C : v5[p].kind = "idle" => v5[p] = Fav!NoReq
         /\ \A p \in C : v5[p].kind # "idle" => v5[p].u = "u" /\ (v5[p].kind = "load" \/ v5[p].c \in X)
BY DEF HeartInv, HeartTyped

LEMMA HeartLeaves ==
  ASSUME HeartInv, Fav!Logout \/ Fav!DropTokens
  PROVE  HeartInv'
<1>1. v1' = "none" /\ v2' \subseteq X /\ UNCHANGED <<v3, v4, v5, v8>>
  BY HeartTypes, HeartSorts DEF Fav!Logout, Fav!DropTokens, Fav!AfterLogout
<1>2. v6' \in HeartPages /\ v7' \in [Y -> HeartLoads]
  BY HeartTypes, HeartSorts DEF Fav!Logout, Fav!DropTokens
<1> QED
  BY <1>1, <1>2 DEF HeartInv, HeartTyped

\* The page draws the hearts, and changes none.
LEMMA HeartDraws ==
  ASSUME HeartInv, Fav!OpenPage \/ Fav!ClosePage \/ \E f \in Y : Fav!PageLoaded(f)
  PROVE  HeartInv'
<1>1. UNCHANGED <<v1, v2, v3, v4, v5, v8>>
  BY DEF Fav!OpenPage, Fav!ClosePage, Fav!PageLoaded
<1>2. v6' \in HeartPages /\ v7' \in [Y -> HeartLoads]
  <2>1. CASE Fav!ClosePage
    BY <2>1, HeartSorts DEF Fav!ClosePage
  <2>2. CASE Fav!OpenPage
    <3>1. /\ [Fav!Closed EXCEPT !.open = TRUE] \in HeartPages
          /\ [Fav!Closed EXCEPT !.open = TRUE, !.loading = TRUE] \in HeartPages
          /\ [busy |-> TRUE, of |-> v2] \in HeartLoads
      BY HeartTypes DEF Fav!Closed, HeartPages, HeartLoads
    <3> QED
      BY <2>2, <3>1, HeartTypes DEF Fav!OpenPage
  <2>3. ASSUME NEW f \in Y, Fav!PageLoaded(f) PROVE v6' \in HeartPages /\ v7' \in [Y -> HeartLoads]
    <3>1. PICK got \in SUBSET (v7[f].of \cap v4) :
            v6' = [v6 EXCEPT !.cars = got, !.missing = v7[f].of \ got, !.loading = FALSE]
      BY <2>3 DEF Fav!PageLoaded, Fav!AfterFetch
    <3>2. v7[f].of \subseteq X
      BY HeartTypes DEF HeartLoads
    <3>3. v6' \in HeartPages
      BY <3>1, <3>2, HeartTypes DEF HeartPages
    <3> QED
      BY <3>3, <2>3, HeartTypes, HeartSorts DEF Fav!PageLoaded
  <2> QED
    BY <2>1, <2>2, <2>3
<1>3. HeartsAddUp' <=> HeartsAddUp
  BY <1>1 DEF HeartsAddUp, AddsUp, Clears
<1> QED
  BY <1>1, <1>2, <1>3 DEF HeartInv, HeartTyped

\* The server works on a request.
LEMMA HeartReplies ==
  ASSUME HeartInv, NEW q \in C, NEW r \in HeartReqs, v5[q].kind # "idle",
         v5' = [v5 EXCEPT ![q] = r], r.kind = v5[q].kind, r.c = v5[q].c, r.u = v5[q].u,
         r.heard = v5[q].heard, UNCHANGED <<v1, v2, v4, v6, v7, v8>>,
         v3' \in [{"u"} -> SUBSET X], v3'["u"] \subseteq v4,
         ~v8 /\ v1 # "none" /\ AddsUp(v5[q]) => AddsUp(r)',
         r.kind = "clear" => v3'["u"] = v3["u"] \ {r.c}
  PROVE  HeartInv'
<1>1. v5' \in [C -> HeartReqs] /\ v5'[q] = r /\ \A p \in C : p # q => v5'[p] = v5[p]
  BY HeartTypes
<1>2. HeartTyped'
  BY <1>1, HeartTypes DEF HeartTyped
<1>3. ASSUME ~v8', v1' # "none" PROVE HeartsAddUp'
  <2>1. ~v8 /\ v1 # "none" /\ HeartsAddUp
    BY <1>3 DEF HeartInv
  <2>2. AddsUp(v5[q])'
    BY <2>1, <1>1 DEF HeartsAddUp
  <2>3. ASSUME NEW p \in C, p # q, v5[p].kind # "idle" PROVE AddsUp(v5[p])' /\ Clears(p) /\ Clears(q)
    <3>1. Clears(p) /\ Clears(q) /\ AddsUp(v5[p])
      BY <2>3, <2>1 DEF HeartsAddUp
    <3>2. v5'[p] = v5[p] /\ v5[p].kind = "clear"
      BY <3>1, <2>3, <1>1 DEF Clears
    <3> QED
      BY <3>1, <3>2 DEF AddsUp
  <2>4. \A p \in C : v5'[p].kind # "idle" => AddsUp(v5[p])'
    BY <2>2, <2>3, <1>1
  <2>5. \A a, b \in C : v5'[a].kind # "idle" /\ v5'[b].kind # "idle" => a = b \/ (Clears(a)' /\ Clears(b)')
    BY <2>3, <1>1 DEF Clears
  <2>6. (\E p \in C : Clears(p)') =>
          \A c \in v3'["u"] : \E p \in C : Clears(p)' /\ v5'[p].step = "sent" /\ v5'[p].c = c
    <3>1. SUFFICES ASSUME NEW z \in C, Clears(z)', NEW c \in v3'["u"]
                   PROVE  \E p \in C : Clears(p)' /\ v5'[p].step = "sent" /\ v5'[p].c = c
      OBVIOUS
    <3>2. r.kind = "clear" /\ Clears(q)
      BY <3>1, <2>3, <1>1 DEF Clears
    <3>3. c \in v3["u"] /\ c # r.c
      BY <3>1, <3>2
    <3>4. PICK p \in C : Clears(p) /\ v5[p].step = "sent" /\ v5[p].c = c
      BY <2>1, <3>2, <3>3 DEF HeartsAddUp
    <3> QED
      BY <3>3, <3>4, <1>1 DEF Clears
  <2>7. v5'[q].kind # "idle"
    BY <1>1
  <2> QED
    BY <2>4, <2>5, <2>6, <2>7 DEF HeartsAddUp, Clears
<1> QED
  BY <1>2, <1>3 DEF HeartInv

LEMMA HeartServes ==
  ASSUME HeartInv, NEW q \in C,
         Fav!list_favorites(q) \/ Fav!AddChecked(q) \/ Fav!AddCommitted(q) \/ Fav!remove_favorite(q)
  PROVE  HeartInv'
<1>t. v5[q] \in HeartReqs /\ v3["u"] \subseteq v4
  BY HeartTypes
<1>1. CASE Fav!list_favorites(q)
  <2>q. PICK r : r = [v5[q] EXCEPT !.step = "ok", !.data = v3["u"]]
    OBVIOUS
  <2>r. /\ r \in HeartReqs
        /\ r.kind = v5[q].kind /\ r.c = v5[q].c /\ r.u = v5[q].u /\ r.heard = v5[q].heard
        /\ r.step = "ok" /\ r.data = v3["u"]
    BY <2>q, <1>t, HeartTypes DEF HeartReqs
  <2>1. /\ v5[q].kind = "load" /\ v5[q].step = "sent" /\ v5[q].u = "u"
        /\ UNCHANGED <<v1, v2, v3, v4, v6, v7, v8>>
    BY <1>1, HeartTypes DEF Fav!list_favorites
  <2>2. v5' = [v5 EXCEPT ![q] = r]
    BY <1>1, <2>1, <2>q DEF Fav!list_favorites
  <2>3. r.kind = "load"
    BY <2>1, <2>r
  <2>4. AddsUp(v5[q]) => AddsUp(r)'
    BY <2>1, <2>3, <2>r, <1>t DEF AddsUp
  <2> QED
    BY <2>1, <2>2, <2>3, <2>4, <2>r, HeartReplies, HeartTypes
<1>2. CASE Fav!AddChecked(q)
  <2>1. PICK step \in {"404", "failed", "counted"} :
          /\ v5' = [v5 EXCEPT ![q].step = step] /\ (step = "404" => v5[q].c \notin v4)
    BY <1>2 DEF Fav!AddChecked, Fav!Reply
  <2>q. PICK r : r = [v5[q] EXCEPT !.step = step]
    OBVIOUS
  <2>r. /\ r \in HeartReqs
        /\ r.kind = v5[q].kind /\ r.c = v5[q].c /\ r.u = v5[q].u /\ r.heard = v5[q].heard
        /\ r.step = step
    BY <2>q, <1>t, <2>1 DEF HeartReqs
  <2>2. v5[q].kind = "add" /\ v5[q].step = "sent" /\ UNCHANGED <<v1, v2, v3, v4, v6, v7, v8>>
    BY <1>2 DEF Fav!AddChecked
  <2>3. v5' = [v5 EXCEPT ![q] = r]
    BY <2>1, <2>q
  <2>4. r.kind = "add"
    BY <2>2, <2>r
  <2>5. AddsUp(v5[q]) => AddsUp(r)'
    BY <2>1, <2>2, <2>4, <2>r, <1>t DEF AddsUp
  <2> QED
    BY <2>2, <2>3, <2>4, <2>5, <2>r, HeartReplies, HeartTypes
<1>3. CASE Fav!AddCommitted(q)
  <2>1. PICK step \in {"ok", "failed"} :
          /\ v5' = [v5 EXCEPT ![q].step = step]
          /\ \/ step = "ok" /\ v5[q].c \in v4 /\ v3' = [v3 EXCEPT !["u"] = @ \cup {v5[q].c}]
             \/ step = "failed" /\ v3' = v3
    BY <1>3, HeartTypes DEF Fav!AddCommitted, Fav!Reply
  <2>q. PICK r : r = [v5[q] EXCEPT !.step = step]
    OBVIOUS
  <2>r. /\ r \in HeartReqs
        /\ r.kind = v5[q].kind /\ r.c = v5[q].c /\ r.u = v5[q].u /\ r.heard = v5[q].heard
        /\ r.step = step
    BY <2>q, <1>t, <2>1 DEF HeartReqs
  <2>2. v5[q].kind = "add" /\ v5[q].step = "counted" /\ UNCHANGED <<v1, v2, v4, v6, v7, v8>>
    BY <1>3 DEF Fav!AddCommitted
  <2>3. v5' = [v5 EXCEPT ![q] = r]
    BY <2>1, <2>q
  <2>4. r.kind = "add"
    BY <2>2, <2>r
  <2>5. /\ v3' \in [{"u"} -> SUBSET X]
        /\ v3'["u"] = IF step = "ok" THEN v3["u"] \cup {v5[q].c} ELSE v3["u"]
        /\ step = "ok" => v5[q].c \in v4
    <3>1. CASE step = "ok" /\ v5[q].c \in v4 /\ v3' = [v3 EXCEPT !["u"] = @ \cup {v5[q].c}]
      <4>1. v3["u"] \cup {v5[q].c} \in SUBSET X
        BY <3>1, HeartTypes
      <4>2. v3' = [v3 EXCEPT !["u"] = v3["u"] \cup {v5[q].c}]
        BY <3>1
      <4> QED
        BY <3>1, <4>1, <4>2, HeartTypes
    <3>2. CASE step = "failed" /\ v3' = v3
      BY <3>2, HeartTypes
    <3> QED
      BY <2>1, <3>1, <3>2
  <2>6. v3'["u"] \subseteq v4
    BY <2>5, <1>t
  <2>7. AddsUp(v5[q]) => AddsUp(r)'
    BY <2>2, <2>4, <2>5, <2>r, <1>t DEF AddsUp
  <2> QED
    BY <2>2, <2>3, <2>4, <2>5, <2>6, <2>7, <2>r, HeartReplies, HeartTypes
<1>4. CASE Fav!remove_favorite(q)
  <2>q. PICK r : r = [v5[q] EXCEPT !.step = "ok"]
    OBVIOUS
  <2>r. /\ r \in HeartReqs
        /\ r.kind = v5[q].kind /\ r.c = v5[q].c /\ r.u = v5[q].u /\ r.heard = v5[q].heard
        /\ r.step = "ok"
    BY <2>q, <1>t DEF HeartReqs
  <2>1. /\ v5[q].kind \in {"remove", "clear"} /\ v5[q].step = "sent"
        /\ UNCHANGED <<v1, v2, v4, v6, v7, v8>> /\ v5' = [v5 EXCEPT ![q] = r]
    BY <1>4, <2>q DEF Fav!remove_favorite, Fav!Reply
  <2>2. v3' = [v3 EXCEPT !["u"] = @ \ {v5[q].c}]
    BY <1>4, <2>1, HeartTypes DEF Fav!remove_favorite
  <2>3. v3' \in [{"u"} -> SUBSET X] /\ v3'["u"] = v3["u"] \ {v5[q].c}
    BY <2>2, HeartTypes
  <2>4. AddsUp(v5[q]) => AddsUp(r)'
    BY <2>1, <2>3, <2>r DEF AddsUp
  <2> QED
    BY <2>1, <2>3, <2>4, <2>r, <1>t, HeartReplies
<1> QED
  BY <1>1, <1>2, <1>3, <1>4

LEMMA HeartLost ==
  ASSUME HeartInv, NEW q \in C, Fav!Lost(q)
  PROVE  HeartInv'
<1> DEFINE r == [v5[q] EXCEPT !.step = "failed", !.data = {}]
<1>1. v5' = [v5 EXCEPT ![q] = r] /\ v8' /\ UNCHANGED <<v1, v2, v3, v4, v6, v7>> /\ v5[q].step # "idle"
  BY DEF Fav!Lost
<1>2. r \in HeartReqs /\ r.kind = v5[q].kind /\ r.c = v5[q].c /\ r.u = v5[q].u
  BY HeartTypes DEF HeartReqs
<1>3. v5[q].kind # "idle"
  BY <1>1, HeartTypes, HeartSorts
<1> HIDE DEF r
<1>4. v5' \in [C -> HeartReqs] /\ v5'[q] = r /\ \A p \in C : p # q => v5'[p] = v5[p]
  BY <1>1, <1>2, HeartTypes
<1>5. HeartTyped'
  BY <1>1, <1>2, <1>3, <1>4, HeartTypes DEF HeartTyped
<1> QED
  BY <1>1, <1>5 DEF HeartInv

\* The listing goes, and with it the rows of favorites: the hearts that are left agree.
LEMMA HeartGone ==
  ASSUME HeartInv, NEW c \in X, Fav!ListingGone(c)
  PROVE  HeartInv'
<1>1. /\ v4' = v4 \ {c} /\ v3' = [u \in {"u"} |-> v3[u] \ {c}] /\ UNCHANGED <<v1, v2, v5, v6, v7, v8>>
  BY DEF Fav!ListingGone
<1>2. v3' \in [{"u"} -> SUBSET X] /\ v3'["u"] = v3["u"] \ {c}
  BY <1>1, HeartTypes
<1>3. HeartTyped'
  BY <1>1, <1>2, HeartTypes DEF HeartTyped
<1>4. \A r : AddsUp(r) => AddsUp(r)'
  BY <1>1, <1>2 DEF AddsUp
<1>5. HeartsAddUp => HeartsAddUp'
  BY <1>1, <1>2, <1>4 DEF HeartsAddUp, Clears
<1> QED
  BY <1>1, <1>3, <1>5 DEF HeartInv

LEMMA HeartAnswers ==
  ASSUME HeartInv, NEW q \in C, Fav!Answered(q)
  PROVE  HeartInv'
<1> DEFINE new == IF v5[q].heard THEN Fav!AfterAnswer(v5[q]) ELSE v2
<1>t. /\ v5[q] \in HeartReqs /\ v5[q].step \in {"ok", "failed", "404"} /\ v2 \subseteq X
      /\ v3["u"] \subseteq v4
  BY HeartTypes DEF Fav!Answered
<1>1. /\ v5[q].kind # "idle" /\ v5' = [v5 EXCEPT ![q] = Fav!NoReq] /\ UNCHANGED <<v1, v3, v4>>
      /\ v8' = (v8 \/ (v5[q].kind = "load" /\ v5[q].step = "failed"))
  BY <1>t, HeartTypes, HeartSorts DEF Fav!Answered, Fav!others
<1>2. new \subseteq X
  BY <1>1, <1>t, HeartTypes DEF Fav!AfterAnswer, HeartReqs
<1>3. v2' = new /\ v6' \in HeartPages /\ v7' \in [Y -> HeartLoads]
  <2>1. CASE v5[q].heard
    BY <2>1, <1>2, HeartWatch DEF Fav!Answered
  <2>2. CASE ~v5[q].heard
    BY <2>2, HeartTypes DEF Fav!Answered
  <2> QED
    BY <2>1, <2>2
<1>4. v5' \in [C -> HeartReqs] /\ v5'[q] = Fav!NoReq /\ \A p \in C : p # q => v5'[p] = v5[p]
  BY <1>1, HeartTypes, HeartSorts
<1>5. HeartTyped'
  BY <1>1, <1>2, <1>3, <1>4, HeartTypes, HeartSorts DEF HeartTyped
<1>6. ASSUME ~v8', v1' # "none" PROVE HeartsAddUp'
  <2>1. ~v8 /\ HeartsAddUp /\ ~(v5[q].kind = "load" /\ v5[q].step = "failed")
    BY <1>1, <1>6, HeartTypes DEF HeartInv
  <2>2. AddsUp(v5[q]) /\ v5[q].heard
    BY <2>1, <1>1 DEF HeartsAddUp, AddsUp
  <2>3. v5[q].kind # "clear" => new \cap v4 = v3["u"]
    BY <2>1, <2>2, <1>1, <1>t DEF AddsUp, Fav!AfterAnswer, HeartReqs
  <2>4. v5[q].kind = "clear" => new = v2 /\ v2 = {} /\ v5[q].step = "ok"
    BY <2>2, <1>t DEF AddsUp, Fav!AfterAnswer
  <2>5. CASE ~Clears(q)
    <3>1. \A p \in C : v5'[p].kind = "idle"
      BY <2>1, <2>5, <1>1, <1>4, HeartSorts DEF HeartsAddUp
    <3> QED
      BY <3>1, <2>3, <2>5, <1>1, <1>3 DEF HeartsAddUp, Clears
  <2>6. CASE Clears(q)
    <3>1. new = v2 /\ v2 = {} /\ v5[q].step = "ok"
      BY <2>4, <2>6 DEF Clears
    <3>2. v2' = v2
      BY <3>1, <1>3
    <3>3. \A p \in C : v5'[p].kind # "idle" => p # q /\ v5'[p] = v5[p] /\ AddsUp(v5[p]) /\ Clears(p)
      BY <1>1, <1>4, <2>1, HeartSorts DEF HeartsAddUp
    <3>4. \A p \in C : v5'[p].kind # "idle" => AddsUp(v5[p])'
      BY <3>2, <3>3, <1>1 DEF AddsUp
    <3>5. \A c \in v3["u"] : \E p \in C : Clears(p) /\ v5[p].step = "sent" /\ v5[p].c = c
      BY <2>1, <2>6 DEF HeartsAddUp
    <3>6. \A c \in v3["u"] : \E p \in C : Clears(p)' /\ v5'[p].step = "sent" /\ v5'[p].c = c
      BY <3>1, <3>5, <1>4 DEF Clears
    <3>7. (\A p \in C : v5'[p].kind = "idle") => v3["u"] = {}
      BY <3>6 DEF Clears
    <3> QED
      BY <3>1, <3>2, <3>3, <3>4, <3>6, <3>7, <1>1 DEF HeartsAddUp, Clears
  <2> QED
    BY <2>5, <2>6
<1> QED
  BY <1>5, <1>6 DEF HeartInv

LEMMA HeartNext == NamesApart /\ HeartInv /\ Fav!Next => HeartInv'
<1> SUFFICES ASSUME NamesApart, HeartInv, Fav!Next PROVE HeartInv'
  OBVIOUS
<1>1. ASSUME NEW q \in C, Fav!Login("u", q) \/ Fav!ReloadTab(q) PROVE HeartInv'
  BY <1>1, HeartMounts, HeartTypes DEF Fav!Login, Fav!ReloadTab
<1>2. ASSUME NEW q \in C, NEW c \in X, Fav!PressHeart(c, q) \/ Fav!RemoveMissing(c, q) PROVE HeartInv'
  BY <1>2, HeartToggles DEF Fav!PressHeart, Fav!RemoveMissing
<1>3. ASSUME NEW q \in C, Fav!Serve(q) PROVE HeartInv'
  BY <1>3, HeartServes, HeartAnswers DEF Fav!Serve
<1> QED
  BY <1>1, <1>2, <1>3, HeartClears, HeartLeaves, HeartDraws, HeartLost, HeartGone DEF Fav!Next

LEMMA HeartSays == HeartInv => Fav!TypeOK /\ Fav!QuietAgrees
<1> SUFFICES ASSUME HeartInv PROVE Fav!TypeOK /\ Fav!QuietAgrees
  OBVIOUS
<1>1. Fav!TypeOK
  BY HeartTypes, HeartSorts DEF Fav!TypeOK, HeartReqs, HeartPages, HeartLoads
<1>2. Fav!QuietAgrees
  BY HeartTypes, HeartBusy, HeartSorts DEF Fav!QuietAgrees, HeartInv, HeartsAddUp
<1> QED
  BY <1>1, <1>2

LEMMA HeartStill == HeartInv /\ UNCHANGED <<v1, v2, v3, v4, v5, v6, v7, v8>> => HeartInv'
BY DEF HeartInv, HeartTyped, HeartsAddUp, AddsUp, Clears

-----------------------------------------------------------------------------
(* Reservations: v1 the rows, v2 who marked the outcome, v3 what each party marked, v4 the  *)
(* payment pages, v5 the page, v6 its requests, v7 its loads, v8 how many were lost.        *)
Rsv == INSTANCE MyReservations WITH
  Parties <- {"buyer", "seller"}, Outcomes <- {"sold"}, Res <- X, Pages <- {"buyer"},
  Calls <- C, Loads <- Y,
  db <- v1, set_by <- v2, mark <- v3, paylink <- v4, page <- v5, call <- v6, load <- v7, faults <- v8
BookingCalls == {Rsv!Free} \cup
  [phase : {"sent", "ok", "url", "no_url", "error"}, op : Rsv!Ops, r : X, heard : BOOLEAN]
BookingLoads == {Rsv!Free, Rsv!Requested}
  \cup [phase : {"answered"}, data : Rsv!Lists]
  \cup [phase : {"details"}, data : Rsv!Lists, todo : SUBSET X]

BookingTyped ==
  /\ v1 \in [X -> Rsv!Row] /\ v2 \in [X -> {"buyer", "seller", "none"}]
  /\ v5 \in [{"buyer"} -> Rsv!Page]
  /\ v6 \in [{"buyer"} -> [C -> BookingCalls]] /\ v7 \in [{"buyer"} -> [Y -> BookingLoads]]

\* The row came at least that far, and never was taken for one that is not there yet.
Past(r, n) == n > 0 => v1[r].status # "absent" /\ Rsv!Progress(v1[r].status) >= n
\* What a success says of the row.
Means(op) == IF op \in {"cancel", "decline"} THEN 3 ELSE IF op = "sold" THEN 2 ELSE 0
\* Rows are drawn whole, and none as it was before what the page was told.
Whole(list) == \A r \in X : list[r].status = "absent" => list[r] = Rsv!Nothing
NotBefore(list, known) == \A r \in X : Rsv!Progress(list[r].status) >= known[r]

KnownIsPast == \A r \in X : Past(r, v5["buyer"].known[r])
Speaks(c) ==
  /\ v6["buyer"][c].phase = "ok" => Past(v6["buyer"][c].r, Means(v6["buyer"][c].op))
  /\ v6["buyer"][c].phase = "no_url" => v6["buyer"][c].op = "pay"
AnswersArePast == \A c \in C : Speaks(c)
\* A list on its way was read after the page was told, unless two loads overlapped.
Later(run) ==
  /\ run.phase \in {"answered", "details"} =>
       /\ Whole(run.data)
       /\ ~v5["buyer"].overlap => NotBefore(run.data, v5["buyer"].known)
  /\ run.phase = "details" => \A r \in run.todo : run.data[r].status # "absent"
ListsAreLater == \A y \in Y : Later(v7["buyer"][y])
ListIsLater ==
  /\ Whole(v5["buyer"].list)
  /\ ~v5["buyer"].loading /\ ~v5["buyer"].overlap => NotBefore(v5["buyer"].list, v5["buyer"].known)

BookingInv == BookingTyped /\ KnownIsPast /\ AnswersArePast /\ ListsAreLater /\ ListIsLater

LEMMA BookingSorts ==
  /\ Rsv!Free.phase = "free" /\ Rsv!Requested.phase = "sent" /\ Rsv!None = "none"
  /\ Rsv!Nothing \in Rsv!Shown /\ Rsv!Nothing.status = "absent"
  /\ Rsv!NoList \in Rsv!Lists /\ Whole(Rsv!NoList)
  /\ Rsv!Ops = {"cancel", "decline", "delete", "pay", "sold"}
  /\ Rsv!NoRow \in Rsv!Row /\ Rsv!build_reservation \in Rsv!Row
  /\ Rsv!NoRow.status = "absent" /\ Rsv!build_reservation.status = "pending_payment"
<1>1. Rsv!NoRow \in Rsv!Row /\ Rsv!NoRow.status = "absent"
  BY DEF Rsv!NoRow, Rsv!Row, Rsv!None, Rsv!CancelReasons
<1>2. Rsv!build_reservation \in Rsv!Row /\ Rsv!build_reservation.status = "pending_payment"
  BY DEF Rsv!build_reservation, Rsv!NoRow, Rsv!Row, Rsv!None, Rsv!CancelReasons, Rsv!OpenStatuses
<1>3. Rsv!Nothing \in Rsv!Shown /\ Rsv!Nothing.status = "absent"
  BY DEF Rsv!Nothing, Rsv!Shown, Rsv!None
<1> QED
  BY <1>1, <1>2, <1>3 DEF Rsv!Free, Rsv!Requested, Rsv!None, Rsv!NoList, Rsv!Lists, Whole, Rsv!Ops

LEMMA ProgressBounds ==
  /\ \A s : Rsv!Progress(s) \in 0..3
  /\ Rsv!Progress("absent") = 3 /\ Rsv!Progress("deleted") = 3 /\ Rsv!Progress("cancelled") = 3
  /\ Rsv!Progress("completed") = 3 /\ Rsv!Progress("settling") = 2 /\ Rsv!Progress("active") = 1
  /\ Rsv!Progress("pending_payment") = 0
BY DEF Rsv!Progress

LEMMA BookingMounted ==
  /\ Rsv!Mounted \in Rsv!Page /\ Rsv!Mounted.list = Rsv!NoList /\ Rsv!Mounted.loading
  /\ Rsv!Mounted.known = [r \in X |-> 0] /\ ~Rsv!Mounted.overlap
BY BookingSorts DEF Rsv!Mounted, Rsv!Page

LEMMA BookingInit == Rsv!Init => BookingInv
<1> SUFFICES ASSUME Rsv!Init PROVE BookingInv
  OBVIOUS
<1>1. PICK r \in X, paid \in BOOLEAN :
        v1 = [x \in X |-> IF x = r THEN [Rsv!build_reservation EXCEPT !.paid_by = paid] ELSE Rsv!NoRow]
  BY DEF Rsv!Init
<1>2. [Rsv!build_reservation EXCEPT !.paid_by = paid] \in Rsv!Row
  BY BookingSorts DEF Rsv!Row
<1>3. v1 \in [X -> Rsv!Row] /\ v2 \in [X -> {"buyer", "seller", "none"}]
  BY <1>1, <1>2, BookingSorts DEF Rsv!Init
<1>4. v5 = [p \in {"buyer"} |-> Rsv!Mounted] /\ v6 = [p \in {"buyer"} |-> [c \in C |-> Rsv!Free]]
  BY DEF Rsv!Init
<1>5. /\ v7 \in [{"buyer"} -> [Y -> {Rsv!Free, Rsv!Requested}]]
  BY DEF Rsv!Init
<1>6. BookingTyped
  BY <1>3, <1>4, <1>5, BookingMounted DEF BookingTyped, BookingCalls, BookingLoads
<1>7. v5["buyer"] = Rsv!Mounted /\ \A c \in C : v6["buyer"][c] = Rsv!Free
  BY <1>4
<1>8. \A y \in Y : v7["buyer"][y].phase \in {"free", "sent"}
  BY <1>5, BookingSorts
<1> QED
  BY <1>6, <1>7, <1>8, BookingMounted, BookingSorts, ProgressBounds
     DEF BookingInv, KnownIsPast, Past, AnswersArePast, Speaks, ListsAreLater, Later, ListIsLater

\* Rows only go forward.
Forward == \A r \in X : v1[r].status = "absent"
                        \/ (v1'[r].status # "absent" /\ Rsv!Progress(v1'[r].status) >= Rsv!Progress(v1[r].status))

LEMMA PastStays ==
  ASSUME Forward, NEW r \in X, NEW n \in 0..3, Past(r, n)
  PROVE  Past(r, n)'
BY ProgressBounds DEF Forward, Past

\* The server answers: rows go forward, the page and its loads stay.
LEMMA BookingServes ==
  ASSUME BookingInv, UNCHANGED <<v5, v7>>, Forward, v1' \in [X -> Rsv!Row],
         v2' \in [X -> {"buyer", "seller", "none"}], v6' \in [{"buyer"} -> [C -> BookingCalls]],
         \A c \in C : v6'["buyer"][c] = v6["buyer"][c] \/ Speaks(c)'
  PROVE  BookingInv'
<1>1. BookingTyped'
  BY DEF BookingInv, BookingTyped
<1>2. v5["buyer"].known \in [X -> 0..3]
  BY DEF BookingInv, BookingTyped, Rsv!Page
<1>3. KnownIsPast'
  BY <1>2, PastStays DEF BookingInv, KnownIsPast
<1>4. AnswersArePast'
  <2>1. \A c \in C : v6["buyer"][c].phase = "ok" => v6["buyer"][c].r \in X
    BY BookingSorts DEF BookingInv, BookingTyped, BookingCalls
  <2>2. \A op : Means(op) \in 0..3
    BY DEF Means
  <2> QED
    BY <2>1, <2>2, PastStays DEF BookingInv, AnswersArePast, Speaks
<1>5. ListsAreLater'
  BY DEF BookingInv, ListsAreLater, Later, Whole, NotBefore
<1>6. ListIsLater'
  BY DEF BookingInv, ListIsLater, Whole, NotBefore
<1> QED
  BY <1>1, <1>3, <1>4, <1>5, <1>6 DEF BookingInv

LEMMA BookingStep ==
  ASSUME BookingInv, NEW r \in X, NEW row \in Rsv!Row,
         v1' = [v1 EXCEPT ![r] = row],
         row.status # "absent", Rsv!Progress(row.status) >= Rsv!Progress(v1[r].status) \/ v1[r].status = "absent"
  PROVE  v1' \in [X -> Rsv!Row] /\ Forward /\ v1'[r] = row
BY ProgressBounds DEF BookingInv, BookingTyped, Forward

LEMMA BookingMoves ==
  ASSUME BookingInv, NEW r \in X, NEW row \in Rsv!Row, v1' = [v1 EXCEPT ![r] = row],
         \/ row.status \in {"cancelled", "completed", "deleted"}
         \/ row.status = "settling" /\ v1[r].status \in {"active", "settling"}
         \/ row.status = "active" /\ v1[r].status = "pending_payment"
         \/ row.status = "pending_payment" /\ v1[r].status \in {"pending_payment", "absent"}
  PROVE  v1' \in [X -> Rsv!Row] /\ Forward /\ v1'[r] = row
<1> PICK old, new : old = v1[r].status /\ new = row.status
  OBVIOUS
<1>1. new # "absent" /\ (Rsv!Progress(new) >= Rsv!Progress(old) \/ old = "absent")
  <2>1. CASE new \in {"cancelled", "completed", "deleted"}
    <3>1. Rsv!Progress(new) = 3 /\ Rsv!Progress(old) \in 0..3
      BY <2>1, ProgressBounds
    <3> QED
      BY <2>1, <3>1
  <2>2. CASE new = "settling" /\ old \in {"active", "settling"}
    BY <2>2, ProgressBounds
  <2>3. CASE new = "active" /\ old = "pending_payment"
    BY <2>3, ProgressBounds
  <2>4. CASE new = "pending_payment" /\ old \in {"pending_payment", "absent"}
    BY <2>4, ProgressBounds
  <2> QED
    BY <2>1, <2>2, <2>3, <2>4
<1> QED
  BY <1>1, BookingStep

LEMMA BookingSame == UNCHANGED v1 => Forward
BY ProgressBounds DEF Forward

\* A reply changes one request.
LEMMA BookingReply ==
  ASSUME BookingInv, NEW p \in {"buyer"}, NEW c \in C, v6[p][c].phase # "free",
         NEW reply \in {"sent", "ok", "url", "no_url", "error"}, Rsv!Answer(p, c, reply)
  PROVE  /\ v6' \in [{"buyer"} -> [C -> BookingCalls]]
         /\ \A x \in C : x # c => v6'["buyer"][x] = v6["buyer"][x]
         /\ v6'["buyer"][c].phase = reply
         /\ v6'["buyer"][c].r = v6["buyer"][c].r /\ v6'["buyer"][c].op = v6["buyer"][c].op
         /\ v6["buyer"][c].r \in X
<1>1. p = "buyer" /\ v6 \in [{"buyer"} -> [C -> BookingCalls]]
  BY DEF BookingInv, BookingTyped
<1>2. v6["buyer"][c] \in [phase : {"sent", "ok", "url", "no_url", "error"}, op : Rsv!Ops, r : X, heard : BOOLEAN]
  BY <1>1, BookingSorts DEF BookingCalls
<1>3. PICK k : k = [v6["buyer"][c] EXCEPT !.phase = reply]
  OBVIOUS
<1>4. /\ k \in BookingCalls /\ k.phase = reply /\ k.r = v6["buyer"][c].r /\ k.op = v6["buyer"][c].op
      /\ v6["buyer"][c].r \in X
  BY <1>2, <1>3 DEF BookingCalls
<1>5. v6' = [v6 EXCEPT !["buyer"] = [v6["buyer"] EXCEPT ![c] = k]]
  BY <1>1, <1>3 DEF Rsv!Answer
<1>6. [v6["buyer"] EXCEPT ![c] = k] \in [C -> BookingCalls]
  BY <1>1, <1>4
<1>7. v6'["buyer"] = [v6["buyer"] EXCEPT ![c] = k] /\ v6' \in [{"buyer"} -> [C -> BookingCalls]]
  BY <1>5, <1>6, <1>1
<1> QED
  BY <1>7, <1>4, <1>1

\* What the transitions of a row make of it.
LEMMA BookingRows ==
  ASSUME NEW row \in Rsv!Row
  PROVE  /\ Rsv!Deleted(row) \in Rsv!Row /\ Rsv!Deleted(row).status = "deleted"
         /\ Rsv!FirstMark(row, "sold") \in Rsv!Row /\ Rsv!FirstMark(row, "sold").status = "settling"
         /\ \A p \in {"buyer", "seller"} : /\ Rsv!Correct(row, p, "sold") \in Rsv!Row
                                           /\ Rsv!Correct(row, p, "sold").status = row.status
         /\ [row EXCEPT !.paid_by = TRUE] \in Rsv!Row /\ [row EXCEPT !.paid_by = TRUE].status = row.status
         /\ Rsv!confirm_hold(row) \in Rsv!Row /\ Rsv!confirm_hold(row).status = "active"
         /\ Rsv!finalize(row) \in Rsv!Row /\ Rsv!finalize(row).status = "completed"
<1>2. Rsv!Deleted(row) \in Rsv!Row /\ Rsv!Deleted(row).status = "deleted"
  BY BookingSorts DEF Rsv!Deleted, Rsv!Row
<1>3. Rsv!FirstMark(row, "sold") \in Rsv!Row /\ Rsv!FirstMark(row, "sold").status = "settling"
  BY DEF Rsv!FirstMark, Rsv!Row, Rsv!OpenStatuses
<1>4. \A p \in {"buyer", "seller"} : /\ Rsv!Correct(row, p, "sold") \in Rsv!Row
                                     /\ Rsv!Correct(row, p, "sold").status = row.status
  BY DEF Rsv!Correct, Rsv!Row
<1>5. [row EXCEPT !.paid_by = TRUE] \in Rsv!Row /\ [row EXCEPT !.paid_by = TRUE].status = row.status
  BY DEF Rsv!Row
<1>6. Rsv!confirm_hold(row) \in Rsv!Row /\ Rsv!confirm_hold(row).status = "active"
  BY DEF Rsv!confirm_hold, Rsv!Row, Rsv!OpenStatuses
<1>7. Rsv!finalize(row) \in Rsv!Row /\ Rsv!finalize(row).status = "completed"
  BY DEF Rsv!finalize, Rsv!Row, Rsv!_TERMINAL
<1> QED
  BY <1>2, <1>3, <1>4, <1>5, <1>6, <1>7

LEMMA BookingClosed ==
  ASSUME NEW row \in Rsv!Row,
         NEW reason \in {"buyer_cancelled", "seller_declined", "payment_abandoned", "hold_expired"}
  PROVE  Rsv!cancel(row, reason) \in Rsv!Row /\ Rsv!cancel(row, reason).status = "cancelled"
BY DEF Rsv!cancel, Rsv!Row, Rsv!_TERMINAL, Rsv!CancelReasons

\* A reply that is no success says nothing of a row.
LEMMA BookingAnswers ==
  ASSUME BookingInv, NEW p \in {"buyer"}, NEW c \in C, v6[p][c].phase # "free",
         NEW reply \in {"ok", "url", "no_url", "error"}, Rsv!Answer(p, c, reply),
         v1' \in [X -> Rsv!Row], v2' \in [X -> {"buyer", "seller", "none"}], Forward,
         reply = "ok" => Past(v6[p][c].r, Means(v6[p][c].op))', reply = "no_url" => v6[p][c].op = "pay",
         UNCHANGED <<v5, v7>>
  PROVE  BookingInv'
<1>1. p = "buyer"
  OBVIOUS
<1>2. PICK r, op : r = v6["buyer"][c].r /\ op = v6["buyer"][c].op
  OBVIOUS
<1>3. v6'["buyer"][c].r = r /\ v6'["buyer"][c].op = op
  BY <1>2, BookingReply
<1>4. reply = "ok" => Past(r, Means(op))'
  BY <1>1, <1>3 DEF Past, Means
<1>5. ASSUME NEW x \in C
      PROVE  v6'["buyer"][x] = v6["buyer"][x] \/ Speaks(x)'
  <2>1. CASE x # c
    BY <2>1, BookingReply
  <2>2. CASE x = c
    BY <2>2, <1>1, BookingReply DEF Speaks
  <2> QED
    BY <2>1, <2>2
<1>6. v6' \in [{"buyer"} -> [C -> BookingCalls]]
  BY BookingReply
<1> QED
  BY <1>5, <1>6, BookingServes

LEMMA BookingAsked ==
  ASSUME BookingInv, NEW p \in {"buyer"}, NEW c \in C, v6[p][c].phase # "free"
  PROVE  /\ v6[p][c].r \in X /\ v6[p][c].op \in Rsv!Ops /\ v1[v6[p][c].r] \in Rsv!Row
         /\ v1 \in [X -> Rsv!Row] /\ v2 \in [X -> {"buyer", "seller", "none"}]
BY BookingSorts DEF BookingInv, BookingTyped, BookingCalls

LEMMA BookingCancels ==
  ASSUME BookingInv, NEW p \in {"buyer"}, NEW c \in C, Rsv!HandleCancel(p, c)
  PROVE  BookingInv'
<1>1. PICK r, op : r = v6[p][c].r /\ op = v6[p][c].op
  OBVIOUS
<1>2. PICK reply \in {"ok", "error"}, reason \in {"buyer_cancelled", "seller_declined"} :
        /\ Rsv!Answer(p, c, reply) /\ v6[p][c].phase = "sent" /\ op \in {"cancel", "decline"}
        /\ reply = "ok" <=> Rsv!Exists(v1[r])
        /\ v1' = IF v1[r].status \in Rsv!OpenStatuses THEN [v1 EXCEPT ![r] = Rsv!cancel(v1[r], reason)] ELSE v1
        /\ UNCHANGED <<v2, v5, v7>>
  BY <1>1 DEF Rsv!HandleCancel, Rsv!Asked
<1>3. r \in X /\ v1[r] \in Rsv!Row /\ v1 \in [X -> Rsv!Row] /\ v2 \in [X -> {"buyer", "seller", "none"}]
  BY <1>1, <1>2, BookingAsked
<1>4. PICK row : row = Rsv!cancel(v1[r], reason)
  OBVIOUS
<1>5. row \in Rsv!Row /\ row.status = "cancelled"
  <2>1. PICK old \in Rsv!Row : old = v1[r]
    BY <1>3
  <2> QED
    BY <2>1, <1>4, BookingRows, BookingClosed
<1>6. v1' \in [X -> Rsv!Row] /\ Forward
  BY <1>2, <1>3, <1>4, <1>5, BookingMoves, BookingSame
<1>7. reply = "ok" => Past(r, 3)'
  <2>1. v1[r].status \in Rsv!OpenStatuses => v1'[r] = row
    BY <1>2, <1>3, <1>4
  <2>2. v1[r].status \notin Rsv!OpenStatuses /\ Rsv!Exists(v1[r]) => v1[r].status \in {"cancelled", "completed"}
    BY <1>3 DEF Rsv!Exists, Rsv!Row, Rsv!_TERMINAL
  <2> QED
    BY <2>1, <2>2, <1>2, <1>5, ProgressBounds DEF Past
<1>8. Past(v6[p][c].r, Means(v6[p][c].op))' <=> Past(r, 3)'
  <2>1. v6'[p][c].r = r /\ v6'[p][c].op = op
    BY <1>1, <1>2, BookingReply
  <2> QED
    BY <2>1, <1>2 DEF Past, Means
<1> QED
  BY <1>2, <1>3, <1>6, <1>7, <1>8, BookingAnswers

LEMMA BookingDeletes ==
  ASSUME BookingInv, NEW p \in {"buyer"}, NEW c \in C, Rsv!delete_reservation(p, c)
  PROVE  BookingInv'
<1>1. PICK r, op : r = v6[p][c].r /\ op = v6[p][c].op
  OBVIOUS
<1>2. /\ v6[p][c].phase = "sent" /\ op = "delete" /\ UNCHANGED <<v2, v5, v7>>
      /\ \/ /\ v1[r].status = "cancelled" /\ Rsv!Answer(p, c, "ok")
            /\ v1' = [v1 EXCEPT ![r] = Rsv!Deleted(v1[r])]
         \/ Rsv!Answer(p, c, "error") /\ UNCHANGED v1
  BY <1>1 DEF Rsv!delete_reservation, Rsv!Asked
<1>3. r \in X /\ v1[r] \in Rsv!Row /\ v1 \in [X -> Rsv!Row] /\ v2 \in [X -> {"buyer", "seller", "none"}]
  BY <1>1, <1>2, BookingAsked
<1>4. PICK row : row = Rsv!Deleted(v1[r])
  OBVIOUS
<1>5. row \in Rsv!Row /\ row.status = "deleted"
  <2>1. PICK old \in Rsv!Row : old = v1[r]
    BY <1>3
  <2> QED
    BY <2>1, <1>4, BookingRows, BookingClosed
<1>6. v1' \in [X -> Rsv!Row] /\ Forward
  BY <1>2, <1>3, <1>4, <1>5, BookingMoves, BookingSame
<1>7. ASSUME NEW reply \in {"ok", "error"}, Rsv!Answer(p, c, reply) PROVE Past(v6[p][c].r, Means(v6[p][c].op))'
  <2>1. v6'[p][c].op = "delete"
    BY <1>1, <1>2, <1>7, BookingReply
  <2> QED
    BY <2>1 DEF Past, Means
<1> QED
  BY <1>2, <1>3, <1>6, <1>7, BookingAnswers

LEMMA BookingMarks ==
  ASSUME BookingInv, NEW p \in {"buyer"}, NEW c \in C, Rsv!mark_outcome(p, c)
  PROVE  BookingInv'
<1>1. PICK r, op : r = v6[p][c].r /\ op = v6[p][c].op
  OBVIOUS
<1>2. v6[p][c].phase = "sent" /\ op = "sold" /\ UNCHANGED <<v5, v7>>
  BY <1>1 DEF Rsv!mark_outcome, Rsv!Asked
<1>3. /\ r \in X /\ v1[r] \in Rsv!Row /\ v1 \in [X -> Rsv!Row] /\ v2 \in [X -> {"buyer", "seller", "none"}]
      /\ p \in {"buyer", "seller"}
  BY <1>1, <1>2, BookingAsked
<1>4. ASSUME NEW row \in Rsv!Row, row.status = "settling", v1[r].status \in {"active", "settling"},
             v1' = [v1 EXCEPT ![r] = row], Rsv!Answer(p, c, "ok"), UNCHANGED v2 \/ v2' = [v2 EXCEPT ![r] = p]
      PROVE  BookingInv'
  <2>1. v1' \in [X -> Rsv!Row] /\ Forward /\ v1'[r] = row
    BY <1>3, <1>4, BookingMoves
  <2>2. v6'[p][c].r = r /\ v6'[p][c].op = op
    BY <1>1, <1>2, <1>4, BookingReply
  <2>3. Past(v6[p][c].r, Means(v6[p][c].op))'
    BY <2>1, <2>2, <1>2, <1>4, ProgressBounds DEF Past, Means
  <2>4. v2' \in [X -> {"buyer", "seller", "none"}]
    BY <1>3, <1>4
  <2> QED
    BY <2>1, <2>3, <2>4, <1>2, <1>4, BookingAnswers
<1>5. PICK first, again : first = Rsv!FirstMark(v1[r], "sold") /\ again = Rsv!Correct(v1[r], p, "sold")
  OBVIOUS
<1>6. /\ first \in Rsv!Row /\ first.status = "settling"
      /\ again \in Rsv!Row /\ again.status = v1[r].status
  <2>1. PICK old \in Rsv!Row : old = v1[r]
    BY <1>3
  <2> QED
    BY <2>1, <1>3, <1>5, BookingRows
<1>7. \/ /\ v1[r].status = "active" /\ v1' = [v1 EXCEPT ![r] = first] /\ Rsv!Answer(p, c, "ok")
         /\ v2' = [v2 EXCEPT ![r] = p]
      \/ /\ v1[r].status = "settling" /\ v1' = [v1 EXCEPT ![r] = again] /\ Rsv!Answer(p, c, "ok") /\ UNCHANGED v2
      \/ /\ v1[r].status = "settling" /\ v1' = [v1 EXCEPT ![r] = v1[r]] /\ Rsv!Answer(p, c, "ok") /\ UNCHANGED v2
      \/ Rsv!Answer(p, c, "error") /\ UNCHANGED <<v1, v2>>
  BY <1>1, <1>2, <1>5 DEF Rsv!mark_outcome, Rsv!CanCorrect
<1>8. CASE Rsv!Answer(p, c, "error") /\ UNCHANGED <<v1, v2>>
  BY <1>2, <1>3, <1>8, BookingAnswers, BookingSame
<1> QED
  BY <1>3, <1>4, <1>6, <1>7, <1>8

LEMMA BookingLost ==
  ASSUME BookingInv, NEW p \in {"buyer"}, NEW c \in C, Rsv!CallLost(p, c)
  PROVE  BookingInv'
<1>1. v6[p][c].phase # "free" /\ Rsv!Answer(p, c, "error") /\ UNCHANGED <<v1, v2, v5, v7>>
  BY DEF Rsv!CallLost, Rsv!server
<1> QED
  BY <1>1, BookingAsked, BookingAnswers, BookingSame

LEMMA BookingPays ==
  ASSUME BookingInv, NEW p \in {"buyer"}, NEW c \in C, Rsv!Pay(p, c)
  PROVE  BookingInv'
<1>1. /\ v6[p][c].phase = "sent" /\ v6[p][c].op = "pay" /\ UNCHANGED <<v2, v5, v7>> /\ p = "buyer"
      /\ v1 \in [X -> Rsv!Row] /\ v2 \in [X -> {"buyer", "seller", "none"}]
      /\ v6 \in [{"buyer"} -> [C -> BookingCalls]]
  BY BookingSorts, BookingAsked DEF Rsv!Pay, Rsv!Asked, BookingInv, BookingTyped
<1>2. ASSUME NEW x \in X, v6' = [v6 EXCEPT ![p][c].phase = "url", ![p][c].r = x],
             v1' \in [X -> Rsv!Row], Forward
      PROVE  BookingInv'
  <2>1. PICK k : k = [v6["buyer"][c] EXCEPT !.phase = "url", !.r = x]
    OBVIOUS
  <2>2. k \in BookingCalls /\ k.phase = "url"
    <3>1. v6["buyer"][c] \in [phase : {"sent", "ok", "url", "no_url", "error"}, op : Rsv!Ops, r : X, heard : BOOLEAN]
      BY <1>1, BookingSorts DEF BookingCalls
    <3> QED
      BY <3>1, <2>1 DEF BookingCalls
  <2>3. v6' = [v6 EXCEPT !["buyer"] = [v6["buyer"] EXCEPT ![c] = k]]
    BY <1>1, <1>2, <2>1
  <2>4. [v6["buyer"] EXCEPT ![c] = k] \in [C -> BookingCalls]
    BY <1>1, <2>2
  <2>5. v6'["buyer"] = [v6["buyer"] EXCEPT ![c] = k] /\ v6' \in [{"buyer"} -> [C -> BookingCalls]]
    BY <2>3, <2>4, <1>1
  <2>6. \A y \in C : v6'["buyer"][y] = v6["buyer"][y] \/ Speaks(y)'
    BY <2>2, <2>5, <1>1 DEF Speaks
  <2> QED
    BY <1>1, <1>2, <2>5, <2>6, BookingServes
<1>3. ASSUME NEW x \in X, v1[x].status = "pending_payment", v1' = [v1 EXCEPT ![x].paid_by = TRUE]
      PROVE  v1' \in [X -> Rsv!Row] /\ Forward
  <2>1. PICK row : row = [v1[x] EXCEPT !.paid_by = TRUE]
    OBVIOUS
  <2>2. row \in Rsv!Row /\ row.status = "pending_payment"
    BY <1>1, <1>3, <2>1, BookingRows
  <2>3. v1' = [v1 EXCEPT ![x] = row]
    BY <1>3, <2>1
  <2> QED
    BY <2>2, <2>3, <1>3, BookingMoves
<1>4. ASSUME NEW x \in X, v1[x] = Rsv!NoRow, v1' = [v1 EXCEPT ![x] = [Rsv!build_reservation EXCEPT !.paid_by = TRUE]]
      PROVE  v1' \in [X -> Rsv!Row] /\ Forward
  <2>1. PICK row : row = [Rsv!build_reservation EXCEPT !.paid_by = TRUE]
    OBVIOUS
  <2>2. row \in Rsv!Row /\ row.status = "pending_payment" /\ v1[x].status = "absent"
    BY <1>4, <2>1, BookingSorts, BookingRows
  <2>3. v1' = [v1 EXCEPT ![x] = row]
    BY <1>4, <2>1
  <2> QED
    BY <2>2, <2>3, BookingMoves
<1>5. ASSUME UNCHANGED v1, NEW reply \in {"no_url", "error"}, Rsv!Answer(p, c, reply) PROVE BookingInv'
  BY <1>1, <1>5, BookingAnswers, BookingSame
<1>6. \/ \E x \in X : /\ v1[x].status = "pending_payment" /\ v1' = [v1 EXCEPT ![x].paid_by = TRUE]
                      /\ v6' = [v6 EXCEPT ![p][c].phase = "url", ![p][c].r = x]
      \/ \E x \in X : UNCHANGED v1 /\ v6' = [v6 EXCEPT ![p][c].phase = "url", ![p][c].r = x]
      \/ \E x \in X : /\ v1[x] = Rsv!NoRow /\ v1' = [v1 EXCEPT ![x] = [Rsv!build_reservation EXCEPT !.paid_by = TRUE]]
                      /\ v6' = [v6 EXCEPT ![p][c].phase = "url", ![p][c].r = x]
      \/ UNCHANGED v1 /\ \E reply \in {"no_url", "error"} : Rsv!Answer(p, c, reply)
  BY DEF Rsv!Pay
<1> QED
  BY <1>1, <1>2, <1>3, <1>4, <1>5, <1>6, BookingSame

LEMMA BookingElsewhere ==
  ASSUME BookingInv, Rsv!Elsewhere
  PROVE  BookingInv'
<1>t. /\ v1 \in [X -> Rsv!Row] /\ v2 \in [X -> {"buyer", "seller", "none"}]
      /\ v6 \in [{"buyer"} -> [C -> BookingCalls]]
  BY DEF BookingInv, BookingTyped
<1>1. PICK r \in X : Rsv!Confirm(r) \/ Rsv!ClosePaymentPage(r) \/ Rsv!Expire(r) \/ Rsv!Finalize(r)
  BY DEF Rsv!Elsewhere
<1>2. PICK held, over, end, left :
        /\ held = Rsv!confirm_hold(v1[r]) /\ end = Rsv!finalize(v1[r])
        /\ over = Rsv!cancel(v1[r], "hold_expired") /\ left = Rsv!cancel(v1[r], "payment_abandoned")
  OBVIOUS
<1>3. /\ held \in Rsv!Row /\ held.status = "active" /\ end \in Rsv!Row /\ end.status = "completed"
      /\ over \in Rsv!Row /\ over.status = "cancelled" /\ left \in Rsv!Row /\ left.status = "cancelled"
  <2>1. PICK old \in Rsv!Row : old = v1[r]
    BY <1>t
  <2>2. held \in Rsv!Row /\ held.status = "active" /\ end \in Rsv!Row /\ end.status = "completed"
    BY <2>1, <1>2, BookingRows
  <2>3. over \in Rsv!Row /\ over.status = "cancelled" /\ left \in Rsv!Row /\ left.status = "cancelled"
    BY <2>1, <1>2, BookingClosed
  <2> QED
    BY <2>2, <2>3
<1>4. /\ UNCHANGED <<v2, v5, v6, v7>>
      /\ \/ v1[r].status = "pending_payment" /\ v1' = [v1 EXCEPT ![r] = held]
         \/ UNCHANGED v1
         \/ v1' = [v1 EXCEPT ![r] = over]
         \/ v1' = [v1 EXCEPT ![r] = left]
         \/ v1[r].status = "settling" /\ v1' = [v1 EXCEPT ![r] = end]
  BY <1>1, <1>2 DEF Rsv!Confirm, Rsv!CanConfirm, Rsv!ClosePaymentPage, Rsv!Expire, Rsv!Finalize
<1>5. v1' \in [X -> Rsv!Row] /\ Forward
  BY <1>3, <1>4, <1>t, BookingMoves, BookingSame
<1> QED
  BY <1>4, <1>5, <1>t, BookingServes

(* The page.                                                                                 *)

\* What does not touch the rows drawn, nor the loads.
LEMMA BookingPress ==
  ASSUME BookingInv, UNCHANGED <<v1, v2, v7>>, v5' \in [{"buyer"} -> Rsv!Page],
         v5'["buyer"].list = v5["buyer"].list, v5'["buyer"].loading = v5["buyer"].loading,
         v5'["buyer"].known = v5["buyer"].known, v5'["buyer"].overlap = v5["buyer"].overlap,
         v6' \in [{"buyer"} -> [C -> BookingCalls]],
         \A c \in C : v6'["buyer"][c] = v6["buyer"][c] \/ v6'["buyer"][c].phase \in {"free", "sent"}
  PROVE  BookingInv'
<1>1. BookingTyped'
  BY DEF BookingInv, BookingTyped
<1>2. KnownIsPast'
  BY DEF BookingInv, KnownIsPast, Past
<1>3. AnswersArePast'
  BY DEF BookingInv, AnswersArePast, Speaks, Past
<1>4. ListsAreLater'
  BY DEF BookingInv, ListsAreLater, Later, Whole, NotBefore
<1>5. ListIsLater'
  BY DEF BookingInv, ListIsLater, Whole, NotBefore
<1> QED
  BY <1>1, <1>2, <1>3, <1>4, <1>5 DEF BookingInv

\* A run of load() goes on.
LEMMA BookingLoading ==
  ASSUME BookingInv, UNCHANGED <<v1, v2, v6>>, v5' \in [{"buyer"} -> Rsv!Page],
         v5'["buyer"].known = v5["buyer"].known, v5'["buyer"].overlap = v5["buyer"].overlap,
         NEW s \in Y, NEW run \in BookingLoads, v7' = [v7 EXCEPT !["buyer"][s] = run],
         Later(run), ListIsLater'
  PROVE  BookingInv'
<1>1. v7 \in [{"buyer"} -> [Y -> BookingLoads]]
  BY DEF BookingInv, BookingTyped
<1>2. v7' = [v7 EXCEPT !["buyer"] = [v7["buyer"] EXCEPT ![s] = run]] /\ [v7["buyer"] EXCEPT ![s] = run] \in [Y -> BookingLoads]
  BY <1>1
<1>3. v7' \in [{"buyer"} -> [Y -> BookingLoads]] /\ v7'["buyer"] = [v7["buyer"] EXCEPT ![s] = run]
  BY <1>1, <1>2
<1>4. \A y \in Y : v7'["buyer"][y] = run \/ v7'["buyer"][y] = v7["buyer"][y]
  BY <1>1, <1>3
<1>5. BookingTyped'
  BY <1>3 DEF BookingInv, BookingTyped
<1>6. KnownIsPast' /\ AnswersArePast'
  BY DEF BookingInv, KnownIsPast, AnswersArePast, Speaks, Past
<1>7. ListsAreLater'
  <2>1. ASSUME NEW y \in Y PROVE Later(v7["buyer"][y])'
    <3>1. CASE v7'["buyer"][y] = run
      BY <3>1 DEF Later, Whole, NotBefore
    <3>2. CASE v7'["buyer"][y] = v7["buyer"][y]
      BY <3>2 DEF BookingInv, ListsAreLater, Later, Whole, NotBefore
    <3> QED
      BY <3>1, <3>2, <1>4
  <2> QED
    BY <2>1 DEF ListsAreLater
<1> QED
  BY <1>5, <1>6, <1>7 DEF BookingInv

\* What the page has of a list.
LEMMA BookingDraws ==
  ASSUME BookingInv, NEW list \in Rsv!Lists, NEW loading \in BOOLEAN,
         v5' = [v5 EXCEPT !["buyer"].list = list, !["buyer"].loading = loading]
  PROVE  /\ v5' \in [{"buyer"} -> Rsv!Page] /\ v5'["buyer"].list = list /\ v5'["buyer"].loading = loading
         /\ v5'["buyer"].known = v5["buyer"].known /\ v5'["buyer"].overlap = v5["buyer"].overlap
<1>1. PICK pg : pg = [v5["buyer"] EXCEPT !.list = list, !.loading = loading]
  OBVIOUS
<1>2. v5["buyer"] \in Rsv!Page /\ v5 \in [{"buyer"} -> Rsv!Page]
  BY DEF BookingInv, BookingTyped
<1>3. /\ pg \in Rsv!Page /\ pg.list = list /\ pg.loading = loading
      /\ pg.known = v5["buyer"].known /\ pg.overlap = v5["buyer"].overlap
  BY <1>1, <1>2 DEF Rsv!Page
<1>4. v5' = [v5 EXCEPT !["buyer"] = pg]
  BY <1>1, <1>2
<1> QED
  BY <1>2, <1>3, <1>4

LEMMA BookingRead ==
  ASSUME BookingInv, NEW r \in X
  PROVE  /\ Rsv!Row2Shown(r) \in Rsv!Shown
         /\ Rsv!Row2Shown(r).status = "absent" => Rsv!Row2Shown(r) = Rsv!Nothing
         /\ Rsv!Progress(Rsv!Row2Shown(r).status) >= v5["buyer"].known[r]
<1>1. /\ v1[r] \in Rsv!Row /\ v2[r] \in {"buyer", "seller", "none"} /\ v5["buyer"].known[r] \in 0..3
      /\ Past(r, v5["buyer"].known[r])
  BY DEF BookingInv, BookingTyped, KnownIsPast, Rsv!Page
<1>2. CASE Rsv!Exists(v1[r])
  <2>1. PICK row : row = [status |-> v1[r].status, paid |-> v1[r].paid_by, outcome |-> v1[r].outcome,
                          set_by |-> v2[r], contact |-> FALSE]
    OBVIOUS
  <2>2. row \in Rsv!Shown /\ row.status = v1[r].status /\ row.status # "absent"
    BY <1>1, <1>2, <2>1 DEF Rsv!Shown, Rsv!Row, Rsv!Exists, Rsv!None
  <2>3. Rsv!Row2Shown(r) = row
    BY <1>2, <2>1 DEF Rsv!Row2Shown
  <2>4. Rsv!Progress(row.status) >= v5["buyer"].known[r]
    <3>1. v5["buyer"].known[r] > 0 => Rsv!Progress(v1[r].status) >= v5["buyer"].known[r]
      BY <1>1 DEF Past
    <3>2. Rsv!Progress(v1[r].status) \in 0..3
      BY ProgressBounds
    <3> QED
      BY <3>1, <3>2, <2>2, <1>1
  <2> QED
    BY <2>2, <2>3, <2>4
<1>3. CASE ~Rsv!Exists(v1[r])
  <2>1. Rsv!Row2Shown(r) = Rsv!Nothing
    BY <1>3 DEF Rsv!Row2Shown
  <2> QED
    BY <2>1, <1>1, BookingSorts, ProgressBounds
<1> QED
  BY <1>2, <1>3

LEMMA BookingRuns ==
  ASSUME BookingInv, NEW s \in Y
  PROVE  /\ v7["buyer"][s] \in BookingLoads /\ Later(v7["buyer"][s])
         /\ v7["buyer"][s].phase = "answered" => v7["buyer"][s].data \in Rsv!Lists
         /\ v7["buyer"][s].phase = "details" =>
              v7["buyer"][s] \in [phase : {"details"}, data : Rsv!Lists, todo : SUBSET X]
<1>1. v7["buyer"][s] \in BookingLoads /\ Later(v7["buyer"][s])
  BY DEF BookingInv, BookingTyped, ListsAreLater
<1> QED
  BY <1>1, BookingSorts DEF BookingLoads

LEMMA BookingList ==
  ASSUME BookingInv, NEW s \in Y, Rsv!my_reservations("buyer", s)
  PROVE  BookingInv'
<1>1. PICK data : data = [r \in X |-> Rsv!Row2Shown(r)]
  OBVIOUS
<1>2. data \in Rsv!Lists /\ Whole(data) /\ NotBefore(data, v5["buyer"].known)
  BY <1>1, BookingRead DEF Rsv!Lists, Whole, NotBefore
<1>3. PICK run : run = [phase |-> "answered", data |-> data]
  OBVIOUS
<1>4. run \in BookingLoads /\ run.phase = "answered" /\ run.data = data
  BY <1>2, <1>3 DEF BookingLoads
<1>5. v7' = [v7 EXCEPT !["buyer"][s] = run] /\ UNCHANGED <<v1, v2, v5, v6>>
  BY <1>1, <1>3 DEF Rsv!my_reservations, Rsv!server
<1>6. Later(run)
  BY <1>2, <1>4 DEF Later
<1>7. ListIsLater' /\ v5' \in [{"buyer"} -> Rsv!Page]
  BY <1>5 DEF BookingInv, BookingTyped, ListIsLater, Whole, NotBefore
<1> QED
  BY <1>4, <1>5, <1>6, <1>7, BookingLoading

LEMMA BookingFirst ==
  ASSUME BookingInv, NEW s \in Y, Rsv!ApplyMy("buyer", s)
  PROVE  BookingInv'
<1>1. PICK data, run : data = v7["buyer"][s].data /\
        run = [phase |-> "details", data |-> data, todo |-> {r \in X : data[r].status \in Rsv!Revealed}]
  OBVIOUS
<1>2. v7["buyer"][s].phase = "answered" /\ v5' = [v5 EXCEPT !["buyer"].list = data] /\ UNCHANGED <<v1, v2, v6>>
      /\ v7' = [v7 EXCEPT !["buyer"][s] = run]
  BY <1>1 DEF Rsv!ApplyMy, Rsv!server
<1>3. data \in Rsv!Lists /\ Whole(data) /\ (~v5["buyer"].overlap => NotBefore(data, v5["buyer"].known))
  BY <1>1, <1>2, BookingRuns DEF Later
<1>4. run \in BookingLoads /\ Later(run)
  <2>1. run.phase = "details" /\ run.data = data /\ run.todo = {r \in X : data[r].status \in Rsv!Revealed}
    BY <1>1
  <2>2. run \in BookingLoads
    BY <1>1, <1>3 DEF BookingLoads
  <2> QED
    BY <2>1, <2>2, <1>3 DEF Later, Rsv!Revealed
<1>5. PICK loading \in BOOLEAN : loading = v5["buyer"].loading
  BY DEF BookingInv, BookingTyped, Rsv!Page
<1>6. v5' = [v5 EXCEPT !["buyer"].list = data, !["buyer"].loading = loading]
  <2>1. v5["buyer"] \in Rsv!Page /\ v5 \in [{"buyer"} -> Rsv!Page]
    BY DEF BookingInv, BookingTyped
  <2>2. [v5["buyer"] EXCEPT !.list = data] = [v5["buyer"] EXCEPT !.list = data, !.loading = loading]
    BY <2>1, <1>5 DEF Rsv!Page
  <2> QED
    BY <1>2, <2>1, <2>2
<1>7. /\ v5' \in [{"buyer"} -> Rsv!Page] /\ v5'["buyer"].list = data /\ v5'["buyer"].loading = v5["buyer"].loading
      /\ v5'["buyer"].known = v5["buyer"].known /\ v5'["buyer"].overlap = v5["buyer"].overlap
  BY <1>3, <1>5, <1>6, BookingDraws
<1>8. ListIsLater'
  BY <1>3, <1>7 DEF ListIsLater, Whole, NotBefore
<1> QED
  BY <1>2, <1>4, <1>7, <1>8, BookingLoading

LEMMA BookingDetail ==
  ASSUME BookingInv, NEW s \in Y, NEW r \in X,
         Rsv!get_reservation("buyer", s, r) \/ Rsv!DetailFails("buyer", s, r)
  PROVE  BookingInv'
<1>1. PICK old : old = v7["buyer"][s]
  OBVIOUS
<1>2. /\ old.phase = "details" /\ r \in old.todo /\ UNCHANGED <<v1, v2, v5, v6>>
      /\ \E run : /\ v7' = [v7 EXCEPT !["buyer"][s] = run]
                  /\ \/ run = [old EXCEPT !.todo = @ \ {r}, !.data[r].contact = Rsv!Reveals("buyer", r)]
                     \/ run = [old EXCEPT !.todo = @ \ {r}]
  BY <1>1 DEF Rsv!get_reservation, Rsv!DetailFails, Rsv!server
<1>3. /\ old \in [phase : {"details"}, data : Rsv!Lists, todo : SUBSET X]
      /\ Whole(old.data) /\ (~v5["buyer"].overlap => NotBefore(old.data, v5["buyer"].known))
      /\ \A x \in old.todo : old.data[x].status # "absent"
  BY <1>1, <1>2, BookingRuns DEF Later
<1>4. PICK told \in BOOLEAN : told = Rsv!Reveals("buyer", r)
  BY DEF Rsv!Reveals
<1>5. PICK run : /\ v7' = [v7 EXCEPT !["buyer"][s] = run]
                 /\ \/ run = [old EXCEPT !.todo = @ \ {r}, !.data[r].contact = told]
                    \/ run = [old EXCEPT !.todo = @ \ {r}]
  BY <1>2, <1>4
<1>6. PICK row : row = [old.data[r] EXCEPT !.contact = told]
  OBVIOUS
<1>7. row \in Rsv!Shown /\ row.status = old.data[r].status /\ old.data \in [X -> Rsv!Shown]
  BY <1>3, <1>6 DEF Rsv!Lists, Rsv!Shown
<1>8. PICK data : data = [old.data EXCEPT ![r] = row]
  OBVIOUS
<1>9. /\ data \in Rsv!Lists /\ \A x \in X : data[x].status = old.data[x].status
      /\ \A x \in X : x # r => data[x] = old.data[x]
  BY <1>7, <1>8 DEF Rsv!Lists
<1>10. \/ run = [phase |-> "details", data |-> data, todo |-> old.todo \ {r}]
       \/ run = [phase |-> "details", data |-> old.data, todo |-> old.todo \ {r}]
  BY <1>3, <1>5, <1>6, <1>8
<1>11. ASSUME NEW list \in {data, old.data}
       PROVE  /\ list \in Rsv!Lists /\ Whole(list) /\ (~v5["buyer"].overlap => NotBefore(list, v5["buyer"].known))
              /\ \A x \in old.todo : list[x].status # "absent"
  <2>1. old.data[r].status # "absent" /\ old.todo \subseteq X /\ old.data \in Rsv!Lists
    BY <1>2, <1>3
  <2> QED
    BY <2>1, <1>3, <1>9 DEF Whole, NotBefore
<1>12. PICK list \in {data, old.data} : run = [phase |-> "details", data |-> list, todo |-> old.todo \ {r}]
  BY <1>10
<1>13. run \in BookingLoads /\ Later(run)
  <2>1. run.phase = "details" /\ run.data = list /\ run.todo = old.todo \ {r} /\ old.todo \subseteq X
    BY <1>3, <1>12
  <2>2. run \in BookingLoads
    BY <1>11, <1>12, <2>1 DEF BookingLoads
  <2> QED
    BY <2>1, <2>2, <1>11 DEF Later
<1>14. ListIsLater' /\ v5' \in [{"buyer"} -> Rsv!Page]
  BY <1>2 DEF BookingInv, BookingTyped, ListIsLater, Whole, NotBefore
<1> QED
  BY <1>2, <1>5, <1>13, <1>14, BookingLoading

LEMMA BookingShown ==
  ASSUME BookingInv, NEW s \in Y, Rsv!ApplyDetails("buyer", s) \/ Rsv!LoadFails("buyer", s)
  PROVE  BookingInv'
<1>1. PICK list : /\ v5' = [v5 EXCEPT !["buyer"].list = list, !["buyer"].loading = FALSE]
                  /\ \/ v7["buyer"][s].phase = "details" /\ list = v7["buyer"][s].data
                     \/ list = Rsv!NoList
  BY DEF Rsv!ApplyDetails, Rsv!LoadFails
<1>2. UNCHANGED <<v1, v2, v6>> /\ v7' = [v7 EXCEPT !["buyer"][s] = Rsv!Free]
  BY DEF Rsv!ApplyDetails, Rsv!LoadFails, Rsv!server
<1>3. list \in Rsv!Lists /\ Whole(list) /\ (~v5["buyer"].overlap => NotBefore(list, v5["buyer"].known))
  <2>1. CASE v7["buyer"][s].phase = "details" /\ list = v7["buyer"][s].data
    BY <2>1, BookingRuns DEF Later
  <2>2. CASE list = Rsv!NoList
    <3>1. \A r \in X : v5["buyer"].known[r] \in 0..3 /\ Rsv!NoList[r].status = "absent"
      BY BookingSorts DEF BookingInv, BookingTyped, Rsv!Page, Rsv!NoList
    <3> QED
      BY <2>2, <3>1, BookingSorts, ProgressBounds DEF NotBefore
  <2> QED
    BY <1>1, <2>1, <2>2
<1>4. /\ v5' \in [{"buyer"} -> Rsv!Page] /\ v5'["buyer"].list = list
      /\ v5'["buyer"].known = v5["buyer"].known /\ v5'["buyer"].overlap = v5["buyer"].overlap
  BY <1>1, <1>3, BookingDraws
<1>5. ListIsLater'
  BY <1>3, <1>4 DEF ListIsLater, Whole, NotBefore
<1>6. Rsv!Free \in BookingLoads /\ Later(Rsv!Free)
  BY BookingSorts DEF BookingLoads, Later
<1> QED
  BY <1>2, <1>4, <1>5, <1>6, BookingLoading

LEMMA BookingSends ==
  ASSUME BookingInv, NEW c \in C, NEW k \in BookingCalls, v6' = [v6 EXCEPT !["buyer"][c] = k]
  PROVE  /\ v6' \in [{"buyer"} -> [C -> BookingCalls]] /\ v6'["buyer"][c] = k
         /\ \A x \in C : x # c => v6'["buyer"][x] = v6["buyer"][x]
<1>1. v6 \in [{"buyer"} -> [C -> BookingCalls]]
  BY DEF BookingInv, BookingTyped
<1>2. v6' = [v6 EXCEPT !["buyer"] = [v6["buyer"] EXCEPT ![c] = k]] /\ [v6["buyer"] EXCEPT ![c] = k] \in [C -> BookingCalls]
  BY <1>1
<1>3. v6' \in [{"buyer"} -> [C -> BookingCalls]] /\ v6'["buyer"] = [v6["buyer"] EXCEPT ![c] = k]
  BY <1>1, <1>2
<1> QED
  BY <1>1, <1>3

LEMMA BookingPage ==
  ASSUME BookingInv, NEW pg \in Rsv!Page, v5' = [v5 EXCEPT !["buyer"] = pg]
  PROVE  v5' \in [{"buyer"} -> Rsv!Page] /\ v5'["buyer"] = pg
BY DEF BookingInv, BookingTyped

\* Only the buttons of the page changed.
OnlyButtons(pg) == /\ pg \in Rsv!Page /\ pg.list = v5["buyer"].list /\ pg.loading = v5["buyer"].loading
                   /\ pg.known = v5["buyer"].known /\ pg.overlap = v5["buyer"].overlap

LEMMA BookingButtons ==
  ASSUME BookingInv, NEW r \in X \cup {"none"}, NEW c \in C
  PROVE  /\ v5["buyer"] \in Rsv!Page /\ v5 \in [{"buyer"} -> Rsv!Page]
         /\ \A op \in {"cancel", "decline", "delete", "pay"} : OnlyButtons([v5["buyer"] EXCEPT !.busy[op] = r])
         /\ \A x \in X : OnlyButtons([v5["buyer"] EXCEPT !.saving[x] = c])
         /\ \A op \in {"decline", "delete"} : OnlyButtons([v5["buyer"] EXCEPT !.dialog[op] = r])
         /\ \A op \in {"decline", "delete"} :
              OnlyButtons([v5["buyer"] EXCEPT !.busy[op] = r, !.dialog[op] = "none"])
         /\ \A op \in {"decline", "delete"} : v5["buyer"].dialog[op] \in X \cup {"none"}
<1>1. v5["buyer"] \in Rsv!Page /\ v5 \in [{"buyer"} -> Rsv!Page]
  BY DEF BookingInv, BookingTyped
<1>2. PICK pg \in Rsv!Page : pg = v5["buyer"]
  BY <1>1
<1>3. ASSUME NEW op \in {"cancel", "decline", "delete", "pay"} PROVE OnlyButtons([pg EXCEPT !.busy[op] = r])
  BY <1>2, BookingSorts DEF Rsv!Page, OnlyButtons
<1>4. ASSUME NEW x \in X PROVE OnlyButtons([pg EXCEPT !.saving[x] = c])
  BY <1>2, BookingSorts DEF Rsv!Page, OnlyButtons
<1>5. ASSUME NEW op \in {"decline", "delete"}
      PROVE  OnlyButtons([pg EXCEPT !.dialog[op] = r]) /\ pg.dialog[op] \in X \cup {"none"}
  BY <1>2, BookingSorts DEF Rsv!Page, OnlyButtons
<1>6. ASSUME NEW op \in {"decline", "delete"} PROVE OnlyButtons([pg EXCEPT !.busy[op] = r, !.dialog[op] = "none"])
  BY <1>2, BookingSorts DEF Rsv!Page, OnlyButtons
<1> QED
  BY <1>1, <1>2, <1>3, <1>4, <1>5, <1>6

\* A press changes the buttons and sends at most one request.
LEMMA BookingTurns ==
  ASSUME BookingInv, NEW pg, OnlyButtons(pg), v5' = [v5 EXCEPT !["buyer"] = pg], UNCHANGED <<v1, v2, v7>>,
         \/ UNCHANGED v6
         \/ \E c \in C : v6' = [v6 EXCEPT !["buyer"][c] = Rsv!Free]
         \/ \E c \in C, op \in Rsv!Ops, r \in X :
              v6' = [v6 EXCEPT !["buyer"][c] = [phase |-> "sent", op |-> op, r |-> r, heard |-> TRUE]]
  PROVE  BookingInv'
<1>1. v6' \in [{"buyer"} -> [C -> BookingCalls]]
      /\ \A c \in C : v6'["buyer"][c] = v6["buyer"][c] \/ v6'["buyer"][c].phase \in {"free", "sent"}
  <2>1. CASE UNCHANGED v6
    BY <2>1 DEF BookingInv, BookingTyped
  <2>2. ASSUME NEW c \in C, NEW k \in BookingCalls, k.phase \in {"free", "sent"},
               v6' = [v6 EXCEPT !["buyer"][c] = k]
        PROVE  /\ v6' \in [{"buyer"} -> [C -> BookingCalls]]
               /\ \A x \in C : v6'["buyer"][x] = v6["buyer"][x] \/ v6'["buyer"][x].phase \in {"free", "sent"}
    BY <2>2, BookingSends
  <2>3. Rsv!Free \in BookingCalls /\ Rsv!Free.phase = "free"
    BY BookingSorts DEF BookingCalls
  <2>4. \A op \in Rsv!Ops, r \in X :
          /\ [phase |-> "sent", op |-> op, r |-> r, heard |-> TRUE] \in BookingCalls
          /\ [phase |-> "sent", op |-> op, r |-> r, heard |-> TRUE].phase = "sent"
    BY DEF BookingCalls
  <2> QED
    BY <2>1, <2>2, <2>3, <2>4
<1>2. v5' \in [{"buyer"} -> Rsv!Page] /\ v5'["buyer"] = pg
  BY BookingPage DEF OnlyButtons
<1> QED
  BY <1>1, <1>2, BookingPress DEF OnlyButtons

LEMMA BookingPresses ==
  ASSUME BookingInv, Rsv!Press("buyer")
  PROVE  BookingInv'
<1>p. v5["buyer"] \in Rsv!Page /\ v5 \in [{"buyer"} -> Rsv!Page]
  BY DEF BookingInv, BookingTyped
<1>1. ASSUME NEW r \in X, NEW op \in {"decline", "delete"}, Rsv!OpenDialog("buyer", r, op) PROVE BookingInv'
  <2>1. PICK pg : pg = [v5["buyer"] EXCEPT !.dialog[op] = r]
    OBVIOUS
  <2>2. v5' = [v5 EXCEPT !["buyer"] = pg] /\ UNCHANGED <<v1, v2, v6, v7>>
    BY <1>1, <1>p, <2>1 DEF Rsv!OpenDialog, Rsv!server
  <2>3. OnlyButtons(pg)
    BY <1>p, <2>1, BookingSorts DEF Rsv!Page, OnlyButtons
  <2> QED
    BY <2>2, <2>3, BookingTurns
<1>2. ASSUME NEW op \in {"decline", "delete"}, Rsv!CloseDialog("buyer", op) PROVE BookingInv'
  <2>1. PICK pg : pg = [v5["buyer"] EXCEPT !.dialog[op] = "none"]
    OBVIOUS
  <2>2. v5' = [v5 EXCEPT !["buyer"] = pg] /\ UNCHANGED <<v1, v2, v6, v7>>
    BY <1>2, <1>p, <2>1, BookingSorts DEF Rsv!CloseDialog, Rsv!server
  <2>3. OnlyButtons(pg)
    BY <1>p, <2>1, BookingSorts DEF Rsv!Page, OnlyButtons
  <2> QED
    BY <2>2, <2>3, BookingTurns
<1>3. ASSUME NEW c \in C, NEW op \in {"decline", "delete"}, Rsv!ConfirmDialog("buyer", c, op) PROVE BookingInv'
  <2>1. PICK r : r = v5["buyer"].dialog[op]
    OBVIOUS
  <2>2. r \in X
    BY <1>3, <2>1, BookingButtons, BookingSorts DEF Rsv!ConfirmDialog
  <2>3. PICK pg : pg = [v5["buyer"] EXCEPT !.busy[op] = r, !.dialog[op] = "none"]
    OBVIOUS
  <2>4. /\ v5' = [v5 EXCEPT !["buyer"] = pg] /\ UNCHANGED <<v1, v2, v7>>
        /\ v6' = [v6 EXCEPT !["buyer"][c] = [phase |-> "sent", op |-> op, r |-> r, heard |-> TRUE]]
    BY <1>3, <1>p, <2>1, <2>3, BookingSorts DEF Rsv!ConfirmDialog, Rsv!Send, Rsv!server
  <2>5. OnlyButtons(pg) /\ op \in Rsv!Ops
    BY <2>2, <2>3, BookingButtons, BookingSorts
  <2> QED
    BY <2>2, <2>4, <2>5, BookingTurns
<1>4. ASSUME NEW c \in C, NEW r \in X, NEW op \in {"cancel", "pay"}, Rsv!PressRow("buyer", c, r, op) PROVE BookingInv'
  <2>1. PICK pg : pg = [v5["buyer"] EXCEPT !.busy[op] = r]
    OBVIOUS
  <2>2. /\ v5' = [v5 EXCEPT !["buyer"] = pg] /\ UNCHANGED <<v1, v2, v7>>
        /\ v6' = [v6 EXCEPT !["buyer"][c] = [phase |-> "sent", op |-> op, r |-> r, heard |-> TRUE]]
    BY <1>4, <1>p, <2>1 DEF Rsv!PressRow, Rsv!Send, Rsv!server
  <2>3. OnlyButtons(pg) /\ op \in Rsv!Ops
    BY <2>1, BookingButtons, BookingSorts
  <2> QED
    BY <2>2, <2>3, BookingTurns
<1>5. ASSUME NEW c \in C, NEW r \in X, NEW result \in {"sold"}, Rsv!PressMark("buyer", c, r, result) PROVE BookingInv'
  <2>1. PICK pg : pg = [v5["buyer"] EXCEPT !.saving[r] = c]
    OBVIOUS
  <2>2. /\ v5' = [v5 EXCEPT !["buyer"] = pg] /\ UNCHANGED <<v1, v2, v7>>
        /\ v6' = [v6 EXCEPT !["buyer"][c] = [phase |-> "sent", op |-> result, r |-> r, heard |-> TRUE]]
    BY <1>5, <1>p, <2>1 DEF Rsv!PressMark, Rsv!Send, Rsv!server
  <2>3. OnlyButtons(pg) /\ result \in Rsv!Ops
    BY <2>1, BookingButtons, BookingSorts
  <2> QED
    BY <2>2, <2>3, BookingTurns
<1> QED
  BY <1>1, <1>2, <1>3, <1>4, <1>5 DEF Rsv!Press

\* The button that ran comes back.
LEMMA BookingReleased ==
  ASSUME BookingInv, NEW c \in C, v6["buyer"][c].phase # "free"
  PROVE  OnlyButtons(Rsv!Released("buyer", c))
<1>1. v5["buyer"] \in Rsv!Page /\ v6["buyer"][c].op \in Rsv!Ops
  BY BookingAsked DEF BookingInv, BookingTyped
<1>2. PICK pg \in Rsv!Page, op \in Rsv!Ops : pg = v5["buyer"] /\ op = v6["buyer"][c].op
  BY <1>1
<1>3. PICK busy, saving :
        /\ busy = IF op \in {"sold"} THEN pg.busy ELSE [pg.busy EXCEPT ![op] = "none"]
        /\ saving = [r \in X |-> IF pg.saving[r] = c THEN "none" ELSE pg.saving[r]]
  OBVIOUS
<1>4. busy \in [{"cancel", "decline", "delete", "pay"} -> X \cup {"none"}] /\ saving \in [X -> C \cup {"none"}]
  BY <1>3, BookingSorts DEF Rsv!Page
<1>5. Rsv!Released("buyer", c) = [pg EXCEPT !.busy = busy, !.saving = saving]
  BY <1>2, <1>3, BookingSorts DEF Rsv!Released, Rsv!Page
<1>6. OnlyButtons([pg EXCEPT !.busy = busy, !.saving = saving])
  BY <1>2, <1>4, BookingSorts DEF Rsv!Page, OnlyButtons
<1> QED
  BY <1>5, <1>6

LEMMA BookingEnds ==
  ASSUME BookingInv, NEW c \in C,
         Rsv!ReplyUrl("buyer", c) \/ Rsv!ReplyError("buyer", c) \/ Rsv!ReplyUnheard("buyer", c)
  PROVE  BookingInv'
<1>1. v6["buyer"][c].phase # "free" /\ UNCHANGED <<v1, v2, v7>> /\ v6' = [v6 EXCEPT !["buyer"][c] = Rsv!Free]
  BY DEF Rsv!ReplyUrl, Rsv!ReplyError, Rsv!ReplyUnheard, Rsv!FreeCall, Rsv!Answered, Rsv!server
<1>2. v5["buyer"] \in Rsv!Page /\ v5 \in [{"buyer"} -> Rsv!Page]
  BY DEF BookingInv, BookingTyped
<1>3. \E pg : OnlyButtons(pg) /\ v5' = [v5 EXCEPT !["buyer"] = pg]
  <2>1. CASE v5' = [v5 EXCEPT !["buyer"] = Rsv!Released("buyer", c)]
    BY <1>1, <2>1, BookingReleased
  <2>2. CASE UNCHANGED v5
    <3>1. OnlyButtons(v5["buyer"]) /\ v5' = [v5 EXCEPT !["buyer"] = v5["buyer"]]
      BY <1>2, <2>2 DEF OnlyButtons
    <3> QED
      BY <3>1
  <2> QED
    BY <2>1, <2>2 DEF Rsv!ReplyUrl, Rsv!ReplyError, Rsv!ReplyUnheard
<1> QED
  BY <1>1, <1>3, BookingTurns

LEMMA BookingReloads ==
  ASSUME BookingInv, NEW c \in C, Rsv!ReplyReloads("buyer", c)
  PROVE  BookingInv'
<1>1. PICK r, op : r = v6["buyer"][c].r /\ op = v6["buyer"][c].op
  OBVIOUS
<1>2. /\ v6["buyer"][c].phase \in {"ok", "no_url"} /\ v6' = [v6 EXCEPT !["buyer"][c] = Rsv!Free]
      /\ Rsv!StartLoad("buyer", Rsv!Told("buyer", c)) /\ UNCHANGED <<v1, v2>>
  BY DEF Rsv!ReplyReloads, Rsv!Answered, Rsv!FreeCall, Rsv!server
<1>3. r \in X /\ op \in Rsv!Ops /\ Speaks(c)
  BY <1>1, <1>2, BookingAsked DEF BookingInv, AnswersArePast
<1>4. PICK pg : pg = Rsv!Released("buyer", c)
  OBVIOUS
<1>5. OnlyButtons(pg) /\ pg \in Rsv!Page
  BY <1>2, <1>4, BookingReleased DEF OnlyButtons
<1>6. PICK n : n = CASE op \in {"cancel", "decline"} -> 3
                     [] op \in {"sold"} /\ pg.known[r] < 2 -> 2
                     [] OTHER -> pg.known[r]
  OBVIOUS
<1>7. n \in 0..3 /\ Past(r, n)
  <2>1. pg.known[r] \in 0..3 /\ Past(r, pg.known[r])
    BY <1>3, <1>5 DEF BookingInv, KnownIsPast, Rsv!Page, OnlyButtons
  <2>2. CASE op \in {"cancel", "decline"}
    <3>1. n = 3 /\ Past(r, 3)
      BY <1>1, <1>2, <1>3, <1>6, <2>2 DEF Speaks, Means
    <3> QED
      BY <3>1
  <2>3. CASE op = "sold" /\ pg.known[r] < 2
    <3>1. n = 2 /\ Past(r, 2)
      BY <1>1, <1>2, <1>3, <1>6, <2>3 DEF Speaks, Means
    <3> QED
      BY <3>1
  <2>4. CASE op \notin {"cancel", "decline"} /\ ~(op = "sold" /\ pg.known[r] < 2)
    BY <1>6, <2>1, <2>4
  <2> QED
    BY <2>2, <2>3, <2>4
<1>8. PICK told : told = [pg EXCEPT !.known[r] = n]
  OBVIOUS
<1>9. /\ told \in Rsv!Page /\ told.list = v5["buyer"].list /\ told.overlap = v5["buyer"].overlap
      /\ told.known = [v5["buyer"].known EXCEPT ![r] = n]
  BY <1>3, <1>5, <1>7, <1>8 DEF Rsv!Page, OnlyButtons
<1>10. told = Rsv!Told("buyer", c)
  BY <1>1, <1>4, <1>6, <1>8 DEF Rsv!Told
<1>11. PICK s \in Y, more \in BOOLEAN :
         /\ v7["buyer"][s] = Rsv!Free /\ v7' = [v7 EXCEPT !["buyer"][s] = Rsv!Requested]
         /\ ~more => \A x \in Y : v7["buyer"][x] = Rsv!Free
         /\ v5' = [v5 EXCEPT !["buyer"] =
                     [told EXCEPT !.loading = TRUE, !.saving = [x \in X |-> "none"], !.overlap = told.overlap \/ more]]
  <2>1. PICK s \in Y :
         /\ v7["buyer"][s] = Rsv!Free /\ v7' = [v7 EXCEPT !["buyer"][s] = Rsv!Requested]
         /\ v5' = [v5 EXCEPT !["buyer"] =
                     [told EXCEPT !.loading = TRUE, !.saving = [x \in X |-> "none"],
                                  !.overlap = told.overlap \/ \E x \in Y : v7["buyer"][x] # Rsv!Free]]
    BY <1>2, <1>10, BookingSorts DEF Rsv!StartLoad
  <2>2. PICK more \in BOOLEAN : more = (\E x \in Y : v7["buyer"][x] # Rsv!Free)
    OBVIOUS
  <2> QED
    BY <2>1, <2>2
<1>12. PICK new : new = [told EXCEPT !.loading = TRUE, !.saving = [x \in X |-> "none"], !.overlap = told.overlap \/ more]
  OBVIOUS
<1>13. /\ new \in Rsv!Page /\ new.list = v5["buyer"].list /\ new.loading
       /\ new.overlap = (v5["buyer"].overlap \/ more) /\ new.known = [v5["buyer"].known EXCEPT ![r] = n]
  BY <1>9, <1>12, BookingSorts DEF Rsv!Page
<1>14. v5' \in [{"buyer"} -> Rsv!Page] /\ v5'["buyer"] = new
  BY <1>11, <1>12, <1>13, BookingPage
<1>15. v6' \in [{"buyer"} -> [C -> BookingCalls]] /\ v6'["buyer"][c] = Rsv!Free
       /\ \A x \in C : x # c => v6'["buyer"][x] = v6["buyer"][x]
  <2>1. Rsv!Free \in BookingCalls
    BY DEF BookingCalls
  <2> QED
    BY <2>1, <1>2, BookingSends
<1>16. v7' \in [{"buyer"} -> [Y -> BookingLoads]] /\ v7'["buyer"][s] = Rsv!Requested
       /\ \A y \in Y : y # s => v7'["buyer"][y] = v7["buyer"][y]
  <2>1. v7 \in [{"buyer"} -> [Y -> BookingLoads]] /\ Rsv!Requested \in BookingLoads
    BY DEF BookingInv, BookingTyped, BookingLoads
  <2>2. v7' = [v7 EXCEPT !["buyer"] = [v7["buyer"] EXCEPT ![s] = Rsv!Requested]]
        /\ [v7["buyer"] EXCEPT ![s] = Rsv!Requested] \in [Y -> BookingLoads]
    BY <2>1, <1>11
  <2>3. v7' \in [{"buyer"} -> [Y -> BookingLoads]] /\ v7'["buyer"] = [v7["buyer"] EXCEPT ![s] = Rsv!Requested]
    BY <2>1, <2>2
  <2> QED
    BY <2>1, <2>3
<1>17. BookingTyped'
  BY <1>2, <1>14, <1>15, <1>16 DEF BookingInv, BookingTyped
<1>18. KnownIsPast'
  <2>1. \A x \in X : Past(x, new.known[x])
    BY <1>7, <1>13 DEF BookingInv, BookingTyped, KnownIsPast, Rsv!Page
  <2> QED
    BY <2>1, <1>2, <1>14 DEF KnownIsPast, Past
<1>19. AnswersArePast'
  BY <1>2, <1>15, BookingSorts DEF BookingInv, AnswersArePast, Speaks, Past
<1>20. ListsAreLater'
  <2>1. ASSUME NEW y \in Y PROVE Later(v7["buyer"][y])'
    <3>1. CASE y = s
      BY <3>1, <1>16, BookingSorts DEF Later
    <3>2. CASE y # s /\ more
      <4>1. v5'["buyer"].overlap = TRUE
        BY <3>2, <1>13, <1>14
      <4>2. v7'["buyer"][y] = v7["buyer"][y] /\ Later(v7["buyer"][y])
        BY <3>2, <1>16 DEF BookingInv, ListsAreLater
      <4> QED
        BY <4>1, <4>2 DEF Later, Whole
    <3>3. CASE y # s /\ ~more
      BY <3>3, <1>11, <1>16, BookingSorts DEF Later
    <3> QED
      BY <3>1, <3>2, <3>3
  <2> QED
    BY <2>1 DEF ListsAreLater
<1>21. ListIsLater'
  BY <1>13, <1>14 DEF BookingInv, ListIsLater, Whole
<1> QED
  BY <1>17, <1>18, <1>19, <1>20, <1>21 DEF BookingInv

\* The page is loaded anew, and forgets.
LEMMA BookingForgets ==
  ASSUME BookingInv, NEW c \in C, Rsv!ReplyDeleted("buyer", c)
  PROVE  BookingInv'
<1>1. /\ UNCHANGED <<v1, v2>> /\ v5' = [v5 EXCEPT !["buyer"] = Rsv!Mounted]
      /\ v6' = [v6 EXCEPT !["buyer"] =
            [x \in C |-> IF x = c \/ v6["buyer"][x] = Rsv!Free THEN Rsv!Free
                         ELSE [v6["buyer"][x] EXCEPT !.heard = FALSE]]]
      /\ \E s \in Y : v7' = [v7 EXCEPT !["buyer"] = [x \in Y |-> IF x = s THEN Rsv!Requested ELSE Rsv!Free]]
  BY DEF Rsv!ReplyDeleted, Rsv!server, BookingInv, BookingTyped
<1>2. v5' \in [{"buyer"} -> Rsv!Page] /\ v5'["buyer"] = Rsv!Mounted
  BY <1>1, BookingMounted, BookingPage
<1>3. ASSUME NEW x \in C
      PROVE  /\ v6'["buyer"][x] \in BookingCalls
             /\ v6'["buyer"][x].phase # "free" => /\ v6'["buyer"][x].phase = v6["buyer"][x].phase
                                                  /\ v6'["buyer"][x].r = v6["buyer"][x].r
                                                 /\ v6'["buyer"][x].op = v6["buyer"][x].op
  <2>1. v6 \in [{"buyer"} -> [C -> BookingCalls]]
    BY DEF BookingInv, BookingTyped
  <2>2. \/ v6'["buyer"][x] = Rsv!Free
        \/ v6'["buyer"][x] = [v6["buyer"][x] EXCEPT !.heard = FALSE] /\ v6["buyer"][x] # Rsv!Free
    BY <2>1, <1>1
  <2>3. CASE v6'["buyer"][x] = Rsv!Free
    BY <2>3, BookingSorts DEF BookingCalls
  <2>4. CASE v6'["buyer"][x] = [v6["buyer"][x] EXCEPT !.heard = FALSE] /\ v6["buyer"][x] # Rsv!Free
    <3>1. PICK k : k = v6["buyer"][x]
      OBVIOUS
    <3>2. k \in [phase : {"sent", "ok", "url", "no_url", "error"}, op : Rsv!Ops, r : X, heard : BOOLEAN]
      BY <2>1, <2>4, <3>1 DEF BookingCalls
    <3>3. PICK l : l = [k EXCEPT !.heard = FALSE]
      OBVIOUS
    <3>4. l \in BookingCalls /\ l.phase = k.phase /\ l.r = k.r /\ l.op = k.op
      BY <3>2, <3>3 DEF BookingCalls
    <3> QED
      BY <2>4, <3>1, <3>3, <3>4
  <2> QED
    BY <2>2, <2>3, <2>4
<1>4. v6' \in [{"buyer"} -> [C -> BookingCalls]]
  <2>1. v6 \in [{"buyer"} -> [C -> BookingCalls]]
    BY DEF BookingInv, BookingTyped
  <2>2. PICK f : /\ v6' = [v6 EXCEPT !["buyer"] = f]
                 /\ f = [x \in C |-> IF x = c \/ v6["buyer"][x] = Rsv!Free THEN Rsv!Free
                                      ELSE [v6["buyer"][x] EXCEPT !.heard = FALSE]]
    BY <1>1
  <2>3. v6'["buyer"] = f
    BY <2>1, <2>2
  <2>4. f \in [C -> BookingCalls]
    <3>1. \A x \in C : f[x] \in BookingCalls
      BY <1>3, <2>3
    <3> QED
      BY <3>1, <2>2
  <2> QED
    BY <2>1, <2>2, <2>4
<1>5. v7' \in [{"buyer"} -> [Y -> BookingLoads]] /\ \A y \in Y : v7'["buyer"][y].phase \in {"free", "sent"}
  <2>1. v7 \in [{"buyer"} -> [Y -> BookingLoads]]
    BY DEF BookingInv, BookingTyped
  <2>2. PICK s \in Y : v7' = [v7 EXCEPT !["buyer"] = [x \in Y |-> IF x = s THEN Rsv!Requested ELSE Rsv!Free]]
    BY <1>1
  <2>3. PICK f : f = [x \in Y |-> IF x = s THEN Rsv!Requested ELSE Rsv!Free]
    OBVIOUS
  <2>4. v7' = [v7 EXCEPT !["buyer"] = f]
    BY <2>2, <2>3
  <2>5. f \in [Y -> BookingLoads] /\ \A y \in Y : f[y].phase \in {"free", "sent"}
    BY <2>3, BookingSorts DEF BookingLoads
  <2> QED
    BY <2>1, <2>4, <2>5
<1>6. BookingTyped'
  BY <1>1, <1>2, <1>4, <1>5 DEF BookingInv, BookingTyped
<1>7. KnownIsPast'
  BY <1>2, BookingMounted DEF KnownIsPast, Past
<1>8. AnswersArePast'
  <2>1. ASSUME NEW x \in C PROVE Speaks(x)'
    <3>1. Speaks(x) /\ UNCHANGED v1
      BY <1>1 DEF BookingInv, AnswersArePast
    <3> QED
      BY <3>1, <1>3, BookingSorts DEF Speaks, Past
  <2> QED
    BY <2>1 DEF AnswersArePast
<1>9. ListsAreLater'
  BY <1>5 DEF ListsAreLater, Later
<1>10. ListIsLater'
  BY <1>2, BookingMounted, BookingSorts DEF ListIsLater, Whole
<1> QED
  BY <1>6, <1>7, <1>8, <1>9, <1>10 DEF BookingInv

LEMMA BookingNext == BookingInv /\ Rsv!Next => BookingInv'
<1> SUFFICES ASSUME BookingInv, Rsv!Next PROVE BookingInv'
  OBVIOUS
<1>1. ASSUME NEW s \in Y, Rsv!Loading("buyer", s) PROVE BookingInv'
  BY <1>1, BookingList, BookingFirst, BookingShown, BookingDetail DEF Rsv!Loading
<1>2. ASSUME NEW c \in C, Rsv!Handle("buyer", c) PROVE BookingInv'
  BY <1>2, BookingCancels, BookingDeletes, BookingMarks, BookingPays, BookingLost DEF Rsv!Handle
<1>3. ASSUME NEW c \in C, Rsv!Reply("buyer", c) PROVE BookingInv'
  BY <1>3, BookingReloads, BookingForgets, BookingEnds DEF Rsv!Reply
<1> QED
  BY <1>1, <1>2, <1>3, BookingPresses, BookingElsewhere DEF Rsv!Next

LEMMA BookingSays == BookingInv => Rsv!AcknowledgedIsShown /\ Rsv!FilterFindsLabel
<1> SUFFICES ASSUME BookingInv PROVE Rsv!AcknowledgedIsShown /\ Rsv!FilterFindsLabel
  OBVIOUS
<1>1. Rsv!AcknowledgedIsShown
  BY DEF BookingInv, ListIsLater, NotBefore, Rsv!AcknowledgedIsShown
<1>2. Rsv!FilterFindsLabel
  <2>1. SUFFICES ASSUME NEW r \in X, NEW row \in Rsv!Shown, row = v5["buyer"].list[r], row # Rsv!Nothing,
                        NEW f \in {"pending_payment", "active", "completed", "cancelled"}
                 PROVE  Rsv!matchesFilter(row, f) <=>
                          f = IF Rsv!getResDisplay(row) = "paid" THEN "active" ELSE Rsv!getResDisplay(row)
    BY DEF BookingInv, BookingTyped, Rsv!Page, Rsv!Lists, Rsv!FilterFindsLabel
  <2>2. row.status \in {"pending_payment", "active", "settling", "completed", "cancelled"} /\ row.paid \in BOOLEAN
    BY <2>1 DEF BookingInv, ListIsLater, Whole, Rsv!Shown, Rsv!OpenStatuses, Rsv!_TERMINAL
  <2>3. PICK status \in {"pending_payment", "active", "settling", "completed", "cancelled"} : status = row.status
    BY <2>2
  <2>4. PICK paid \in BOOLEAN : paid = row.paid
    BY <2>2
  <2> QED
    BY <2>3, <2>4 DEF Rsv!matchesFilter, Rsv!getResDisplay, Rsv!isPaid, Rsv!Revealed
<1> QED
  BY <1>1, <1>2

LEMMA BookingStill == BookingInv /\ UNCHANGED <<v1, v2, v3, v4, v5, v6, v7, v8>> => BookingInv'
BY DEF BookingInv, BookingTyped, KnownIsPast, Past, AnswersArePast, Speaks, ListsAreLater, Later, ListIsLater
=============================================================================
