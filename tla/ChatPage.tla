------------------------------ MODULE ChatPage ------------------------------
(***************************************************************************)
(* Which chat the page shows, which chat its requests name, and what the   *)
(* server keeps: Chat.svelte while its user goes from chat to chat, and    *)
(* the server that holds each chat as one JSON document.                   *)
(*                                                                         *)
(* The server answers below a message of a chat and writes the answer into *)
(* the document; the page saves the history it holds as a whole.  chatId   *)
(* is a store of the application, the history is a variable of the         *)
(* component: /c/[id] keeps its component from one chat to the next, the   *)
(* start page has another.  No handler that waits for a response is        *)
(* cancelled when the user goes on.                                        *)
(*                                                                         *)
(* A turn is a prompt with its answer; turns are numbered.  On one server  *)
(* process neither a save nor an update of a document is interrupted.      *)
(***************************************************************************)
EXTENDS Naturals, SequencesExt

CONSTANTS
  Chat,
  MaxTurns, MaxMoves, MaxPages,  \* bounds: prompts, navigations and components
  Null

Turn == 1..MaxTurns
Page == 1..MaxPages

(* Of a turn in a history: not there; prompt sent and answer to come; the  *)
(* same, but taken for complete by a load; answered; failed; or an answer  *)
(* without its prompt.                                                     *)
State == {"none", "asked", "blank", "answered", "cut", "orphan"}
History == [Turn -> State]
Empty == [t \in Turn |-> "none"]

ASSUME PageAssumption ==
  /\ Null \notin Chat \cup History
  /\ {MaxTurns, MaxPages} \subseteq Nat \ {0} /\ MaxMoves \in Nat

VARIABLES
  doc,        \* server: of each chat there is, the history in its document; else Null
  of,         \* of a turn: the chat it was typed into
  job,        \* server: of a turn, "none", "running" or "over"
  named,      \* the chat_id of the job
  inbox,      \* events "answer complete" on their way to the page: <<chat, turn>>
  open,       \* $chatId; Null is ''
  prop,       \* chatIdProp of the component shown; Null on the start page
  page,       \* the component shown; those before have been destroyed
  hist,       \* of each component: its history
  owner,      \* of each component: the chat of that history; Null for one to be created
  loading,    \* of each component
  loads,      \* of loadChat: what it waits for
  sends,      \* of sendMessage: what it waits for
  completing, \* of chatCompletedHandler: what it waits for
  moves,      \* navigations so far
  risks       \* history: what the page did that may have lost something, of
              \* "moved", "early", "crossed" and "missed"

server == <<doc, job, named>>
shown == <<open, prop, page>>
here == <<hist, owner, loading>>
handlers == <<loads, sends, completing>>
vars == <<server, of, inbox, shown, here, handlers, moves, risks>>

Asked == Cardinality({t \in Turn : of[t] # Null})
Existing == {c \in Chat : doc[c] # Null}
Waiting == loads # {} \/ sends # {} \/ completing # {}

(* What saving h makes of the document.                                    *)
Saved(h) == [t \in Turn |-> IF h[t] = "blank" THEN "asked" ELSE h[t]]

(* The history is saved without another answer that is still to come, or   *)
(* has come and the page does not know.                                    *)
Early(h, t) == \E u \in Turn \ {t} : h[u] \in {"asked", "blank"}
Crossing(c) ==
  \/ \E s \in sends : s.step = "put" /\ s.chat = c
  \/ \E f \in completing : f.step = "put" /\ f.chat = c
Risk(early, crossed) == (IF early THEN {"early"} ELSE {}) \cup (IF crossed THEN {"crossed"} ELSE {})

-----------------------------------------------------------------------------
(* Going to another chat *)

Move ==
  /\ moves < MaxMoves /\ moves' = moves + 1
  /\ risks' = IF Waiting THEN risks \cup {"moved"} ELSE risks

(* The start page gives way to /c/[id].                                    *)
Shows(g) ==
  /\ g \in Page
  /\ page' = g
  /\ hist' = IF g = page THEN hist ELSE [hist EXCEPT ![g] = Empty]

(* navigateHandler, and loadChat up to its first request *)
Navigate(c) ==
  LET g == IF prop = Null THEN page + 1 ELSE page IN
    /\ c \in Existing /\ c # prop
    /\ Move
    /\ Shows(g)
    /\ prop' = c /\ open' = c
    /\ loading' = [loading EXCEPT ![g] = TRUE]
    /\ loads' = loads \cup {[page |-> g, chat |-> c, step |-> "get", got |-> Empty]}
    /\ UNCHANGED <<server, of, inbox, owner, sends, completing>>

(* initNewChat *)
NewChat ==
  LET g == IF prop = Null THEN page ELSE page + 1 IN
    /\ Existing # Chat
    /\ Move
    /\ g \in Page /\ page' = g
    /\ hist' = [hist EXCEPT ![g] = Empty]
    /\ owner' = [owner EXCEPT ![g] = Null]
    /\ prop' = Null /\ open' = Null
    /\ loading' = [loading EXCEPT ![g] = FALSE]
    /\ UNCHANGED <<server, of, inbox, handlers>>

Goes(l, step, got) == loads' = (loads \ {l}) \cup {[l EXCEPT !.step = step, !.got = got]}

LoadRead(l) ==  \* getChatById
  /\ l \in loads /\ l.step = "get"
  /\ Goes(l, "read", doc[l.chat])
  /\ UNCHANGED <<server, of, inbox, shown, here, sends, completing, moves, risks>>

(* Mutant: what the page has of the last chat stays.                       *)
LoadMerges(l) ==
  /\ l \in loads /\ l.step = "read"
  /\ Goes(l, "shown", Empty)
  /\ hist' = [hist EXCEPT ![l.page] =
                [t \in Turn |-> IF l.got[t] = "none" THEN hist[l.page][t] ELSE l.got[t]]]
  /\ owner' = [owner EXCEPT ![l.page] = l.chat]
  /\ UNCHANGED <<server, of, inbox, shown, loading, sends, completing, moves, risks>>

LoadShow(l) ==  \* getTagsById; the settings come next
  /\ l \in loads /\ l.step = "read"
  /\ Goes(l, "shown", Empty)
  /\ hist' = [hist EXCEPT ![l.page] = l.got]
  /\ owner' = [owner EXCEPT ![l.page] = l.chat]
  /\ UNCHANGED <<server, of, inbox, shown, loading, sends, completing, moves, risks>>

(* Whatever is being written is taken for complete; any load that ends     *)
(* unblocks the page.                                                      *)
LoadEnds(l) ==
  /\ l \in loads /\ l.step = "shown"
  /\ loads' = loads \ {l}
  /\ hist' = [hist EXCEPT ![l.page] =
                [t \in Turn |-> IF hist[l.page][t] = "asked" THEN "blank" ELSE hist[l.page][t]]]
  /\ loading' = [loading EXCEPT ![l.page] = FALSE]
  /\ UNCHANGED <<server, of, inbox, shown, owner, sends, completing, moves, risks>>

-----------------------------------------------------------------------------
(* Sending a prompt *)

(* saveChatHandler: nothing is saved if another chat is open.              *)
Save(t, g, c, h, others) ==
  IF open' = c
  THEN /\ sends' = others \cup {[page |-> g, turn |-> t, chat |-> c, step |-> "put", body |-> Saved(h)]}
       /\ risks' = risks \cup Risk(Early(h, t), Crossing(c))
  ELSE /\ sends' = others \cup {[page |-> g, turn |-> t, chat |-> open', step |-> "post", body |-> Empty]}
       /\ UNCHANGED risks

(* submitPrompt and sendMessage, up to the first request.  The first       *)
(* prompt of a history creates a chat, whichever is open.                  *)
SubmitPrompt ==
  LET t == Asked + 1
      h == [hist[page] EXCEPT ![t] = "asked"]
  IN  /\ Asked < MaxTurns
      /\ ~loading[page]
      /\ \A u \in Turn : hist[page][u] \notin {"asked", "cut"}
      /\ hist' = [hist EXCEPT ![page] = h]
      /\ IF hist[page] = Empty
         THEN /\ \E c \in Chat \ Existing :
                   /\ \A s \in sends : s.chat # c
                   /\ of' = [of EXCEPT ![t] = c]
                   /\ sends' = sends \cup
                        {[page |-> page, turn |-> t, chat |-> c, step |-> "create", body |-> Empty]}
              /\ UNCHANGED risks
         ELSE /\ of' = [of EXCEPT ![t] = owner[page]]
              /\ UNCHANGED open
              /\ Save(t, page, open, h, sends)
      /\ UNCHANGED <<server, inbox, shown, owner, loading, loads, completing, moves>>

(* initChatHandler: the chat exists, with the prompt, and is the open one, *)
(* whatever the user has opened meanwhile.                                 *)
Created(s) ==
  /\ s \in sends /\ s.step = "create"
  /\ doc' = [doc EXCEPT ![s.chat] = [Empty EXCEPT ![s.turn] = "asked"]]
  /\ open' = s.chat
  /\ owner' = [owner EXCEPT ![s.page] = s.chat]
  /\ sends' = (sends \ {s}) \cup {[s EXCEPT !.step = "list"]}
  /\ UNCHANGED <<of, job, named, inbox, prop, page, hist, loading, loads, completing, moves, risks>>

Listed(s) ==  \* the list of chats is there; the whole history is saved
  /\ s \in sends /\ s.step = "list"
  /\ UNCHANGED open
  /\ Save(s.turn, s.page, s.chat, hist[s.page], sends \ {s})
  /\ UNCHANGED <<server, of, inbox, prop, page, here, loads, completing, moves>>

Put(s) ==  \* update_chat_by_id; sendMessageSocket then names the chat open at that moment
  /\ s \in sends /\ s.step = "put"
  /\ doc' = [doc EXCEPT ![s.chat] = s.body]
  /\ sends' = (sends \ {s}) \cup {[s EXCEPT !.step = "post", !.chat = open, !.body = Empty]}
  /\ UNCHANGED <<of, job, named, inbox, shown, here, loads, completing, moves, risks>>

Accept(s) ==
  /\ s \in sends /\ s.step = "post"
  /\ sends' = sends \ {s}
  /\ job' = [job EXCEPT ![s.turn] = "running"]
  /\ named' = [named EXCEPT ![s.turn] = s.chat]
  /\ UNCHANGED <<doc, of, inbox, shown, here, loads, completing, moves, risks>>

(* A copy of the answer is put into what the component holds by now.       *)
PostFails(s) ==
  /\ s \in sends /\ s.step = "post"
  /\ sends' = sends \ {s}
  /\ hist' = [hist EXCEPT ![s.page][s.turn] = IF @ = "none" THEN "orphan" ELSE "cut"]
  /\ UNCHANGED <<server, of, inbox, shown, owner, loading, loads, completing, moves, risks>>

-----------------------------------------------------------------------------
(* Answers *)

(* Mutant: the page is to save the answer.                                 *)
AnswerUnsaved(t) ==
  /\ job[t] = "running"
  /\ job' = [job EXCEPT ![t] = "over"]
  /\ inbox' = Append(inbox, <<named[t], t>>)
  /\ UNCHANGED <<doc, named, of, shown, here, handlers, moves, risks>>

(* upsert_message_to_chat_by_id_and_message_id, then the event.  Without   *)
(* a chat nothing is stored.                                               *)
AnswerSaved(t) ==
  LET c == named[t] IN
    /\ job[t] = "running"
    /\ job' = [job EXCEPT ![t] = "over"]
    /\ doc' = IF c = Null THEN doc
              ELSE [doc EXCEPT ![c][t] = IF @ \in {"none", "orphan"} THEN "orphan" ELSE "answered"]
    /\ inbox' = Append(inbox, <<c, t>>)
    /\ UNCHANGED <<named, of, shown, here, handlers, moves, risks>>

Heard(c, t) == open = c /\ hist[page][t] # "none"
Chain(t) == {u \in 1..t : hist[page][u] # "none"}
Missed(c) == \E l \in loads : l.chat = c /\ l.step = "read"

(* Mutant: events are left alone while a chat is being loaded.             *)
EventIfLoaded ==
  LET c == Head(inbox)[1]
      t == Head(inbox)[2]
      heard == Heard(c, t) /\ ~loading[page]
  IN  /\ inbox # <<>> /\ inbox' = Tail(inbox)
      /\ hist' = IF heard THEN [hist EXCEPT ![page][t] = "answered"] ELSE hist
      /\ UNCHANGED completing
      /\ risks' = IF ~Heard(c, t) /\ Missed(c) THEN risks \cup {"missed"} ELSE risks
      /\ UNCHANGED <<server, of, shown, owner, loading, loads, sends, moves>>

(* chatEventHandler, of the component shown, and chatCompletionEventHandler *)
Event ==
  LET c == Head(inbox)[1]
      t == Head(inbox)[2]
  IN  /\ inbox # <<>> /\ inbox' = Tail(inbox)
      /\ IF Heard(c, t)
         THEN /\ hist' = [hist EXCEPT ![page][t] = "answered"]
              /\ completing' = completing \cup
                   {[page |-> page, turn |-> t, chat |-> c, step |-> "post", chain |-> Chain(t), body |-> Empty]}
         ELSE UNCHANGED <<hist, completing>>
      /\ risks' = IF ~Heard(c, t) /\ Missed(c) THEN risks \cup {"missed"} ELSE risks
      /\ UNCHANGED <<server, of, shown, owner, loading, loads, sends, moves>>

(* chatCompletedHandler: an exception if it is to replace a message that   *)
(* the component does not hold; if the request has failed it replaces      *)
(* nothing.  Then the history is saved, if the chat is open.               *)
Completed(f, ok) ==
  LET h == hist[f.page]
      saves == open = f.chat /\ (ok => \A u \in f.chain : h[u] # "none")
      rest == completing \ {f}
  IN  /\ f \in completing /\ f.step = "post"
      /\ completing' = IF saves THEN rest \cup {[f EXCEPT !.step = "put", !.body = Saved(h)]} ELSE rest
      /\ risks' = IF saves
                  THEN risks \cup Risk(Early(h, f.turn),
                                       Crossing(f.chat) \/ \E s \in sends : s.step = "list" /\ s.chat = f.chat)
                  ELSE risks
      /\ UNCHANGED <<server, of, inbox, shown, here, loads, sends, moves>>

CompletedSaved(f) ==
  /\ f \in completing /\ f.step = "put"
  /\ doc' = [doc EXCEPT ![f.chat] = f.body]
  /\ completing' = completing \ {f}
  /\ UNCHANGED <<job, named, of, inbox, shown, here, loads, sends, moves, risks>>

-----------------------------------------------------------------------------

(* One chat has a turn that was answered long ago; the user is on the      *)
(* start page, or has that chat open.                                      *)
Init ==
  /\ \E c \in Chat, started \in BOOLEAN :
       LET old == [Empty EXCEPT ![1] = "answered"] IN
         /\ doc = [x \in Chat |-> IF x = c THEN old ELSE Null]
         /\ of = [t \in Turn |-> IF t = 1 THEN c ELSE Null]
         /\ prop = IF started THEN c ELSE Null
         /\ open = prop
         /\ hist = [g \in Page |-> IF started /\ g = 1 THEN old ELSE Empty]
         /\ owner = [g \in Page |-> IF started /\ g = 1 THEN c ELSE Null]
  /\ job = [t \in Turn |-> IF t = 1 THEN "over" ELSE "none"]
  /\ named = of
  /\ inbox = <<>>
  /\ page = 1
  /\ loading = [g \in Page |-> FALSE]
  /\ loads = {} /\ sends = {} /\ completing = {}
  /\ moves = 0 /\ risks = {}

Next ==
  \/ \E c \in Chat : Navigate(c)
  \/ NewChat \/ SubmitPrompt \/ Event
  \/ \E l \in loads : LoadRead(l) \/ LoadShow(l) \/ LoadEnds(l)
  \/ \E s \in sends : Created(s) \/ Listed(s) \/ Put(s) \/ Accept(s) \/ PostFails(s)
  \/ \E t \in Turn : AnswerSaved(t)
  \/ \E f \in completing : CompletedSaved(f) \/ \E ok \in BOOLEAN : Completed(f, ok)

Spec == Init /\ [][Next]_vars

-----------------------------------------------------------------------------
(* Properties *)

TypeOK ==
  /\ doc \in [Chat -> History \cup {Null}]
  /\ of \in [Turn -> Chat \cup {Null}] /\ named \in [Turn -> Chat \cup {Null}]
  /\ job \in [Turn -> {"none", "running", "over"}]
  /\ inbox \in Seq((Chat \cup {Null}) \X Turn)
  /\ {open, prop} \subseteq Chat \cup {Null} /\ page \in Page
  /\ hist \in [Page -> History] /\ owner \in [Page -> Chat \cup {Null}]
  /\ loading \in [Page -> BOOLEAN]
  /\ moves \in 0..MaxMoves /\ risks \subseteq {"moved", "early", "crossed", "missed"}

(* No turn gets into another chat, neither in the page nor in a document,  *)
(* as long as the user does not go on while the page waits for a response; *)
(* answers may be being written meanwhile.                                 *)
NoStray ==
  "moved" \notin risks =>
    /\ \A c \in Existing, t \in Turn : doc[c][t] # "none" => of[t] = c
    /\ \A t \in Turn : hist[page][t] # "none" /\ owner[page] # Null => of[t] = owner[page]

(* "Create chats, navigate away, and return anytime with responses ready": *)
(* an answer that is complete stays in the document of its chat, with its  *)
(* prompt, unless the user goes on while the page waits, or the page saves *)
(* the history while another answer is to come, or two saves at once.      *)
AnswersKept ==
  risks \cap {"moved", "early", "crossed"} = {} =>
    \A t \in Turn : job[t] = "over" => doc[of[t]][t] = "answered"

(* When nothing is under way, the page shows what the document has, except *)
(* failed sends; in addition no event must have come between the server's  *)
(* read of the document and its display.                                   *)
Quiet == ~Waiting /\ inbox = <<>> /\ \A t \in Turn : job[t] # "running"
SavedWhenQuiet ==
  Quiet /\ risks = {} /\ open # Null =>
    \A t \in Turn :
      \/ Saved(hist[page])[t] = doc[open][t]
      \/ hist[page][t] = "cut" /\ doc[open][t] = "asked"

(* The same of an answer that nobody touched: whoever goes to another chat *)
(* and comes back, when the page is not waiting for anything, finds it.    *)
ResponsesReady ==
  Quiet /\ "moved" \notin risks => \A t \in Turn : job[t] = "over" => doc[of[t]][t] = "answered"
=============================================================================
