---------------------------- MODULE ChatHistory ----------------------------
(***************************************************************************)
(* One open chat of the web client: the history kept by Chat.svelte, its   *)
(* handlers and those of Messages.svelte, MultiResponseMessages.svelte and *)
(* ResponseMessage.svelte (all in src/lib/components/chat), and the        *)
(* requests and socket events they exchange with the server.               *)
(*                                                                         *)
(* JavaScript runs a handler up to its next wait for the network; tick()   *)
(* only yields to the microtask queue, which no event or response enters   *)
(* in between.  What a handler keeps of a message across a wait is its     *)
(* object, or a deep copy; once the entry of history.messages is replaced, *)
(* the object kept is an old one, which shares childrenIds with the new    *)
(* one until either gets another array.                                    *)
(*                                                                         *)
(* Ids are numbered in the order of their creation.  The texts of messages *)
(* are left out, except that an answer may have failed with none.          *)
(***************************************************************************)
EXTENDS Naturals, SequencesExt

CONSTANTS
  MaxQuestions, MaxAnswers, MaxCalls,  \* bounds: messages and completion requests
  Menus,                               \* bound: of how many models to select, and what else is done
  Null

Doings == {"stop", "regenerate", "continue", "edit", "copy", "follow", "delete", "rate", "merge",
           "pair", "title", "fail", "offline"}

ASSUME HistoryAssumption ==
  /\ MaxQuestions \in Nat /\ MaxAnswers \in Nat /\ MaxCalls \in Nat
  /\ Menus \subseteq (Nat \ {0}) \X SUBSET Doings
  /\ Null \notin Nat

Question == 1..MaxQuestions
Answer == (MaxQuestions + 1)..(MaxQuestions + MaxAnswers)
Id == Question \cup Answer
Call == 1..MaxCalls
Title == MaxCalls + 1
Rating == MaxCalls + 2
Merge == MaxCalls + 3
Keeper == 1..MaxCalls + 3  \* who keeps a message: a request, or the handler of one of these

VARIABLES
  width, menu,     \* of Menus: the models selected, and Doings that occur; they do not change
  keys,            \* Object.keys(history.messages)
  parent, kids,    \* parentId and childrenIds
  done,
  slot,            \* modelIdx
  failed,          \* answers with an error and no content
  currentId,
  asked, answered, \* ids used up
  call, post, job, \* of a completion request: its answer, its HTTP request, its task
  kept,            \* the message a handler keeps while it waits
  taskIds,
  loop,            \* of stopResponse: the array, its position in it, and whether taskIds still is it
  inbox,           \* socket events on their way to the page
  finishing,       \* requests to chat/completed: their answer and its chain of messages
  stale,           \* history: who wrote an outdated copy back
  hasty,           \* history: something was sent below an answer that was still being written
  lost             \* history: answers whose end the page never learns

links == <<keys, parent, kids>>
view == <<done, slot, failed, currentId>>
sending == <<call, post, job, kept>>
stopping == <<taskIds, loop>>
ghosts == <<stale, hasty, lost>>
vars == <<width, menu, links, view, asked, answered, sending, stopping, inbox, finishing, ghosts>>

-----------------------------------------------------------------------------
(* The tree *)

Live == Range(keys)
Without(s, S) == FlattenSeq([i \in DOMAIN s |-> IF s[i] \in S THEN <<>> ELSE <<s[i]>>])
Roots == Without(keys, {x \in Id : parent[x] # Null})
Siblings(x) == IF parent[x] = Null THEN Roots ELSE kids[parent[x]]

\* The last child of the last child, and so on.
Leaf(x, below) ==
  LET down[n \in 0..MaxQuestions + MaxAnswers] ==
        IF n = 0 THEN x
        ELSE LET y == down[n - 1] IN IF y \in Id /\ below[y] # <<>> THEN Last(below[y]) ELSE y
  IN  down[MaxQuestions + MaxAnswers]

\* createMessagesList: the messages above it, and the message.
Chain(x) ==
  LET up[n \in 0..MaxQuestions + MaxAnswers] ==
        IF n = 0 THEN <<>>
        ELSE LET rest == up[n - 1]
                 top == IF rest = <<>> THEN x ELSE parent[Head(rest)]
             IN  IF top \in Live THEN <<top>> \o rest ELSE rest
  IN  up[MaxQuestions + MaxAnswers]

ShownChain == Chain(currentId)

\* The messages on the page: with several models, their answers stand side by side.
Displayed ==
  Range(ShownChain) \cup
    (IF width = 1 THEN {} ELSE UNION {Range(Siblings(x)) \cap Live : x \in Range(ShownChain) \cap Answer})

\* What the arrows of an answer go through: the answers of the same model to the same question.
SameModel(a) == {x \in Range(Siblings(a)) \cap Live : width = 1 \/ slot[x] = slot[a]}

Working(c) == post[c] = "sent" \/ job[c] = "running"
Pending(a) == \E c \in Call : call[c] = a /\ Working(c)

-----------------------------------------------------------------------------
(* What handlers keep while they wait *)

KeeperName == <<"title", "rate", "merge">>
Object(x) == [id |-> x, is |-> "object", parent |-> Null, kids |-> <<>>]
Copy(x, is) == [id |-> x, is |-> is, parent |-> parent[x], kids |-> kids[x]]
Keeps(h, is) == kept[h] # Null /\ kept[h].is = is

\* The entries in S are replaced or deleted: a handler that keeps one's object now keeps an old one.
Outdated(S) ==
  [h \in Keeper |-> IF Keeps(h, "object") /\ kept[h].id \in S THEN Copy(kept[h].id, "old") ELSE kept[h]]

\* childrenIds.push(y) on the message x
Pushed(x, y) ==
  [h \in Keeper |-> IF Keeps(h, "old") /\ kept[h].id = x /\ kept[h].kids = kids[x]
                    THEN [kept[h] EXCEPT !.kids = Append(@, y)] ELSE kept[h]]

\* history.messages[id] = what h keeps.  Others keep an old object afterwards; h forgets its own unless it goes on.
PutBack(h, goesOn) ==
  LET w == kept[h]
      a == w.id
      torn == a \notin Live \/ (w.is # "object" /\ <<w.parent, w.kids>> # <<parent[a], kids[a]>>)
  IN  /\ keys' = IF a \in Live THEN keys ELSE Append(keys, a)
      /\ parent' = IF w.is = "object" THEN parent ELSE [parent EXCEPT ![a] = w.parent]
      /\ kids' = IF w.is = "object" THEN kids ELSE [kids EXCEPT ![a] = w.kids]
      /\ kept' = [(IF w.is = "object" THEN kept ELSE Outdated({a})) EXCEPT
                    ![h] = IF goesOn THEN Object(a) ELSE Null]
      /\ stale' = IF torn THEN stale \cup {IF h \in Call THEN "call" ELSE KeeperName[h - MaxCalls]} ELSE stale

-----------------------------------------------------------------------------
(* Sending *)

Sent == Cardinality({c \in Call : call[c] # Null})

\* sendMessage: below the question q an answer for each entry of slots, and a request for each answer,
\* unless the chat, which is saved first, cannot be.  The links and copies are those the caller leaves.
Send(q, slots, keys0, parent0, kids0, kept0) ==
  LET n == Len(slots)
      new == [i \in 1..n |-> MaxQuestions + answered + i]
      New(c) == c - Sent \in 1..n
  IN  /\ answered + n <= MaxAnswers /\ Sent + n <= MaxCalls
      /\ keys' = keys0 \o new
      /\ parent' = [x \in Id |-> IF x \in Range(new) THEN q ELSE parent0[x]]
      /\ kids' = [kids0 EXCEPT ![q] = @ \o new]
      /\ slot' = [x \in Answer |-> IF x \in Range(new) THEN slots[x - MaxQuestions - answered] ELSE slot[x]]
      /\ currentId' = Last(new)
      /\ answered' = answered + n
      /\ call' = [c \in Call |-> IF New(c) THEN new[c - Sent] ELSE call[c]]
      /\ \E saved \in IF "offline" \in menu THEN BOOLEAN ELSE {TRUE} :
           /\ post' = [c \in Call |-> IF ~New(c) THEN post[c] ELSE IF saved THEN "sent" ELSE "failed"]
           /\ kept' = [h \in Keeper |-> IF h \in Call /\ saved /\ New(h)
                                        THEN [id |-> new[h - Sent], is |-> "copy", parent |-> q, kids |-> <<>>]
                                        ELSE kept0[h]]
           /\ lost' = IF saved THEN lost ELSE lost \cup Range(new)
      /\ UNCHANGED <<width, menu, done, failed, job, stopping, inbox, finishing, stale>>

\* A new question below up, with its answers; submitPrompt pushes it to childrenIds, others set another array.
Ask(up, pushes) ==
  LET q == asked + 1
      below == up # Null
  IN  /\ asked < MaxQuestions
      /\ asked' = q
      /\ hasty' = (hasty \/ (below /\ Pending(up)))
      /\ Send(q, [i \in 1..width |-> i], Append(keys, q), [parent EXCEPT ![q] = up],
              IF below THEN [kids EXCEPT ![up] = Append(@, q)] ELSE kids,
              IF below /\ pushes THEN Pushed(up, q) ELSE kept)

SubmitPrompt ==
  /\ currentId # Null => done[currentId] /\ currentId \notin failed
  /\ Ask(currentId, TRUE)

\* Mutant: follow-up questions are offered before the answer is complete.
SubmitEarly(a) ==
  /\ "follow" \in menu
  /\ a \in Displayed \cap Answer
  /\ Ask(a, FALSE)

SubmitMessage(a) ==  \* a suggested follow-up question
  /\ "follow" \in menu
  /\ a \in Displayed \cap Answer /\ done[a]
  /\ Ask(a, FALSE)

EditQuestion(q) ==
  /\ "edit" \in menu
  /\ q \in Range(ShownChain) \cap Question
  /\ Ask(parent[q], FALSE)

RegenerateResponse(a) ==
  /\ "regenerate" \in menu
  /\ a \in Displayed \cap Answer /\ done[a] /\ parent[a] \in Live
  /\ Send(parent[a], IF width > 1 THEN <<slot[a]>> ELSE <<1>>, keys, parent, kids, kept)
  /\ UNCHANGED <<asked, hasty>>

ContinueResponse ==
  /\ "continue" \in menu
  /\ currentId \in Answer /\ done[currentId] /\ Sent < MaxCalls
  /\ done' = [done EXCEPT ![currentId] = FALSE]
  /\ call' = [call EXCEPT ![Sent + 1] = currentId]
  /\ post' = [post EXCEPT ![Sent + 1] = "sent"]
  /\ kept' = [kept EXCEPT ![Sent + 1] = Object(currentId)]
  /\ UNCHANGED <<width, menu, links, slot, failed, currentId, asked, answered, job, stopping, inbox, finishing, ghosts>>

-----------------------------------------------------------------------------
(* What the user does to the tree without asking a model *)

idle == <<width, menu, asked, answered, call, post, job, stopping, inbox, finishing, lost>>

\* Mutant: the question is not entered in the childrenIds of the message above.
PairUnlinked(up) ==
  LET q == asked + 1
      a == MaxQuestions + answered + 1
  IN  /\ "pair" \in menu
      /\ asked < MaxQuestions /\ answered < MaxAnswers
      /\ asked' = q /\ answered' = answered + 1
      /\ keys' = keys \o <<q, a>>
      /\ parent' = [parent EXCEPT ![q] = up, ![a] = q]
      /\ kids' = [kids EXCEPT ![q] = <<a>>]
      /\ done' = [done EXCEPT ![a] = TRUE]
      /\ slot' = [slot EXCEPT ![a] = 1]
      /\ currentId' = a
      /\ UNCHANGED <<width, menu, failed, kept, call, post, job, stopping, inbox, finishing, ghosts>>

\* A question with its answer, which is complete; both are pushed to childrenIds.
Pair(up) ==
  LET q == asked + 1
      a == MaxQuestions + answered + 1
  IN  /\ "pair" \in menu
      /\ asked < MaxQuestions /\ answered < MaxAnswers
      /\ asked' = q /\ answered' = answered + 1
      /\ keys' = keys \o <<q, a>>
      /\ parent' = [parent EXCEPT ![q] = up, ![a] = q]
      /\ kids' = [x \in Id |-> IF x = q THEN <<a>> ELSE IF x = up THEN Append(kids[x], q) ELSE kids[x]]
      /\ kept' = IF up = Null THEN kept ELSE Pushed(up, q)
      /\ done' = [done EXCEPT ![a] = TRUE]
      /\ slot' = [slot EXCEPT ![a] = 1]
      /\ currentId' = a
      /\ hasty' = (hasty \/ (up # Null /\ Pending(up)))
      /\ UNCHANGED <<width, menu, failed, call, post, job, stopping, inbox, finishing, stale, lost>>

CreateMessagePair == Pair(currentId)
AddMessages(a) == a \in Displayed \cap Answer /\ done[a] /\ Pair(a)

SaveAsCopy(a) ==
  LET b == MaxQuestions + answered + 1 IN
    /\ "copy" \in menu
    /\ a \in Displayed \cap Answer /\ done[a] /\ parent[a] \in Live
    /\ answered < MaxAnswers /\ answered' = answered + 1
    /\ keys' = Append(keys, b)
    /\ parent' = [parent EXCEPT ![b] = parent[a]]
    /\ kids' = [kids EXCEPT ![parent[a]] = Append(@, b)]
    /\ done' = [done EXCEPT ![b] = TRUE] /\ slot' = [slot EXCEPT ![b] = slot[a]]
    /\ currentId' = b
    /\ UNCHANGED <<width, menu, failed, asked, sending, stopping, inbox, finishing, ghosts>>

EditAnswer(a) ==
  /\ "copy" \in menu
  /\ a \in Displayed \cap failed /\ done[a]
  /\ failed' = failed \ {a}
  /\ UNCHANGED <<width, menu, links, done, slot, currentId, asked, answered, sending, stopping, inbox, finishing, ghosts>>

\* Mutant: the last answer to a question can be deleted.
MayDeleteLast(x) ==
  IF x \in Question
  THEN x \in Range(ShownChain) /\ (x # Head(ShownChain) \/ Len(Siblings(x)) > 1)
  ELSE x \in Displayed /\ done[x]

MayDelete(x) ==
  IF x \in Question
  THEN x \in Range(ShownChain) /\ (x # Head(ShownChain) \/ Len(Siblings(x)) > 1)
  ELSE x \in Displayed /\ done[x] /\ Cardinality(SameModel(x)) > 1

\* Mutant: only the message is deleted, and its children move up.
DeleteOne(x) ==
  LET up == parent[x] IN
    /\ "delete" \in menu
    /\ MayDelete(x)
    /\ keys' = Without(keys, {x})
    /\ parent' = [y \in Id |-> IF y = x THEN Null ELSE IF y \in Range(kids[x]) THEN up ELSE parent[y]]
    /\ kids' = [y \in Id |-> IF y = x THEN <<>>
                             ELSE IF y = up THEN Without(kids[y], {x}) \o kids[x]
                             ELSE kids[y]]
    /\ currentId' = LET roots == Without(keys', {y \in Id : parent'[y] # Null})
                    IN  Leaf(IF up # Null THEN up ELSE Last(roots), kids')
    /\ kept' = Outdated({x})
    /\ done' = [done EXCEPT ![x] = FALSE]
    /\ UNCHANGED <<width, menu, slot, failed, asked, answered, call, post, job, stopping, inbox, finishing, ghosts>>

DeleteMessage(x) ==
  LET up == parent[x]
      gone == {x} \cup Range(kids[x])
      grand == FlattenSeq([i \in DOMAIN kids[x] |-> kids[kids[x][i]]])
  IN  /\ "delete" \in menu
      /\ MayDelete(x)
      /\ keys' = Without(keys, gone)
      /\ parent' = [y \in Id |-> IF y \in gone THEN Null ELSE IF y \in Range(grand) THEN up ELSE parent[y]]
      /\ kids' = [y \in Id |-> IF y \in gone THEN <<>>
                               ELSE IF y = up /\ y \in Live THEN Without(kids[y], {x}) \o grand
                               ELSE kids[y]]
      /\ currentId' = LET roots == Without(keys', {y \in Id : parent'[y] # Null})
                          from == IF up # Null THEN up ELSE IF roots = <<>> THEN Null ELSE Last(roots)
                      IN  Leaf(from, kids')
      /\ kept' = Outdated(gone)
      /\ done' = [y \in Id |-> done[y] /\ y \notin gone]
      /\ UNCHANGED <<width, menu, slot, failed, asked, answered, call, post, job, stopping, inbox, finishing, ghosts>>

-----------------------------------------------------------------------------
(* Which branch is shown *)

\* Mutant: the message itself is shown, not the end of its branch.
ShowShort(x) ==
  /\ x \in Live
  /\ currentId' = x
  /\ UNCHANGED <<width, menu, links, done, slot, failed, asked, answered, sending, stopping, inbox, finishing, ghosts>>

ShowBranch(x) ==
  /\ Leaf(x, kids) \in Live
  /\ currentId' = Leaf(x, kids)
  /\ UNCHANGED <<width, menu, links, done, slot, failed, asked, answered, sending, stopping, inbox, finishing, ghosts>>

ShowMessage(x) == x \in Live /\ ShowBranch(x)  \* from the overview of the chat

\* The number typed between the arrows is clamped.
GotoMessage(x, i) ==
  LET y == Siblings(x)[IF i > Len(Siblings(x)) THEN Len(Siblings(x)) ELSE i] IN
    /\ x \in Range(ShownChain) /\ Siblings(x) # <<>>
    /\ y # x /\ ShowBranch(y)

ShowPreviousMessage(x) ==
  \E i \in DOMAIN Siblings(x) :
    x \in Range(ShownChain) /\ Siblings(x)[i] = x /\ i > 1 /\ ShowBranch(Siblings(x)[i - 1])

ShowNextMessage(x) ==
  \E i \in DOMAIN Siblings(x) :
    x \in Range(ShownChain) /\ Siblings(x)[i] = x /\ i < Len(Siblings(x)) /\ ShowBranch(Siblings(x)[i + 1])

\* Of several models: a click on one of the answers, or its arrows.
GroupClick(a) == width > 1 /\ a \in Displayed \cap Answer /\ ShowBranch(a)

-----------------------------------------------------------------------------
(* The completion requests and the tasks of the server *)

still == <<width, menu, asked, answered>>
Event(type, a) == [type |-> type, id |-> a]

Accept(c) ==  \* the server starts the task, and answers
  /\ post[c] = "sent" /\ job[c] = "none"
  /\ job' = [job EXCEPT ![c] = "running"]
  /\ UNCHANGED <<still, links, view, call, post, kept, stopping, inbox, finishing, ghosts>>

\* The answer is complete; what is generated after it still belongs to the task, which shows only where
\* there are titles, failures or stops.
Tidies == menu \cap {"title", "fail", "stop"} # {}
TaskAnswers(c) ==
  /\ job[c] = "running"
  /\ job' = [job EXCEPT ![c] = IF Tidies THEN "tidying" ELSE "ended"]
  /\ inbox' = Append(inbox, Event("done", call[c]))
  /\ UNCHANGED <<still, links, view, call, post, kept, stopping, finishing, ghosts>>

TaskEnds(c, titles) ==
  /\ job[c] = "tidying" /\ (titles => "title" \in menu)
  /\ job' = [job EXCEPT ![c] = "ended"]
  /\ inbox' = IF titles THEN Append(inbox, Event("title", call[c])) ELSE inbox
  /\ UNCHANGED <<still, links, view, call, post, kept, stopping, finishing, ghosts>>

TaskFails(c) ==
  /\ "fail" \in menu
  /\ job[c] \in {"running", "tidying"}
  /\ job' = [job EXCEPT ![c] = "ended"]
  /\ inbox' = inbox \o <<Event("error", call[c]), Event("cancel", call[c])>>
  /\ UNCHANGED <<still, links, view, call, post, kept, stopping, finishing, ghosts>>

\* sendMessageSocket gets the id of the task; the array a stop is going through may grow.
SendAccepted(c) ==
  /\ post[c] = "sent" /\ job[c] # "none"
  /\ post' = [post EXCEPT ![c] = "over"]
  /\ kept' = [kept EXCEPT ![c] = Null]
  /\ taskIds' = IF taskIds = Null THEN <<c>> ELSE Append(taskIds, c)
  /\ loop' = IF loop # Null /\ loop.shared THEN [loop EXCEPT !.arr = Append(@, c)] ELSE loop
  /\ UNCHANGED <<still, links, view, call, job, inbox, finishing, ghosts>>

\* Mutant: the failure of a request is only reported.
SendFailsQuietly(c) ==
  /\ post[c] = "sent"
  /\ post' = [post EXCEPT ![c] = "failed"]
  /\ job' = [job EXCEPT ![c] = IF @ = "none" THEN "ended" ELSE @]
  /\ kept' = [kept EXCEPT ![c] = Null]
  /\ UNCHANGED <<still, links, view, call, stopping, inbox, finishing, ghosts>>

\* It fails, whether the server has accepted it or not: the message kept, with an error, becomes the
\* one shown.
SendFails(c) ==
  LET a == call[c] IN
    /\ post[c] = "sent"
    /\ post' = [post EXCEPT ![c] = "failed"]
    /\ job' = [job EXCEPT ![c] = IF @ = "none" THEN "ended" ELSE @]
    /\ PutBack(c, FALSE)
    /\ done' = [done EXCEPT ![a] = TRUE]
    /\ failed' = IF kept[c].is = "copy" THEN failed \cup {a} ELSE failed
    /\ currentId' = a
    /\ UNCHANGED <<still, slot, call, stopping, inbox, finishing, hasty, lost>>

-----------------------------------------------------------------------------
(* Stopping *)

StopResponse ==
  /\ "stop" \in menu
  /\ taskIds # Null /\ loop = Null  \* one press of the button at a time
  /\ loop' = [arr |-> taskIds, at |-> 1, shared |-> TRUE]
  /\ UNCHANGED <<still, links, view, sending, taskIds, inbox, finishing, ghosts>>

StopTask ==  \* the request for one task: stop_task_endpoint cancels it, and its end is announced
  /\ loop # Null /\ loop.at <= Len(loop.arr)
  /\ LET c == loop.arr[loop.at] IN
       /\ job' = [job EXCEPT ![c] = "ended"]
       /\ inbox' = IF job[c] \in {"running", "tidying"} THEN Append(inbox, Event("cancel", call[c])) ELSE inbox
  /\ loop' = [loop EXCEPT !.at = @ + 1]
  /\ UNCHANGED <<still, links, view, call, post, kept, taskIds, finishing, ghosts>>

\* "Set all response messages to done": those to the question above the message shown.
Group == IF currentId # Null /\ parent[currentId] \in Live THEN Range(kids[parent[currentId]]) ELSE {}
GroupDone == [x \in Id |-> done[x] \/ x \in Group \cap Live]

StopReturns ==
  /\ loop # Null /\ loop.at > Len(loop.arr)
  /\ loop' = Null /\ taskIds' = Null
  /\ done' = GroupDone
  /\ kept' = [kept EXCEPT ![Merge] = Null]  \* generationController.abort()
  /\ UNCHANGED <<still, links, slot, failed, currentId, call, post, job, inbox, finishing, ghosts>>

ForgetTasks ==
  /\ taskIds' = Null
  /\ loop' = IF loop = Null THEN Null ELSE [loop EXCEPT !.shared = FALSE]

-----------------------------------------------------------------------------
(* Socket events: chatEventHandler.  Those of messages that are gone are ignored. *)

Arrives(type) ==
  /\ inbox # <<>> /\ Head(inbox).type = type
  /\ inbox' = Tail(inbox)
  /\ UNCHANGED <<still, call, post, job>>
Arrived == Head(inbox).id

Ignored ==
  /\ inbox # <<>> /\ Arrived \notin Live
  /\ inbox' = Tail(inbox)
  /\ UNCHANGED <<still, links, view, sending, stopping, finishing, ghosts>>

DoneArrives ==
  /\ Arrives("done") /\ Arrived \in Live
  /\ done' = [done EXCEPT ![Arrived] = TRUE]
  /\ finishing' = finishing \cup {[id |-> Arrived, chain |-> Chain(Arrived), saving |-> FALSE]}
  /\ UNCHANGED <<links, slot, failed, currentId, kept, stopping, ghosts>>

ErrorArrives ==
  /\ Arrives("error") /\ Arrived \in Live
  /\ failed' \in {failed, failed \cup {Arrived}}  \* it may have had some content
  /\ UNCHANGED <<links, done, slot, currentId, kept, stopping, finishing, ghosts>>

CancelArrives ==
  /\ Arrives("cancel") /\ Arrived \in Live
  /\ ForgetTasks
  /\ done' = GroupDone
  /\ lost' = IF done'[Arrived] THEN lost ELSE lost \cup {Arrived}
  /\ UNCHANGED <<links, slot, failed, currentId, kept, finishing, stale, hasty>>

TitleArrives ==  \* the list of chats is fetched before the message is put back
  /\ Arrives("title") /\ Arrived \in Live
  /\ kept[Title] = Null  \* one title at a time
  /\ kept' = [kept EXCEPT ![Title] = Object(Arrived)]
  /\ UNCHANGED <<links, view, stopping, finishing, ghosts>>

LoseEvent ==
  /\ "offline" \in menu /\ inbox # <<>>
  /\ inbox' = Tail(inbox)
  /\ lost' = IF Head(inbox).type \in {"done", "cancel"} THEN lost \cup {Arrived} ELSE lost
  /\ UNCHANGED <<still, links, view, sending, stopping, finishing, stale, hasty>>

\* chatCompletedHandler: what chat/completed returns for the messages of the chain replaces them, up
\* to the first that has been deleted; then nothing more happens.
ChatCompleted(f) ==
  LET here == {i \in DOMAIN f.chain : \A j \in 1..i : f.chain[j] \in Live} IN
    /\ f \in finishing /\ ~f.saving
    /\ kept' = Outdated({f.chain[i] : i \in here})
    /\ finishing' = (finishing \ {f}) \cup
                      (IF here = DOMAIN f.chain THEN {[f EXCEPT !.saving = TRUE]} ELSE {})
    /\ UNCHANGED <<still, links, view, call, post, job, stopping, inbox, ghosts>>

ChatSaved(f) ==
  /\ f \in finishing /\ f.saving
  /\ finishing' = finishing \ {f}
  /\ ForgetTasks
  /\ UNCHANGED <<still, links, view, sending, inbox, ghosts>>

-----------------------------------------------------------------------------
(* Handlers that keep a message while they wait *)

waiting == <<still, slot, failed, currentId, call, post, job, stopping, inbox, finishing, hasty, lost>>

TitleListed ==
  /\ kept[Title] # Null
  /\ PutBack(Title, FALSE)
  /\ done' = [done EXCEPT ![kept[Title].id] = @ \/ kept[Title].is = "old"]
  /\ UNCHANGED waiting

\* feedbackHandler copies the message, then asks for the chat and stores the rating.
Rate(a) ==
  /\ "rate" \in menu /\ kept[Rating] = Null  \* one rating at a time
  /\ a \in Displayed \cap Answer /\ done[a] /\ parent[a] \in Live
  /\ kept' = [kept EXCEPT ![Rating] = Copy(a, "copy")]
  /\ UNCHANGED <<waiting, links, done, stale>>

\* The copy is saved, and once more with the tags generated for it, or not.
SaveRating(goesOn) ==
  /\ kept[Rating] # Null
  /\ goesOn => kept[Rating].is = "copy"
  /\ PutBack(Rating, goesOn)
  /\ done' = [done EXCEPT ![kept[Rating].id] = TRUE]
  /\ UNCHANGED waiting

MergeResponses(a) ==
  /\ "merge" \in menu /\ kept[Merge] = Null  \* one merge at a time
  /\ width > 1 /\ a \in Range(ShownChain) \cap Answer /\ parent[a] \in Live
  /\ \A b \in Range(Siblings(a)) \cap Live : done[b]
  /\ kept' = [kept EXCEPT ![Merge] = Object(a)]
  /\ UNCHANGED <<waiting, links, done, stale>>

MergeChunk(goesOn) ==
  /\ kept[Merge] # Null
  /\ PutBack(Merge, goesOn)
  /\ done' = [done EXCEPT ![kept[Merge].id] = @ \/ kept[Merge].is = "old"]
  /\ UNCHANGED waiting

-----------------------------------------------------------------------------

Init ==
  /\ \E m \in Menus : width = m[1] /\ menu = m[2]
  /\ keys = <<>> /\ parent = [x \in Id |-> Null] /\ kids = [x \in Id |-> <<>>]
  /\ done = [x \in Id |-> FALSE] /\ slot = [x \in Answer |-> 0] /\ failed = {}
  /\ currentId = Null
  /\ asked = 0 /\ answered = 0
  /\ call = [c \in Call |-> Null] /\ post = [c \in Call |-> "none"] /\ job = [c \in Call |-> "none"]
  /\ kept = [h \in Keeper |-> Null]
  /\ taskIds = Null /\ loop = Null
  /\ inbox = <<>> /\ finishing = {}
  /\ stale = {} /\ hasty = FALSE /\ lost = {}

Sends ==
  \/ SubmitPrompt \/ ContinueResponse
  \/ \E x \in Live : SubmitMessage(x) \/ EditQuestion(x) \/ RegenerateResponse(x)

Changes ==
  \/ CreateMessagePair
  \/ \E x \in Live : AddMessages(x) \/ SaveAsCopy(x) \/ EditAnswer(x) \/ DeleteMessage(x)

Shows ==
  \E x \in Live :
    \/ ShowMessage(x) \/ ShowPreviousMessage(x) \/ ShowNextMessage(x) \/ GroupClick(x)
    \/ \E i \in 1..MaxAnswers : GotoMessage(x, i)

Requests ==
  \E c \in Call :
    \/ Accept(c) \/ TaskAnswers(c) \/ TaskFails(c) \/ SendAccepted(c) \/ SendFails(c)
    \/ \E titles \in BOOLEAN : TaskEnds(c, titles)

Events == Ignored \/ DoneArrives \/ ErrorArrives \/ CancelArrives \/ TitleArrives \/ LoseEvent

Waits ==
  \/ \E f \in finishing : ChatCompleted(f) \/ ChatSaved(f)
  \/ TitleListed
  \/ \E x \in Live : Rate(x) \/ MergeResponses(x)
  \/ \E goesOn \in BOOLEAN : SaveRating(goesOn) \/ MergeChunk(goesOn)

Next == Sends \/ Changes \/ Shows \/ Requests \/ StopResponse \/ StopTask \/ StopReturns \/ Events \/ Waits

Spec == Init /\ [][Next]_vars

-----------------------------------------------------------------------------
(* Properties *)

TypeOK ==
  /\ \E m \in Menus : width = m[1] /\ menu = m[2]
  /\ keys \in Seq(Id) /\ IsInjective(keys)
  /\ parent \in [Id -> Id \cup {Null}] /\ kids \in [Id -> Seq(Id)]
  /\ done \in [Id -> BOOLEAN] /\ slot \in [Answer -> Nat] /\ failed \subseteq Answer
  /\ currentId \in Id \cup {Null}
  /\ asked \in 0..MaxQuestions /\ answered \in 0..MaxAnswers
  /\ call \in [Call -> Answer \cup {Null}]
  /\ post \in [Call -> {"none", "sent", "over", "failed"}] /\ job \in [Call -> {"none", "running", "tidying", "ended"}]
  /\ \A h \in Keeper : kept[h] # Null => kept[h].id \in Answer /\ kept[h].is \in {"object", "old", "copy"}
  /\ taskIds # Null => taskIds \in Seq(Call)
  /\ \A f \in finishing : f.id \in Answer
  /\ stale \subseteq {"call", "title", "rate", "merge"} /\ hasty \in BOOLEAN /\ lost \subseteq Answer

\* The two records of the tree agree: a message is, once, among the childrenIds of the message its parentId
\* names, and the other way round, unless an outdated copy of a message was written back.
LinksAgree ==
  stale = {} =>
    \A x \in Live :
      /\ parent[x] # Null => parent[x] \in Live /\ x \in Range(kids[parent[x]])
      /\ IsInjective(kids[x])
      /\ \A y \in Range(kids[x]) : y \in Live /\ parent[y] = x

\* The message shown, below which the next prompt goes, ends its branch, unless something was sent below an
\* answer still being written.
ShownIsLeaf ==
  stale = {} /\ ~hasty =>
    IF Live = {} THEN currentId = Null ELSE currentId \in Live /\ kids[currentId] = <<>>

\* Whatever is deleted, every question keeps an answer: below a question no prompt is accepted.
QuestionsAnswered == stale = {} => \A q \in Live \cap Question : kids[q] # <<>>

\* An answer that shows as being written is: its request or its task runs or an event about its end is on
\* its way.  Otherwise the chat takes no further prompt.  It may fail to when an event is lost, or a
\* cancellation arrives while another branch is shown.
UndoneWorked ==
  \A a \in Live \cap Answer :
    done[a] \/ Pending(a) \/ a \in lost
            \/ \E i \in DOMAIN inbox : inbox[i].id = a /\ inbox[i].type \in {"done", "cancel"}

\* A request that fails damages the tree only if its answer has been deleted, moved up by a deletion above
\* it or marked as done before; or if a pair was put below it, or it was continued, while it was written.
OnlyDoneDamaged ==
  [][\A c \in Call : SendFails(c) /\ stale = {} /\ stale' # {} =>
       \/ call[c] \notin Live \/ parent[call[c]] # kept[c].parent \/ done[call[c]]
       \/ hasty /\ menu \cap {"pair", "continue"} # {}]_vars

\* Whatever the order of requests, events and clicks, the history is a tree of messages: MessageTree.
Tree ==
  INSTANCE MessageTree WITH
    parent <- IF stale = {} THEN [x \in Live |-> parent[x]] ELSE [x \in {} |-> Null],
    open <- IF stale = {} THEN {a \in Live \cap Answer : ~done[a]} ELSE {},
    shown <- IF stale = {} THEN currentId ELSE Null,
    torn <- stale # {}
TreeSpec == Tree!Spec

\* "stop generation at any time": the page knows each running task it was told of, so that the button stops it.
StopReaches ==
  \A c \in Call : post[c] = "over" /\ job[c] = "running" =>
    (taskIds # Null /\ c \in Range(taskIds)) \/ (loop # Null /\ c \in Range(loop.arr))
=============================================================================
