----------------------------- MODULE ChatProofs -----------------------------
(***************************************************************************)
(* The chat page, for every set of chats and messages: that the messages   *)
(* of one chat form trees, which MessageTree promises and ChatHistory      *)
(* implements; and that what ChatPage shows and saves is what was typed    *)
(* and answered in that chat, whatever requests and events cross.          *)
(***************************************************************************)
EXTENDS ChatPage, FiniteSetTheorems, TLAPS

-----------------------------------------------------------------------------
(* Why: first, what the handlers hold, and that a chat which has been      *)
(* opened or named exists.                                                 *)
HandlersOK ==
  /\ loads \subseteq
       [page : Page, chat : Existing, step : {"get", "read", "shown"}, got : History]
  /\ sends \subseteq
       [page : Page, turn : Turn, chat : Chat \cup {Null},
        step : {"create", "list", "put", "post"}, body : History]
  /\ completing \subseteq
       [page : Page, turn : Turn, chat : Chat \cup {Null}, step : {"post", "put"},
        chain : SUBSET Turn, body : History]
  /\ open \in Existing \cup {Null}
  /\ \A s \in sends :
       IF s.step = "create" THEN s.chat \in Chat ELSE s.chat \in Existing \cup {Null}
  /\ \A t \in Turn : named[t] \in Existing \cup {Null}
Typed == TypeOK /\ HandlersOK

(* While the user goes on only when the page waits for nothing: a turn     *)
(* belongs to the chat that its job and its events name, and the chat      *)
(* exists as soon as the server has been asked to create it.               *)
Within(h, c) == h # Empty /\ \A t \in Turn : h[t] # "none" => of[t] = c
TurnsOK ==
  /\ \A t \in Turn : of[t] # Null <=> t <= Asked
  /\ \A t \in Turn :
       /\ job[t] # "none" => named[t] = of[t] /\ of[t] \in Existing
       /\ of[t] # Null =>
            of[t] \in Existing \/ \E s \in sends : s.step = "create" /\ s.turn = t /\ s.chat = of[t]
  /\ \A i \in DOMAIN inbox :
       LET t == inbox[i][2] IN of[t] = inbox[i][1] /\ job[t] = "over"
  /\ \A c \in Existing : Within(doc[c], c)

(* The history of the page is of the open chat, save for the first prompt  *)
(* of a new one, and until a chat that was opened is shown.                *)
PageOK ==
  /\ owner[page] # Null => Within(hist[page], owner[page])
  /\ owner[page] = Null =>
       \A t \in Turn : hist[page][t] # "none" => \E s \in sends : s.step = "create" /\ s.turn = t
  /\ loads = {} => owner[page] = open
  /\ loads # {} => loading[page]
  /\ prop # Null => open = prop
  /\ \A g \in Page : g > page => owner[g] = Null

(* A load, a prompt that is being sent and an answer that is being         *)
(* completed are of the component shown and of the open chat.              *)
WaitsOK ==
  /\ \A l \in loads :
       /\ loads = {l} /\ sends = {} /\ l.page = page /\ l.chat = open
       /\ owner[page] = open <=> l.step = "shown"
       /\ l.step = "read" => Within(l.got, l.chat)
  /\ \A s \in sends :
       /\ sends = {s} /\ s.page = page /\ s.chat = of[s.turn] /\ s.chat # Null
       /\ hist[page][s.turn] = "asked" /\ job[s.turn] = "none"
       /\ s.step = "create" => owner[page] = Null /\ s.chat \notin Existing /\ completing = {}
       /\ s.step # "create" => s.chat = open
       /\ s.step = "put" => Within(s.body, s.chat)
  /\ \A f \in completing :
       /\ f.page = page /\ f.chat = open /\ f.chat = owner[page] /\ f.chat # Null
       /\ f.step = "put" => Within(f.body, f.chat)

SteadyOK == TurnsOK /\ PageOK /\ WaitsOK
Steady == "moved" \notin risks => SteadyOK

(* While also no save crosses another or an answer: what is being saved is *)
(* what the page shows, and its other turns are settled.                   *)
Sending(t) == \E s \in sends : s.turn = t
Fits(h) == \A t \in Turn :
  /\ h[t] # "orphan"
  /\ h[t] = "answered" => job[t] = "over"
  /\ h[t] = "cut" => job[t] = "none" /\ ~Sending(t)
Full(h, c) == \A t \in Turn : of[t] = c => h[t] # "none"
Saving(w) == w.step = "put" => w.body = Saved(hist[page]) /\ ~Early(hist[page], w.turn)

HistKept ==
  /\ Fits(hist[page])
  /\ owner[page] # Null => Full(hist[page], owner[page])
LoadsKept ==
  \A l \in loads : l.step = "read" => Fits(l.got) /\ Full(l.got, l.chat) /\ Saved(l.got) = l.got
SavesKept ==
  /\ \A s \in sends : Saving(s)
  /\ \A f \in completing : Saving(f) /\ hist[page][f.turn] = "answered"
DocKept(c) ==
  /\ Fits(doc[c]) /\ Saved(doc[c]) = doc[c]
  /\ \A t \in Turn : of[t] = c =>
       /\ doc[c][t] = "none" => \E s \in sends : s.step = "put" /\ s.turn = t
       /\ job[t] = "over" => doc[c][t] = "answered"
KeptOK == HistKept /\ LoadsKept /\ SavesKept /\ \A c \in Existing : DocKept(c)

Calm == risks \cap {"moved", "early", "crossed"} = {}
Kept == Calm => KeptOK

(* While in addition no event is missed: where the page does not show what *)
(* the document has, the event is on its way or the prompt was not sent.   *)
Coming(t) == <<of[t], t>> \in ToSet(inbox)
Current ==
  /\ owner[page] = open /\ open # Null => \A t \in Turn :
       LET h == hist[page][t] IN
         /\ doc[open][t] = "answered" => h = "answered" \/ (h \in {"asked", "blank"} /\ Coming(t))
         /\ doc[open][t] = "asked" => h \in {"asked", "blank", "cut"}
         /\ doc[open][t] = "cut" => h = "cut"
  /\ \A l \in loads : l.step = "read" => \A t \in Turn :
       \/ l.got[t] = doc[l.chat][t]
       \/ l.got[t] = "asked" /\ doc[l.chat][t] = "answered" /\ Coming(t)

PageInv == Typed /\ Steady /\ Kept /\ (risks = {} => Current)

CONSTANTS Prompt, Reply
VARIABLES parent, written, last, torn

Tree == INSTANCE MessageTree WITH Question <- Prompt, Answer <- Reply, open <- written, shown <- last

-----------------------------------------------------------------------------
(* The messages of one chat.                                               *)

Sound == Tree!TreeTypeOK /\ Tree!Rooted /\ Tree!Grounded /\ Tree!Shown /\ Tree!OpenAnswers

\* What a step keeps of the shape of the tree; that a removal does needs Grounded: were the message above
\* the one removed also below it, its children would hang below a message that is gone.
LEMMA SoundStep ==
  ASSUME Tree!TreeAssumption, Sound, [Tree!Next]_(Tree!tree)
  PROVE  (Tree!TreeTypeOK /\ Tree!Rooted /\ Tree!Shown /\ Tree!OpenAnswers)'
<1> USE DEF Tree!TreeAssumption, Sound, Tree!Id, Tree!Msgs
<1>1. CASE Tree!Grow
  <2> DEFINE new == DOMAIN parent' \ Tree!Msgs
  <2>1. /\ new \subseteq Tree!Id /\ new # {} /\ UNCHANGED torn
        /\ parent' = [x \in new \cup Tree!Msgs |-> IF x \in Tree!Msgs THEN parent[x] ELSE parent'[x]]
        /\ \A x \in new \cap Prompt : parent'[x] \in (Tree!Msgs \cap Reply) \cup {Null}
        /\ \A x \in new \cap Reply : parent'[x] \in (new \cup Tree!Msgs) \cap Prompt
        /\ written \subseteq written' /\ written' \subseteq written \cup (new \cap Reply)
        /\ last' \in new
    BY <1>1 DEF Tree!Grow
  <2>2. Tree!Msgs' = new \cup Tree!Msgs
    BY <2>1
  <2>3. \A x \in Tree!Msgs : parent'[x] = parent[x]
    BY <2>1, <2>2
  <2>4. \A x \in Tree!Msgs' : parent'[x] \in Tree!Id \cup {Null}
    BY <2>1, <2>2, <2>3 DEF Tree!TreeTypeOK
  <2>5. parent' \in [Tree!Msgs' -> Tree!Id \cup {Null}]
    BY <2>1, <2>2, <2>4
  <2>6. Tree!Rooted'
    BY <2>1, <2>2, <2>3 DEF Tree!Rooted, Tree!TreeTypeOK
  <2> QED
    BY <2>1, <2>2, <2>5, <2>6 DEF Tree!TreeTypeOK, Tree!Shown, Tree!OpenAnswers
<1>2. CASE Tree!Settle
  BY <1>2 DEF Tree!Settle, Tree!TreeTypeOK, Tree!Rooted, Tree!Shown, Tree!OpenAnswers
<1>3. CASE Tree!Reopen
  BY <1>3 DEF Tree!Reopen, Tree!TreeTypeOK, Tree!Rooted, Tree!Shown, Tree!OpenAnswers
<1>4. CASE Tree!Show
  BY <1>4 DEF Tree!Show, Tree!TreeTypeOK, Tree!Rooted, Tree!Shown, Tree!OpenAnswers
<1>5. CASE Tree!Remove
  <2>1. PICK x \in Tree!Msgs :
          /\ parent' = [y \in Tree!Msgs \ ({x} \cup Tree!Below(x)) |->
                          IF parent[y] \in Tree!Below(x) THEN parent[x] ELSE parent[y]]
          /\ written' = written \ ({x} \cup Tree!Below(x))
          /\ IF Tree!Msgs = {x} \cup Tree!Below(x) THEN last' = Null
             ELSE last' \in Tree!Msgs \ ({x} \cup Tree!Below(x))
          /\ UNCHANGED torn
    BY <1>5 DEF Tree!Remove
  <2>2. Tree!Msgs' = Tree!Msgs \ ({x} \cup Tree!Below(x))
    BY <2>1
  <2>3. Tree!Below(x) \subseteq Tree!Msgs /\ \A y \in Tree!Below(x) : parent[y] = x
    BY DEF Tree!Below
  <2>4. \A y \in Tree!Msgs' : parent'[y] \in Tree!Id \cup {Null}
    BY <2>1, <2>2 DEF Tree!TreeTypeOK
  <2>5. parent' \in [Tree!Msgs' -> Tree!Id \cup {Null}]
    BY <2>1, <2>2, <2>4
  <2>6. ASSUME NEW y \in Tree!Msgs', parent'[y] # Null
        PROVE  parent'[y] \in Tree!Msgs' /\ (y \in Prompt <=> parent'[y] \in Reply)
    <3>1. CASE parent[y] \in Tree!Below(x)
      <4>1. parent'[y] = parent[x] /\ parent[parent[y]] = x /\ x # Null
        BY <2>1, <2>2, <2>3, <3>1 DEF Tree!TreeTypeOK
      <4>2. parent[x] \in Tree!Msgs /\ (x \in Prompt <=> parent[x] \in Reply)
        BY <2>6, <4>1 DEF Tree!Rooted
      <4>3. (y \in Prompt <=> parent[y] \in Reply) /\ (parent[y] \in Prompt <=> x \in Reply)
        <5>1. y \in Tree!Msgs /\ parent[y] \in Tree!Msgs /\ parent[y] # Null
          BY <2>2, <2>3, <3>1 DEF Tree!TreeTypeOK
        <5>2. y \in Prompt <=> parent[y] \in Reply
          BY <5>1 DEF Tree!Rooted
        <5>3. parent[y] \in Prompt <=> parent[parent[y]] \in Reply
          BY <5>1, <4>1 DEF Tree!Rooted
        <5> QED
          BY <5>2, <5>3, <4>1
      <4>4. parent[x] # x
        BY <4>2 DEF Tree!TreeTypeOK
      <4>5. parent[x] \notin Tree!Below(x)
        <5>1. SUFFICES ASSUME parent[parent[x]] = x PROVE FALSE
          BY <2>3
        <5>2. {x, parent[x]} \in SUBSET Tree!Msgs /\ {x, parent[x]} # {}
          BY <4>2
        <5>3. \E y1 \in {x, parent[x]} : parent[y1] \notin {x, parent[x]}
          BY <5>2 DEF Tree!Grounded
        <5> QED
          BY <5>1, <5>3
      <4>6. parent[x] \in Tree!Msgs'
        BY <2>2, <4>2, <4>4, <4>5
      <4>7. x \in Tree!Id /\ parent[y] \in Tree!Id
        BY <2>3, <3>1 DEF Tree!TreeTypeOK
      <4>8. y \in Prompt <=> x \in Prompt
        BY <4>3, <4>7
      <4> QED
        BY <4>1, <4>2, <4>6, <4>8
    <3>2. CASE parent[y] \notin Tree!Below(x)
      <4>1. parent'[y] = parent[y] /\ parent[y] # x
        BY <2>1, <2>2, <3>2 DEF Tree!Below
      <4> QED
        BY <2>2, <2>6, <3>2, <4>1 DEF Tree!Rooted
    <3> QED
      BY <3>1, <3>2
  <2>7. Tree!Rooted'
    BY <2>6 DEF Tree!Rooted
  <2> QED
    BY <2>1, <2>2, <2>3, <2>5, <2>7 DEF Tree!TreeTypeOK, Tree!Shown, Tree!OpenAnswers
<1>6. CASE Tree!Tear
  BY <1>6 DEF Tree!Tear, Tree!Blank, Tree!TreeTypeOK, Tree!Rooted, Tree!Shown, Tree!OpenAnswers
<1>7. CASE UNCHANGED Tree!tree
  BY <1>7 DEF Tree!tree, Tree!TreeTypeOK, Tree!Rooted, Tree!Shown, Tree!OpenAnswers
<1> QED
  BY <1>1, <1>2, <1>3, <1>4, <1>5, <1>6, <1>7 DEF Tree!Next

\* A set closed upwards after a step would have been, together with what the step removed from between its
\* messages, closed upwards before.
LEMMA GroundedStep ==
  ASSUME Tree!TreeAssumption, Sound, [Tree!Next]_(Tree!tree)
  PROVE  Tree!Grounded'
<1> USE DEF Tree!TreeAssumption, Tree!Id, Tree!Msgs
<1> SUFFICES ASSUME NEW S \in SUBSET Tree!Msgs', S # {}
             PROVE  \E x \in S : parent'[x] \notin S
  BY DEF Tree!Grounded
<1>1. CASE Tree!Grow
  <2> DEFINE new == DOMAIN parent' \ Tree!Msgs
  <2>1. /\ new \subseteq Tree!Id
        /\ parent' = [x \in new \cup Tree!Msgs |-> IF x \in Tree!Msgs THEN parent[x] ELSE parent'[x]]
        /\ \A x \in new \cap Prompt : parent'[x] \in (Tree!Msgs \cap Reply) \cup {Null}
        /\ \A x \in new \cap Reply : parent'[x] \in (new \cup Tree!Msgs) \cap Prompt
    BY <1>1 DEF Tree!Grow
  <2>2. Tree!Msgs' = new \cup Tree!Msgs /\ \A x \in Tree!Msgs : parent'[x] = parent[x]
    BY <2>1
  <2>3. CASE S \cap Tree!Msgs # {}
    <3>1. PICK x \in S \cap Tree!Msgs : parent[x] \notin S \cap Tree!Msgs
      BY <2>3 DEF Sound, Tree!Grounded
    <3>2. parent[x] \in Tree!Msgs \/ parent[x] = Null
      BY <3>1 DEF Sound, Tree!Rooted
    <3>3. Null \notin S
      BY <2>2, <2>1 DEF Sound, Tree!TreeTypeOK
    <3> QED
      BY <2>2, <3>1, <3>2, <3>3
  <2>4. CASE S \cap Tree!Msgs = {}
    <3>1. S \subseteq new
      BY <2>2, <2>4
    <3>2. CASE S \cap Prompt # {}
      <4>1. PICK x \in S : x \in Prompt
        BY <3>2
      <4>2. parent'[x] \in Tree!Msgs \cup {Null}
        BY <2>1, <3>1, <4>1
      <4>3. Null \notin S
        BY <2>1, <3>1
      <4> QED
        BY <2>4, <4>2, <4>3
    <3>3. CASE S \cap Prompt = {}
      <4>1. PICK x \in S : TRUE
        OBVIOUS
      <4>2. x \in new \cap Reply
        BY <2>1, <3>1, <3>3
      <4>3. parent'[x] \in Prompt
        BY <2>1, <4>2
      <4> QED
        BY <3>3, <4>3
    <3> QED
      BY <3>2, <3>3
  <2> QED
    BY <2>3, <2>4
<1>2. CASE UNCHANGED parent
  BY <1>2 DEF Sound, Tree!Grounded
<1>3. CASE Tree!Remove
  <2>1. PICK x \in Tree!Msgs :
          parent' = [y \in Tree!Msgs \ ({x} \cup Tree!Below(x)) |->
                       IF parent[y] \in Tree!Below(x) THEN parent[x] ELSE parent[y]]
    BY <1>3 DEF Tree!Remove
  <2>2. /\ Tree!Msgs' = Tree!Msgs \ ({x} \cup Tree!Below(x))
        /\ \A y \in Tree!Msgs' : parent'[y] = IF parent[y] \in Tree!Below(x) THEN parent[x] ELSE parent[y]
    BY <2>1
  <2> DEFINE Between == {parent[y] : y \in S} \cap Tree!Below(x)
             T == S \cup Between \cup (IF Between = {} THEN {} ELSE {x})
  <2>3. Between \subseteq Tree!Msgs /\ \A z \in Between : parent[z] = x
    BY DEF Tree!Below
  <2>4. T \in SUBSET Tree!Msgs /\ T # {}
    BY <2>2, <2>3
  <2>5. PICK t \in T : parent[t] \notin T
    BY <2>4 DEF Sound, Tree!Grounded
  <2>6. t \notin Between
    BY <2>3, <2>5
  <2>7. CASE t \in S
    <3>1. parent[t] \notin Tree!Below(x)
      BY <2>5, <2>7
    <3>2. parent'[t] = parent[t]
      BY <2>2, <2>7, <3>1
    <3> QED
      BY <2>5, <2>7, <3>2
  <2>8. CASE t \notin S
    <3>1. t = x /\ Between # {}
      BY <2>5, <2>6, <2>8
    <3>2. PICK y \in S : parent[y] \in Tree!Below(x)
      BY <3>1
    <3>3. parent'[y] = parent[x]
      BY <2>2, <3>2
    <3> QED
      BY <2>5, <3>1, <3>3
  <2> QED
    BY <2>7, <2>8
<1>4. CASE Tree!Tear
  BY <1>4 DEF Tree!Tear, Tree!Blank
<1> QED
  BY <1>1, <1>2, <1>3, <1>4 DEF Tree!Next, Tree!Settle, Tree!Reopen, Tree!Show, Tree!tree

\* Whatever happens to a chat, its messages alternate between questions and answers up to a first question,
\* a message is shown as long as there is one, and the answers being written are among them; until the tree
\* is torn.
THEOREM TreeSound ==
  ASSUME Tree!TreeAssumption
  PROVE  Tree!Spec => []Sound
<1>1. Tree!Init => Sound
  BY DEF Tree!Init, Sound, Tree!TreeTypeOK, Tree!Rooted, Tree!Grounded, Tree!Shown, Tree!OpenAnswers,
         Tree!Msgs, Tree!Id
<1>2. Sound /\ [Tree!Next]_(Tree!tree) => Sound'
  BY SoundStep, GroundedStep DEF Sound
<1> QED
  BY <1>1, <1>2, PTL DEF Tree!Spec

-----------------------------------------------------------------------------
(* Going from chat to chat.                                                *)
USE PageAssumption

(* Histories.                                                              *)
LEMMA Histories ==
  /\ Empty \in History /\ \A t \in Turn : Empty[t] = "none"
  /\ \A h \in History : Saved(h) \in History /\ h # Null
  /\ \A h \in History, t \in Turn : h[t] \in State
  /\ \A h \in History, t \in Turn, x \in State :
       /\ [h EXCEPT ![t] = x] \in History /\ [h EXCEPT ![t] = x][t] = x
       /\ \A u \in Turn \ {t} : [h EXCEPT ![t] = x][u] = h[u]
  /\ \A h \in History : h = Empty <=> \A t \in Turn : h[t] = "none"
<1>1. Empty \in History /\ \A t \in Turn : Empty[t] = "none"
  BY DEF Empty, History, State
<1>2. \A h \in History : Saved(h) \in History /\ h # Null
  BY DEF Saved, History, State
<1>3. \A h \in History, t \in Turn : h[t] \in State
  BY DEF History
<1>4. ASSUME NEW h \in History, NEW t \in Turn, NEW x \in State
      PROVE  /\ [h EXCEPT ![t] = x] \in History /\ [h EXCEPT ![t] = x][t] = x
             /\ \A u \in Turn \ {t} : [h EXCEPT ![t] = x][u] = h[u]
  BY DEF History
<1>5. ASSUME NEW h \in History, \A t \in Turn : h[t] = "none"
      PROVE  h = Empty
  BY <1>5 DEF History, Empty
<1>6. QED  BY <1>1, <1>2, <1>3, <1>4, <1>5

(* Saving changes but what a load took for complete.                       *)
LEMMA SavedTurns ==
  ASSUME NEW h \in History
  PROVE  /\ \A t \in Turn : Saved(h)[t] = IF h[t] = "blank" THEN "asked" ELSE h[t]
         /\ Saved(h) = Empty <=> h = Empty
<1>1. \A t \in Turn : Saved(h)[t] = IF h[t] = "blank" THEN "asked" ELSE h[t]
  BY DEF Saved
<1>2. QED  BY <1>1, Histories

(* Turns are numbered from one on.                                         *)
LEMMA AskedType ==
  /\ Asked \in Nat
  /\ Asked < MaxTurns => Asked + 1 \in Turn
<1>1. IsFiniteSet({t \in Turn : of[t] # Null})
  <2>1. IsFiniteSet(Turn)
    BY FS_Interval DEF Turn
  <2>2. QED  BY <2>1, FS_Subset
<1>2. Asked \in Nat
  BY <1>1, FS_CardinalityType DEF Asked
<1>3. QED  BY <1>2 DEF Turn

-----------------------------------------------------------------------------
(* Types.                                                                  *)

(* navigateHandler                                                         *)
LEMMA NavigateTyped ==
  ASSUME Typed, NEW c \in Chat, Navigate(c)
  PROVE  Typed'
<1> DEFINE g == IF prop = Null THEN page + 1 ELSE page
           l == [page |-> g, chat |-> c, step |-> "get", got |-> Empty]
<1>1. /\ c \in Existing /\ g \in Page
      /\ page' = g /\ prop' = c /\ open' = c /\ loads' = loads \cup {l}
      /\ hist' = IF g = page THEN hist ELSE [hist EXCEPT ![g] = Empty]
      /\ loading' = [loading EXCEPT ![g] = TRUE]
      /\ moves < MaxMoves /\ moves' = moves + 1
      /\ risks' = IF Waiting THEN risks \cup {"moved"} ELSE risks
      /\ UNCHANGED <<doc, job, named, of, inbox, owner, sends, completing>>
  BY DEF Navigate, Shows, Move, server
<1>2. l \in [page : Page, chat : Existing, step : {"get", "read", "shown"}, got : History]
  BY <1>1, Histories
<1> HIDE DEF g, l
<1>3. Existing' = Existing
  BY <1>1 DEF Existing
<1>4. TypeOK'
  BY <1>1, Histories DEF Typed, TypeOK, Existing
<1>5. HandlersOK'
  BY <1>1, <1>2, <1>3 DEF Typed, HandlersOK
<1>6. QED  BY <1>4, <1>5 DEF Typed

(* initNewChat                                                             *)
LEMMA NewChatTyped ==
  ASSUME Typed, NewChat
  PROVE  Typed'
<1> DEFINE g == IF prop = Null THEN page ELSE page + 1
<1>1. /\ g \in Page
      /\ page' = g /\ prop' = Null /\ open' = Null
      /\ hist' = [hist EXCEPT ![g] = Empty]
      /\ owner' = [owner EXCEPT ![g] = Null]
      /\ loading' = [loading EXCEPT ![g] = FALSE]
      /\ moves < MaxMoves /\ moves' = moves + 1
      /\ risks' = IF Waiting THEN risks \cup {"moved"} ELSE risks
      /\ UNCHANGED <<doc, job, named, of, inbox, loads, sends, completing>>
  BY DEF NewChat, Move, server, handlers
<1> HIDE DEF g
<1>2. Existing' = Existing
  BY <1>1 DEF Existing
<1>3. TypeOK'
  BY <1>1, Histories DEF Typed, TypeOK
<1>4. HandlersOK'
  BY <1>1, <1>2 DEF Typed, HandlersOK
<1>5. QED  BY <1>3, <1>4 DEF Typed

(* loadChat, whatever it waits for                                         *)
LEMMA LoadTyped ==
  ASSUME Typed, NEW l \in loads, LoadRead(l) \/ LoadShow(l) \/ LoadEnds(l)
  PROVE  Typed'
<1>1. /\ l \in [page : Page, chat : Existing, step : {"get", "read", "shown"}, got : History]
      /\ l.page \in Page /\ l.chat \in Existing /\ l.got \in History /\ doc[l.chat] \in History
  BY DEF Typed, TypeOK, HandlersOK, Existing
<1>2. CASE LoadRead(l)
  <2>1. /\ loads' = (loads \ {l}) \cup {[l EXCEPT !.step = "read", !.got = doc[l.chat]]}
        /\ UNCHANGED <<doc, job, named, of, inbox, open, prop, page, hist, owner, loading>>
        /\ UNCHANGED <<sends, completing, moves, risks>>
    BY <1>2 DEF LoadRead, Goes, server, shown, here
  <2>2. Existing' = Existing
    BY <2>1 DEF Existing
  <2>3. [l EXCEPT !.step = "read", !.got = doc[l.chat]] \in
          [page : Page, chat : Existing, step : {"get", "read", "shown"}, got : History]
    BY <1>1
  <2>4. TypeOK'
    BY <2>1 DEF Typed, TypeOK
  <2>5. HandlersOK'
    BY <2>1, <2>2, <2>3 DEF Typed, HandlersOK
  <2>6. QED  BY <2>4, <2>5 DEF Typed
<1>3. CASE LoadShow(l)
  <2>1. /\ loads' = (loads \ {l}) \cup {[l EXCEPT !.step = "shown", !.got = Empty]}
        /\ hist' = [hist EXCEPT ![l.page] = l.got]
        /\ owner' = [owner EXCEPT ![l.page] = l.chat]
        /\ UNCHANGED <<doc, job, named, of, inbox, open, prop, page, loading>>
        /\ UNCHANGED <<sends, completing, moves, risks>>
    BY <1>3 DEF LoadShow, Goes, server, shown
  <2>2. Existing' = Existing
    BY <2>1 DEF Existing
  <2>3. [l EXCEPT !.step = "shown", !.got = Empty] \in
          [page : Page, chat : Existing, step : {"get", "read", "shown"}, got : History]
    BY <1>1, Histories
  <2>4. TypeOK'
    BY <1>1, <2>1 DEF Typed, TypeOK, Existing
  <2>5. HandlersOK'
    BY <2>1, <2>2, <2>3 DEF Typed, HandlersOK
  <2>6. QED  BY <2>4, <2>5 DEF Typed
<1>4. CASE LoadEnds(l)
  <2> DEFINE h == [t \in Turn |-> IF hist[l.page][t] = "asked" THEN "blank" ELSE hist[l.page][t]]
  <2>1. /\ loads' = loads \ {l}
        /\ hist' = [hist EXCEPT ![l.page] = h]
        /\ loading' = [loading EXCEPT ![l.page] = FALSE]
        /\ UNCHANGED <<doc, job, named, of, inbox, open, prop, page, owner>>
        /\ UNCHANGED <<sends, completing, moves, risks>>
    BY <1>4 DEF LoadEnds, server, shown
  <2>2. Existing' = Existing
    BY <2>1 DEF Existing
  <2>3. h \in History
    BY <1>1 DEF Typed, TypeOK, History, State
  <2> HIDE DEF h
  <2>4. TypeOK'
    BY <1>1, <2>1, <2>3 DEF Typed, TypeOK
  <2>5. HandlersOK'
    BY <2>1, <2>2 DEF Typed, HandlersOK
  <2>6. QED  BY <2>4, <2>5 DEF Typed
<1>5. QED  BY <1>2, <1>3, <1>4

(* A send that saveChatHandler leaves.                                     *)
LEMMA SaveTyped ==
  ASSUME Typed, NEW t \in Turn, NEW g \in Page, NEW c \in Existing \cup {Null},
         NEW h \in History, NEW others \in SUBSET sends, Save(t, g, c, h, others), Existing' = Existing,
         open' \in Existing \cup {Null}
  PROVE  /\ sends' \subseteq
              [page : Page, turn : Turn, chat : Chat \cup {Null},
               step : {"create", "list", "put", "post"}, body : History]
         /\ \A s \in sends' :
             IF s.step = "create" THEN s.chat \in Chat ELSE s.chat \in Existing \cup {Null}
         /\ risks' \subseteq {"moved", "early", "crossed", "missed"}
<1> DEFINE put == [page |-> g, turn |-> t, chat |-> c, step |-> "put", body |-> Saved(h)]
           post == [page |-> g, turn |-> t, chat |-> open', step |-> "post", body |-> Empty]
<1>1. \/ /\ open' = c /\ sends' = others \cup {put}
         /\ risks' = risks \cup Risk(Early(h, t), Crossing(c))
      \/ sends' = others \cup {post} /\ risks' = risks
  BY DEF Save
<1>2. /\ put \in [page : Page, turn : Turn, chat : Chat \cup {Null},
                  step : {"create", "list", "put", "post"}, body : History]
      /\ put.step # "create" /\ put.chat = c
  BY Histories DEF Existing
<1>3. /\ post \in [page : Page, turn : Turn, chat : Chat \cup {Null},
                   step : {"create", "list", "put", "post"}, body : History]
      /\ post.step # "create" /\ post.chat = open'
  BY Histories DEF Existing
<1>4. risks' \subseteq {"moved", "early", "crossed", "missed"}
  <2>1. \A a, b : Risk(a, b) \subseteq {"early", "crossed"}
    BY DEF Risk
  <2>2. risks \subseteq {"moved", "early", "crossed", "missed"}
    BY DEF Typed, TypeOK
  <2>3. QED  BY <1>1, <2>1, <2>2
<1> HIDE DEF put, post
<1>5. QED  BY <1>1, <1>2, <1>3, <1>4 DEF Typed, HandlersOK

(* submitPrompt                                                            *)
LEMMA SubmitTyped ==
  ASSUME Typed, SubmitPrompt
  PROVE  Typed'
<1> DEFINE t == Asked + 1
           h == [hist[page] EXCEPT ![t] = "asked"]
<1>1. /\ t \in Turn /\ page \in Page /\ hist[page] \in History
      /\ hist' = [hist EXCEPT ![page] = h]
      /\ UNCHANGED <<doc, job, named, inbox, prop, page, owner, loading, loads, completing, moves>>
  <2>1. t \in Turn
    BY AskedType DEF SubmitPrompt
  <2>2. /\ hist' = [hist EXCEPT ![page] = h]
        /\ UNCHANGED <<doc, job, named, inbox, prop, page, owner, loading, loads, completing, moves>>
    BY DEF SubmitPrompt, server, shown
  <2>3. QED  BY <2>1, <2>2 DEF Typed, TypeOK
<1>2. h \in History
  BY <1>1, Histories DEF State
<1>3. Existing' = Existing
  BY <1>1 DEF Existing
<1>4. CASE hist[page] = Empty
  <2>1. PICK c \in Chat \ Existing :
          /\ of' = [of EXCEPT ![t] = c]
          /\ sends' = sends \cup
               {[page |-> page, turn |-> t, chat |-> c, step |-> "create", body |-> Empty]}
    BY <1>4 DEF SubmitPrompt
  <2>2. risks' = risks /\ open' = open
    BY <1>4 DEF SubmitPrompt, shown
  <2> DEFINE s == [page |-> page, turn |-> t, chat |-> c, step |-> "create", body |-> Empty]
  <2>3. /\ s \in [page : Page, turn : Turn, chat : Chat \cup {Null},
                  step : {"create", "list", "put", "post"}, body : History]
        /\ s.step = "create"
    BY <1>1, Histories
  <2> HIDE DEF s, h
  <2>4. TypeOK'
    BY <1>1, <1>2, <2>1, <2>2 DEF Typed, TypeOK
  <2>5. HandlersOK'
    BY <1>1, <1>3, <2>1, <2>2, <2>3 DEF Typed, HandlersOK, s
  <2>6. QED  BY <2>4, <2>5 DEF Typed
<1>5. CASE hist[page] # Empty
  <2>1. /\ of' = [of EXCEPT ![t] = owner[page]] /\ open' = open
        /\ Save(t, page, open, h, sends)
    BY <1>5 DEF SubmitPrompt
  <2>2. open \in Existing \cup {Null} /\ owner[page] \in Chat \cup {Null}
    BY <1>1 DEF Typed, HandlersOK, TypeOK
  <2> HIDE DEF h, t
  <2>3. /\ sends' \subseteq
             [page : Page, turn : Turn, chat : Chat \cup {Null},
              step : {"create", "list", "put", "post"}, body : History]
        /\ \A s \in sends' :
             IF s.step = "create" THEN s.chat \in Chat ELSE s.chat \in Existing \cup {Null}
        /\ risks' \subseteq {"moved", "early", "crossed", "missed"}
    BY <1>1, <1>2, <1>3, <2>1, <2>2, SaveTyped
  <2>4. TypeOK'
    BY <1>1, <1>2, <2>1, <2>2, <2>3 DEF Typed, TypeOK
  <2>5. HandlersOK'
    BY <1>1, <1>3, <2>1, <2>3 DEF Typed, HandlersOK
  <2>6. QED  BY <2>4, <2>5 DEF Typed
<1>6. QED  BY <1>4, <1>5

(* sendMessage, whatever it waits for                                      *)
LEMMA SendTyped ==
  ASSUME Typed, NEW s \in sends,
         Created(s) \/ Listed(s) \/ Put(s) \/ Accept(s) \/ PostFails(s)
  PROVE  Typed'
<1> DEFINE SendType == [page : Page, turn : Turn, chat : Chat \cup {Null},
                        step : {"create", "list", "put", "post"}, body : History]
<1>1. /\ s \in SendType
      /\ s.page \in Page /\ s.turn \in Turn /\ s.body \in History
      /\ IF s.step = "create" THEN s.chat \in Chat ELSE s.chat \in Existing \cup {Null}
  BY DEF Typed, HandlersOK
<1>2. CASE Created(s)
  <2> DEFINE h == [Empty EXCEPT ![s.turn] = "asked"]
             n == [s EXCEPT !.step = "list"]
  <2>1. /\ s.step = "create" /\ s.chat \in Chat
        /\ doc' = [doc EXCEPT ![s.chat] = h]
        /\ open' = s.chat
        /\ owner' = [owner EXCEPT ![s.page] = s.chat]
        /\ sends' = (sends \ {s}) \cup {n}
        /\ UNCHANGED <<of, job, named, inbox, prop, page, hist, loading, loads, completing, moves, risks>>
    BY <1>1, <1>2 DEF Created
  <2>2. h \in History /\ h # Null
    <3>1. Empty \in History /\ "asked" \in State /\ s.turn \in Turn
      BY <1>1, Histories DEF State
    <3>2. h \in History
      BY <3>1, Histories
    <3>3. QED  BY <3>2, Histories
  <2>3. n \in SendType /\ n.chat = s.chat /\ n.step = "list"
    BY <1>1
  <2> HIDE DEF h, n, SendType
  <2>4. Existing' = Existing \cup {s.chat}
    BY <2>1, <2>2 DEF Existing, Typed, TypeOK
  <2>5. TypeOK'
    BY <1>1, <2>1, <2>2 DEF Typed, TypeOK
  <2>6. HandlersOK'
    <3>1. sends' \subseteq SendType
      BY <2>1, <2>3 DEF Typed, HandlersOK, SendType
    <3>2. \A r \in sends' :
             IF r.step = "create" THEN r.chat \in Chat ELSE r.chat \in Existing' \cup {Null}
      BY <2>1, <2>3, <2>4 DEF Typed, HandlersOK
    <3>3. loads' \subseteq
            [page : Page, chat : Existing', step : {"get", "read", "shown"}, got : History]
      BY <2>1, <2>4 DEF Typed, HandlersOK
    <3>4. QED  BY <2>1, <2>4, <3>1, <3>2, <3>3 DEF Typed, HandlersOK, SendType
  <2>7. QED  BY <2>5, <2>6 DEF Typed
<1>3. CASE Listed(s)
  <2>1. /\ s.step = "list" /\ s.chat \in Existing \cup {Null} /\ open' = open
        /\ Save(s.turn, s.page, s.chat, hist[s.page], sends \ {s})
        /\ UNCHANGED <<doc, job, named, of, inbox, prop, page, hist, owner, loading, loads>>
        /\ UNCHANGED <<completing, moves>>
    BY <1>1, <1>3 DEF Listed, server, here
  <2>2. Existing' = Existing
    BY <2>1 DEF Existing
  <2>3. hist[s.page] \in History /\ open' \in Existing \cup {Null}
    BY <1>1, <2>1 DEF Typed, TypeOK, HandlersOK
  <2>4. /\ sends' \subseteq
             [page : Page, turn : Turn, chat : Chat \cup {Null},
              step : {"create", "list", "put", "post"}, body : History]
        /\ \A r \in sends' :
             IF r.step = "create" THEN r.chat \in Chat ELSE r.chat \in Existing \cup {Null}
        /\ risks' \subseteq {"moved", "early", "crossed", "missed"}
    BY <1>1, <2>1, <2>2, <2>3, SaveTyped
  <2>5. TypeOK'
    BY <2>1, <2>4 DEF Typed, TypeOK
  <2>6. HandlersOK'
    BY <2>1, <2>2, <2>4 DEF Typed, HandlersOK
  <2>7. QED  BY <2>5, <2>6 DEF Typed
<1>4. CASE Put(s)
  <2> DEFINE n == [s EXCEPT !.step = "post", !.chat = open, !.body = Empty]
  <2>1. /\ doc' = [doc EXCEPT ![s.chat] = s.body]
        /\ sends' = (sends \ {s}) \cup {n}
        /\ UNCHANGED <<of, job, named, inbox, open, prop, page, hist, owner, loading, loads>>
        /\ UNCHANGED <<completing, moves, risks>>
    BY <1>4 DEF Put, shown, here
  <2>2. open \in Chat \cup {Null} /\ open \in Existing \cup {Null}
    BY DEF Typed, TypeOK, HandlersOK
  <2>3. n \in SendType /\ n.chat = open /\ n.step = "post"
    BY <1>1, <2>2, Histories
  <2> HIDE DEF n, SendType
  <2>4. Existing \subseteq Existing'
    BY <1>1, <2>1, Histories DEF Existing, Typed, TypeOK
  <2>5. TypeOK'
    BY <1>1, <2>1 DEF Typed, TypeOK
  <2>6. HandlersOK'
    <3>1. sends' \subseteq SendType
      BY <2>1, <2>3 DEF Typed, HandlersOK, SendType
    <3>2. \A r \in sends' :
             IF r.step = "create" THEN r.chat \in Chat ELSE r.chat \in Existing' \cup {Null}
      BY <2>1, <2>2, <2>3, <2>4 DEF Typed, HandlersOK
    <3>3. loads' \subseteq
            [page : Page, chat : Existing', step : {"get", "read", "shown"}, got : History]
      BY <2>1, <2>4 DEF Typed, HandlersOK
    <3>4. QED  BY <2>1, <2>2, <2>4, <3>1, <3>2, <3>3 DEF Typed, HandlersOK, SendType
  <2>7. QED  BY <2>5, <2>6 DEF Typed
<1>5. CASE Accept(s)
  <2>1. /\ sends' = sends \ {s} /\ s.chat \in Existing \cup {Null}
        /\ job' = [job EXCEPT ![s.turn] = "running"]
        /\ named' = [named EXCEPT ![s.turn] = s.chat]
        /\ UNCHANGED <<doc, of, inbox, open, prop, page, hist, owner, loading, loads, completing>>
        /\ UNCHANGED <<moves, risks>>
    BY <1>1, <1>5 DEF Accept, shown, here
  <2>2. Existing' = Existing
    BY <2>1 DEF Existing
  <2>3. TypeOK'
    BY <1>1, <2>1 DEF Typed, TypeOK, Existing
  <2>4. HandlersOK'
    BY <1>1, <2>1, <2>2 DEF Typed, TypeOK, HandlersOK
  <2>5. QED  BY <2>3, <2>4 DEF Typed
<1>6. CASE PostFails(s)
  <2> DEFINE x == IF hist[s.page][s.turn] = "none" THEN "orphan" ELSE "cut"
             h == [hist[s.page] EXCEPT ![s.turn] = x]
  <2>1. /\ sends' = sends \ {s}
        /\ hist' = [hist EXCEPT ![s.page] = h]
        /\ UNCHANGED <<doc, job, named, of, inbox, open, prop, page, owner, loading, loads>>
        /\ UNCHANGED <<completing, moves, risks>>
    BY <1>6 DEF PostFails, server, shown
  <2>2. h \in History
    <3>1. hist[s.page] \in History /\ x \in State
      BY <1>1 DEF Typed, TypeOK, State
    <3> HIDE DEF x
    <3>2. QED  BY <1>1, <3>1, Histories
  <2> HIDE DEF h
  <2>3. Existing' = Existing
    BY <2>1 DEF Existing
  <2>4. TypeOK'
    BY <1>1, <2>1, <2>2 DEF Typed, TypeOK
  <2>5. HandlersOK'
    BY <2>1, <2>3 DEF Typed, HandlersOK
  <2>6. QED  BY <2>4, <2>5 DEF Typed
<1>7. QED  BY <1>2, <1>3, <1>4, <1>5, <1>6

(* An event leaves the queue.                                              *)
LEMMA TakeEvent ==
  ASSUME Typed, inbox # <<>>
  PROVE  /\ Head(inbox)[1] \in Chat \cup {Null} /\ Head(inbox)[2] \in Turn
         /\ Tail(inbox) \in Seq((Chat \cup {Null}) \X Turn)
<1>1. inbox \in Seq((Chat \cup {Null}) \X Turn)
  BY DEF Typed, TypeOK
<1>2. /\ Head(inbox) \in (Chat \cup {Null}) \X Turn
      /\ Tail(inbox) \in Seq((Chat \cup {Null}) \X Turn)
  BY <1>1
<1>3. QED  BY <1>2

(* The server stores an answer; its chat exists.                           *)
LEMMA AnswerTyped ==
  ASSUME Typed, NEW t \in Turn, AnswerSaved(t)
  PROVE  Typed'
<1> DEFINE c == named[t]
           x == IF doc[c][t] \in {"none", "orphan"} THEN "orphan" ELSE "answered"
           h == [doc[c] EXCEPT ![t] = x]
<1>1. /\ job' = [job EXCEPT ![t] = "over"]
      /\ doc' = IF c = Null THEN doc ELSE [doc EXCEPT ![c] = h]
      /\ inbox' = Append(inbox, <<c, t>>)
      /\ UNCHANGED <<named, of, open, prop, page, hist, owner, loading, loads, sends, completing>>
      /\ UNCHANGED <<moves, risks>>
  BY DEF AnswerSaved, shown, here, handlers
<1>2. c \in Existing \cup {Null} /\ c \in Chat \cup {Null}
  BY DEF Typed, HandlersOK, Existing
<1>3. ASSUME c # Null
      PROVE  c \in Chat /\ h \in History /\ h # Null
  <2>1. doc[c] \in History /\ c \in Chat
    BY <1>2, <1>3 DEF Typed, TypeOK, Existing
  <2>2. x \in State
    BY DEF State
  <2> HIDE DEF x
  <2>3. h \in History
    BY <2>1, <2>2, Histories
  <2>4. QED  BY <2>1, <2>3, Histories
<1>4. inbox' \in Seq((Chat \cup {Null}) \X Turn)
  <2>1. <<c, t>> \in (Chat \cup {Null}) \X Turn
    BY <1>2
  <2>2. inbox \in Seq((Chat \cup {Null}) \X Turn)
    BY DEF Typed, TypeOK
  <2>3. QED  BY <1>1, <2>1, <2>2
<1> HIDE DEF h, c
<1>5. Existing' = Existing
  BY <1>1, <1>2, <1>3 DEF Existing, Typed, TypeOK
<1>6. TypeOK'
  BY <1>1, <1>3, <1>4 DEF Typed, TypeOK
<1>7. HandlersOK'
  BY <1>1, <1>5 DEF Typed, HandlersOK
<1>8. QED  BY <1>6, <1>7 DEF Typed

(* chatEventHandler                                                        *)
LEMMA EventTyped ==
  ASSUME Typed, Event
  PROVE  Typed'
<1> DEFINE c == Head(inbox)[1]
           t == Head(inbox)[2]
           f == [page |-> page, turn |-> t, chat |-> c, step |-> "post", chain |-> Chain(t), body |-> Empty]
           h == [hist[page] EXCEPT ![t] = "answered"]
<1>1. /\ inbox # <<>> /\ inbox' = Tail(inbox)
      /\ \/ hist' = [hist EXCEPT ![page] = h] /\ completing' = completing \cup {f}
         \/ hist' = hist /\ completing' = completing
      /\ risks' \in {risks, risks \cup {"missed"}}
      /\ UNCHANGED <<doc, job, named, of, open, prop, page, owner, loading, loads, sends, moves>>
  BY DEF Event, server, shown
<1>2. c \in Chat \cup {Null} /\ t \in Turn /\ inbox' \in Seq((Chat \cup {Null}) \X Turn)
  BY <1>1, TakeEvent
<1>3. page \in Page /\ hist[page] \in History /\ "answered" \in State
  BY DEF Typed, TypeOK, State
<1>4. h \in History
  BY <1>2, <1>3, Histories
<1>5. f \in [page : Page, turn : Turn, chat : Chat \cup {Null}, step : {"post", "put"},
             chain : SUBSET Turn, body : History]
  <2>1. Chain(t) \subseteq Turn
    BY <1>2 DEF Chain, Turn
  <2>2. QED  BY <1>2, <1>3, <2>1, Histories
<1> HIDE DEF c, t, f, h
<1>6. Existing' = Existing
  BY <1>1 DEF Existing
<1>7. TypeOK'
  BY <1>1, <1>2, <1>3, <1>4 DEF Typed, TypeOK
<1>8. HandlersOK'
  BY <1>1, <1>5, <1>6 DEF Typed, HandlersOK
<1>9. QED  BY <1>7, <1>8 DEF Typed

(* chatCompletedHandler, before and after its request                      *)
LEMMA CompletedTyped ==
  ASSUME Typed, NEW f \in completing, CompletedSaved(f) \/ \E ok \in BOOLEAN : Completed(f, ok)
  PROVE  Typed'
<1> DEFINE DoneType == [page : Page, turn : Turn, chat : Chat \cup {Null}, step : {"post", "put"},
                        chain : SUBSET Turn, body : History]
<1>1. f \in DoneType /\ f.page \in Page /\ f.turn \in Turn /\ f.body \in History
  BY DEF Typed, HandlersOK
<1>2. ASSUME NEW ok \in BOOLEAN, Completed(f, ok)
      PROVE  Typed'
  <2> DEFINE n == [f EXCEPT !.step = "put", !.body = Saved(hist[f.page])]
  <2>1. /\ completing' \in {completing \ {f}, (completing \ {f}) \cup {n}}
        /\ UNCHANGED <<doc, job, named, of, inbox, open, prop, page, hist, owner, loading, loads>>
        /\ UNCHANGED <<sends, moves>>
    BY <1>2 DEF Completed, server, shown, here
  <2>2. risks' \subseteq {"moved", "early", "crossed", "missed"}
    <3>1. \A a, b : Risk(a, b) \subseteq {"early", "crossed"}
      BY DEF Risk
    <3>2. risks' = risks \/ \E a, b : risks' = risks \cup Risk(a, b)
      BY <1>2 DEF Completed
    <3>3. QED  BY <3>1, <3>2 DEF Typed, TypeOK
  <2>3. n \in DoneType
    <3>1. hist[f.page] \in History
      BY <1>1 DEF Typed, TypeOK
    <3>2. Saved(hist[f.page]) \in History
      BY <3>1, Histories
    <3>3. QED  BY <1>1, <3>2
  <2> HIDE DEF n, DoneType
  <2>4. Existing' = Existing
    BY <2>1 DEF Existing
  <2>5. TypeOK'
    BY <2>1, <2>2 DEF Typed, TypeOK
  <2>6. completing' \subseteq DoneType
    BY <2>1, <2>3 DEF Typed, HandlersOK, DoneType
  <2>7. HandlersOK'
    BY <2>1, <2>4, <2>6 DEF Typed, HandlersOK, DoneType
  <2>8. QED  BY <2>5, <2>7 DEF Typed
<1>3. CASE CompletedSaved(f)
  <2>1. /\ doc' = [doc EXCEPT ![f.chat] = f.body]
        /\ completing' = completing \ {f}
        /\ UNCHANGED <<job, named, of, inbox, open, prop, page, hist, owner, loading, loads>>
        /\ UNCHANGED <<sends, moves, risks>>
    BY <1>3 DEF CompletedSaved, shown, here
  <2>2. Existing \subseteq Existing'
    BY <1>1, <2>1, Histories DEF Existing, Typed, TypeOK
  <2>3. TypeOK'
    BY <1>1, <2>1 DEF Typed, TypeOK
  <2>4. HandlersOK'
    <3>1. loads' \subseteq
            [page : Page, chat : Existing', step : {"get", "read", "shown"}, got : History]
      BY <2>1, <2>2 DEF Typed, HandlersOK
    <3>2. QED  BY <2>1, <2>2, <3>1 DEF Typed, HandlersOK
  <2>5. QED  BY <2>3, <2>4 DEF Typed
<1>4. QED  BY <1>2, <1>3

(* A chat that was answered long ago is of the right kind.                 *)
LEMMA InitTyped == Init => Typed
<1> SUFFICES ASSUME Init PROVE Typed
  OBVIOUS
<1> DEFINE old == [Empty EXCEPT ![1] = "answered"]
<1>1. PICK c \in Chat, started \in BOOLEAN :
         /\ doc = [x \in Chat |-> IF x = c THEN old ELSE Null]
         /\ of = [t \in Turn |-> IF t = 1 THEN c ELSE Null]
         /\ prop = IF started THEN c ELSE Null
         /\ open = prop
         /\ hist = [g \in Page |-> IF started /\ g = 1 THEN old ELSE Empty]
         /\ owner = [g \in Page |-> IF started /\ g = 1 THEN c ELSE Null]
  BY DEF Init
<1>2. old \in History /\ Empty \in History /\ old # Null
  <2>1. Empty \in History
    BY Histories
  <2>2. old \in History
    BY <2>1 DEF History, State
  <2>3. QED  BY <2>1, <2>2, Histories
<1> HIDE DEF old
<1>3. c \in Existing /\ Existing \subseteq Chat
  BY <1>1, <1>2 DEF Existing
<1>4. /\ job \in [Turn -> {"none", "running", "over"}]
      /\ named = of /\ inbox = <<>> /\ page = 1 /\ 1 \in Page
      /\ loading \in [Page -> BOOLEAN]
      /\ loads = {} /\ sends = {} /\ completing = {} /\ moves = 0 /\ risks = {}
  BY DEF Init, Page
<1>5. /\ doc \in [Chat -> History \cup {Null}] /\ of \in [Turn -> Chat \cup {Null}]
      /\ hist \in [Page -> History] /\ owner \in [Page -> Chat \cup {Null}]
      /\ open \in {c, Null} /\ prop \in {c, Null}
  BY <1>1, <1>2
<1>6. TypeOK
  BY <1>4, <1>5 DEF TypeOK
<1>7. HandlersOK
  BY <1>1, <1>3, <1>4, <1>5 DEF HandlersOK
<1>8. QED  BY <1>6, <1>7 DEF Typed

(* What the handlers hold stays of its kind.                               *)
LEMMA NextTyped == Typed /\ [Next]_vars => Typed'
<1> SUFFICES ASSUME Typed, [Next]_vars PROVE Typed'
  OBVIOUS
<1>1. ASSUME UNCHANGED vars PROVE Typed'
  BY <1>1 DEF vars, server, shown, here, handlers, Typed, TypeOK, HandlersOK, Existing
<1>2. QED
  BY <1>1, NavigateTyped, NewChatTyped, SubmitTyped, EventTyped, LoadTyped, SendTyped, AnswerTyped,
     CompletedTyped
  DEF Next

-----------------------------------------------------------------------------
(* The user goes on only when the page waits for nothing.                  *)

(* What has been saved is saved as it is.                                  *)
LEMMA Unblanked ==
  ASSUME NEW h \in History
  PROVE  /\ Saved(h) = h <=> \A t \in Turn : h[t] # "blank"
         /\ Saved(Saved(h)) = Saved(h)
<1>1. \A g \in History : (\A t \in Turn : g[t] # "blank") => Saved(g) = g
  <2> SUFFICES ASSUME NEW g \in History, \A t \in Turn : g[t] # "blank"
               PROVE  Saved(g) = g
    OBVIOUS
  <2>1. Saved(g) = [t \in Turn |-> g[t]]
    BY DEF Saved
  <2>2. QED  BY <2>1 DEF History
<1>2. Saved(h) \in History /\ \A t \in Turn : Saved(h)[t] # "blank"
  BY SavedTurns, Histories
<1>3. QED  BY <1>1, <1>2

(* What a step is to keep of the page.                                     *)
Keeps ==
  /\ SteadyOK'
  /\ Calm' /\ KeptOK => KeptOK'
  /\ risks' = {} /\ KeptOK /\ Current => Current'

(* Turns stay as they are where neither they nor documents change.         *)
LEMMA TurnsKept ==
  ASSUME TurnsOK, UNCHANGED <<of, job, named, inbox, doc>>,
         \A s \in sends : s.step = "create" => s \in sends'
  PROVE  TurnsOK'
<1>1. Asked' = Asked /\ Existing' = Existing
  BY DEF Asked, Existing
<1>2. \A h, c : Within(h, c) => Within(h, c)'
  BY DEF Within
<1>3. QED  BY <1>1, <1>2 DEF TurnsOK

(* The user goes to another chat: nothing is under way.                    *)
LEMMA NavigateKeeps ==
  ASSUME Typed, SteadyOK, NEW c \in Chat, Navigate(c), "moved" \notin risks'
  PROVE  Keeps
<1> DEFINE g == IF prop = Null THEN page + 1 ELSE page
           l == [page |-> g, chat |-> c, step |-> "get", got |-> Empty]
<1>1. /\ c # prop /\ g \in Page
      /\ page' = g /\ prop' = c /\ open' = c /\ loads' = loads \cup {l}
      /\ hist' = IF g = page THEN hist ELSE [hist EXCEPT ![g] = Empty]
      /\ loading' = [loading EXCEPT ![g] = TRUE]
      /\ UNCHANGED <<doc, job, named, of, inbox, owner, sends, completing>>
  BY DEF Navigate, Shows, server
<1>2. loads = {} /\ sends = {} /\ completing = {}
  BY DEF Navigate, Move, Waiting
<1>3. c # Null /\ page \in Nat /\ page \in Page
  BY DEF Typed, TypeOK, Page
<1>4. l.page = g /\ l.chat = c /\ l.step = "get" /\ loads' = {l}
  BY <1>1, <1>2
<1>5. /\ g = page \/ (g > page /\ g # page /\ prop = Null)
      /\ \A x \in Page : x > g => x > page
  BY <1>3 DEF Page
<1>6. owner[g] # c
  <2>1. CASE prop # Null
    BY <1>1, <1>2, <2>1 DEF SteadyOK, PageOK
  <2>2. CASE prop = Null
    <3>1. g \in Page /\ g > page
      BY <1>1, <1>3, <2>2 DEF Page
    <3>2. QED  BY <1>3, <3>1 DEF SteadyOK, PageOK
  <2>3. QED  BY <2>1, <2>2
<1>7. /\ owner[g] # Null => g = page
      /\ hist'[page] = hist[page] 
      /\ g # page => \A t \in Turn : hist'[g][t] = "none"
  BY <1>1, <1>3, <1>5, Histories DEF SteadyOK, PageOK, Typed, TypeOK
<1>8. loading'[g] = TRUE
  BY <1>1 DEF Typed, TypeOK
<1> HIDE DEF g, l
<1>9. TurnsOK'
  BY <1>1, TurnsKept DEF SteadyOK
<1>10. PageOK'
  <2>1. owner'[g] # Null =>
          hist'[g] # Empty /\ \A t \in Turn : hist'[g][t] # "none" => of'[t] = owner'[g]
    BY <1>1, <1>7 DEF SteadyOK, PageOK, Within
  <2>2. owner'[g] = Null => \A t \in Turn : hist'[g][t] = "none"
    BY <1>1, <1>2, <1>7 DEF SteadyOK, PageOK
  <2>3. \A x \in Page : x > g => owner'[x] = Null
    BY <1>1, <1>5 DEF SteadyOK, PageOK
  <2>4. QED  BY <1>1, <1>3, <1>4, <1>8, <2>1, <2>2, <2>3 DEF PageOK, Within
<1>11. WaitsOK'
  BY <1>1, <1>2, <1>4, <1>6 DEF WaitsOK
<1>12. SteadyOK'
  BY <1>9, <1>10, <1>11 DEF SteadyOK
<1>13. ASSUME KeptOK PROVE KeptOK'
  <2>1. HistKept'
    BY <1>1, <1>2, <1>7, <1>13 DEF KeptOK, HistKept, Fits, Full, Sending
  <2>2. LoadsKept' /\ SavesKept'
    BY <1>1, <1>2, <1>4 DEF LoadsKept, SavesKept
  <2>3. \A x \in Existing' : DocKept(x)'
    BY <1>1, <1>13 DEF KeptOK, DocKept, Existing, Fits, Sending
  <2>4. QED  BY <2>1, <2>2, <2>3 DEF KeptOK
<1>14. Current'
  BY <1>1, <1>4, <1>6 DEF Current
<1>15. QED  BY <1>12, <1>13, <1>14 DEF Keeps

(* The user goes to the start page: nothing is under way.                  *)
LEMMA NewChatKeeps ==
  ASSUME Typed, SteadyOK, NewChat, "moved" \notin risks'
  PROVE  Keeps
<1> DEFINE g == IF prop = Null THEN page ELSE page + 1
<1>1. /\ g \in Page
      /\ page' = g /\ prop' = Null /\ open' = Null
      /\ hist' = [hist EXCEPT ![g] = Empty]
      /\ owner' = [owner EXCEPT ![g] = Null]
      /\ UNCHANGED <<doc, job, named, of, inbox, loads, sends, completing>>
  BY DEF NewChat, server, handlers
<1>2. loads = {} /\ sends = {} /\ completing = {}
  BY DEF NewChat, Move, Waiting
<1>3. \A x \in Page : x > g => x > page
  BY DEF Typed, TypeOK, Page
<1>4. owner'[g] = Null /\ \A t \in Turn : hist'[g][t] = "none"
  BY <1>1, Histories DEF Typed, TypeOK
<1>5. \A x \in Page : x > g => owner'[x] = Null
  BY <1>1, <1>3 DEF SteadyOK, PageOK, Typed, TypeOK
<1> HIDE DEF g
<1>6. TurnsOK'
  BY <1>1, TurnsKept DEF SteadyOK
<1>7. PageOK'
  BY <1>1, <1>2, <1>4, <1>5 DEF PageOK
<1>8. WaitsOK'
  BY <1>1, <1>2 DEF WaitsOK
<1>9. SteadyOK'
  BY <1>6, <1>7, <1>8 DEF SteadyOK
<1>10. ASSUME KeptOK PROVE KeptOK'
  <2>1. HistKept'
    BY <1>1, <1>4, <1>10 DEF HistKept, Fits
  <2>2. LoadsKept' /\ SavesKept'
    BY <1>1, <1>2 DEF LoadsKept, SavesKept
  <2>3. \A x \in Existing' : DocKept(x)'
    BY <1>1, <1>10 DEF KeptOK, DocKept, Existing, Fits, Sending
  <2>4. QED  BY <2>1, <2>2, <2>3 DEF KeptOK
<1>11. Current'
  BY <1>1, <1>2 DEF Current
<1>12. QED  BY <1>9, <1>10, <1>11 DEF Keeps

(* A load is alone, but for answers that come while the chat is shown.     *)
LEMMA Loading ==
  ASSUME Typed, SteadyOK, NEW l \in loads
  PROVE  /\ loads = {l} /\ sends = {} /\ l.page = page /\ l.chat = open
         /\ owner[page] = open <=> l.step = "shown"
         /\ l.step = "read" => Within(l.got, l.chat)
         /\ loading[page]
         /\ open \in Existing /\ open # Null /\ page \in Page
         /\ l \in [page : Page, chat : Existing, step : {"get", "read", "shown"}, got : History]
         /\ l.step # "shown" => completing = {}
BY DEF SteadyOK, WaitsOK, PageOK, Typed, HandlersOK, TypeOK, Existing

(* The server reads the document, which has all turns of the chat.         *)
LEMMA LoadReadKeeps ==
  ASSUME Typed, SteadyOK, NEW l \in loads, LoadRead(l)
  PROVE  Keeps
<1> DEFINE n == [l EXCEPT !.step = "read", !.got = doc[l.chat]]
<1>1. /\ l.step = "get" /\ loads' = (loads \ {l}) \cup {n}
      /\ UNCHANGED <<doc, job, named, of, inbox, open, prop, page, hist, owner, loading>>
      /\ UNCHANGED <<sends, completing>>
  BY DEF LoadRead, Goes, server, shown, here
<1>2. /\ loads = {l} /\ sends = {} /\ l.page = page /\ l.chat = open /\ owner[page] # open
      /\ loading[page] /\ open \in Existing /\ open # Null /\ completing = {}
  BY <1>1, Loading
<1>3. n.page = page /\ n.chat = open /\ n.step = "read" /\ n.got = doc[open]
  BY Loading
<1>4. n.got # Empty /\ \A t \in Turn : n.got[t] # "none" => of'[t] = n.chat
  BY <1>1, <1>2, <1>3 DEF SteadyOK, TurnsOK, Within
<1>5. loads' = {n}
  BY <1>1, <1>2
<1> HIDE DEF n
<1>6. TurnsOK'
  BY <1>1, TurnsKept DEF SteadyOK
<1>7. PageOK'
  <2>1. loads' # {} /\ loads # {}
    BY <1>5
  <2>2. QED  BY <1>1, <2>1 DEF SteadyOK, PageOK, Within
<1>8. WaitsOK'
  BY <1>1, <1>2, <1>3, <1>4, <1>5 DEF WaitsOK, Within
<1>9. SteadyOK'
  BY <1>6, <1>7, <1>8 DEF SteadyOK
<1>10. ASSUME KeptOK PROVE KeptOK'
  <2>1. HistKept'
    BY <1>1, <1>10 DEF KeptOK, HistKept, Fits, Full, Sending
  <2>2. LoadsKept'
    <3>1. DocKept(open)
      BY <1>2, <1>10 DEF KeptOK
    <3>2. QED  BY <1>1, <1>2, <1>3, <1>5, <3>1 DEF LoadsKept, DocKept, Fits, Full, Sending
  <2>3. SavesKept'
    BY <1>1, <1>2 DEF SavesKept
  <2>4. \A x \in Existing' : DocKept(x)'
    BY <1>1, <1>10 DEF KeptOK, DocKept, Existing, Fits, Sending
  <2>5. QED  BY <2>1, <2>2, <2>3, <2>4 DEF KeptOK
<1>11. Current'
  BY <1>1, <1>2, <1>3, <1>5 DEF Current
<1>12. QED  BY <1>9, <1>10, <1>11 DEF Keeps

(* What the server read gets to the page with its chat.                    *)
LEMMA LoadShowKeeps ==
  ASSUME Typed, SteadyOK, NEW l \in loads, LoadShow(l)
  PROVE  Keeps
<1> DEFINE n == [l EXCEPT !.step = "shown", !.got = Empty]
<1>1. /\ l.step = "read" /\ loads' = (loads \ {l}) \cup {n}
      /\ hist' = [hist EXCEPT ![l.page] = l.got]
      /\ owner' = [owner EXCEPT ![l.page] = l.chat]
      /\ UNCHANGED <<doc, job, named, of, inbox, open, prop, page, loading>>
      /\ UNCHANGED <<sends, completing>>
  BY DEF LoadShow, Goes, server, shown
<1>2. /\ loads = {l} /\ sends = {} /\ l.page = page /\ l.chat = open /\ Within(l.got, open)
      /\ loading[page] /\ open \in Existing /\ open # Null /\ completing = {} /\ page \in Page
  BY <1>1, Loading
<1>3. n.page = page /\ n.chat = open /\ n.step = "shown"
  BY Loading
<1>4. loads' = {n}
  BY <1>1, <1>2
<1>5. hist'[page] = l.got /\ owner'[page] = open
  BY <1>1, <1>2 DEF Typed, TypeOK
<1>6. \A g \in Page : g > page => owner'[g] = owner[g]
  BY <1>1, <1>2 DEF Typed, TypeOK, Page
<1> HIDE DEF n
<1>7. TurnsOK'
  BY <1>1, TurnsKept DEF SteadyOK
<1>8. PageOK'
  BY <1>1, <1>2, <1>4, <1>5, <1>6 DEF SteadyOK, PageOK, Within
<1>9. WaitsOK'
  BY <1>1, <1>2, <1>3, <1>4, <1>5 DEF WaitsOK
<1>10. SteadyOK'
  BY <1>7, <1>8, <1>9 DEF SteadyOK
<1>11. ASSUME KeptOK PROVE KeptOK'
  <2>1. HistKept'
    BY <1>1, <1>2, <1>5, <1>11 DEF KeptOK, LoadsKept, HistKept, Fits, Full, Sending
  <2>2. LoadsKept' /\ SavesKept'
    BY <1>1, <1>2, <1>3, <1>4 DEF LoadsKept, SavesKept
  <2>3. \A x \in Existing' : DocKept(x)'
    BY <1>1, <1>11 DEF KeptOK, DocKept, Existing, Fits, Sending
  <2>4. QED  BY <2>1, <2>2, <2>3 DEF KeptOK
<1>12. ASSUME Current PROVE Current'
  <2>1. ASSUME NEW t \in Turn
        PROVE  \/ l.got[t] = doc[open][t]
               \/ l.got[t] = "asked" /\ doc[open][t] = "answered" /\ Coming(t)
    BY <1>1, <1>2, <1>12 DEF Current
  <2>2. \A t \in Turn : Coming(t)' <=> Coming(t)
    BY <1>1 DEF Coming
  <2>3. QED  BY <1>1, <1>3, <1>4, <1>5, <2>1, <2>2 DEF Current
<1>13. QED  BY <1>10, <1>11, <1>12 DEF Keeps

(* Answers that are still to come are taken for complete.                  *)
LEMMA LoadEndsKeeps ==
  ASSUME Typed, SteadyOK, NEW l \in loads, LoadEnds(l)
  PROVE  Keeps
<1> DEFINE h == [t \in Turn |-> IF hist[l.page][t] = "asked" THEN "blank" ELSE hist[l.page][t]]
<1>1. /\ l.step = "shown" /\ loads' = loads \ {l}
      /\ hist' = [hist EXCEPT ![l.page] = h]
      /\ UNCHANGED <<doc, job, named, of, inbox, open, prop, page, owner>>
      /\ UNCHANGED <<sends, completing>>
  BY DEF LoadEnds, server, shown
<1>2. /\ loads = {l} /\ sends = {} /\ l.page = page /\ owner[page] = open /\ page \in Page
      /\ hist[page] \in History
  BY <1>1, Loading DEF Typed, TypeOK
<1>3. /\ hist'[page] = h
      /\ \A t \in Turn : h[t] = IF hist[page][t] = "asked" THEN "blank" ELSE hist[page][t]
  BY <1>1, <1>2 DEF Typed, TypeOK
<1>4. h = Empty => hist[page] = Empty
  BY <1>2, <1>3, Histories
<1> HIDE DEF h
<1>5. loads' = {}
  BY <1>1, <1>2
<1>6. TurnsOK'
  BY <1>1, TurnsKept DEF SteadyOK
<1>7. PageOK'
  BY <1>1, <1>2, <1>3, <1>4, <1>5 DEF SteadyOK, PageOK, Within
<1>8. WaitsOK'
  BY <1>1, <1>2, <1>5 DEF SteadyOK, WaitsOK, Within
<1>9. SteadyOK'
  BY <1>6, <1>7, <1>8 DEF SteadyOK
<1>10. ASSUME KeptOK PROVE KeptOK'
  <2>1. HistKept'
    BY <1>1, <1>2, <1>3, <1>10 DEF KeptOK, HistKept, Fits, Full, Sending
  <2>2. LoadsKept'
    BY <1>5 DEF LoadsKept
  <2>3. SavesKept'
    <3>1. Saved(h) = Saved(hist[page])
      BY <1>3 DEF Saved
    <3>2. \A t \in Turn : Early(h, t) <=> Early(hist[page], t)
      BY <1>3 DEF Early
    <3>3. \A f \in completing : f.turn \in Turn
      BY DEF Typed, HandlersOK
    <3>4. QED  BY <1>1, <1>2, <1>3, <1>10, <3>1, <3>2, <3>3 DEF KeptOK, SavesKept, Saving, Early
  <2>4. \A x \in Existing' : DocKept(x)'
    BY <1>1, <1>10 DEF KeptOK, DocKept, Existing, Fits, Sending
  <2>5. QED  BY <2>1, <2>2, <2>3, <2>4 DEF KeptOK
<1>11. ASSUME Current PROVE Current'
  <2>1. \A t \in Turn : Coming(t)' <=> Coming(t)
    BY <1>1 DEF Coming
  <2>2. QED  BY <1>1, <1>2, <1>3, <1>5, <1>11, <2>1 DEF Current
<1>12. QED  BY <1>9, <1>10, <1>11 DEF Keeps

(* A prompt is sent below the open chat, or as the first of a chat that    *)
(* nobody else is about to create.                                         *)
LEMMA NewTurn ==
  ASSUME Typed, TurnsOK, SubmitPrompt
  PROVE  /\ Asked + 1 \in Turn /\ of[Asked + 1] = Null
         /\ \A c \in Chat : of' = [of EXCEPT ![Asked + 1] = c] =>
              /\ of'[Asked + 1] = c
              /\ \A u \in Turn : of[u] # Null => of'[u] = of[u]
              /\ \A u \in Turn : of'[u] # Null <=> u <= Asked'
<1> DEFINE t == Asked + 1
<1>1. t \in Turn /\ Asked \in Nat
  BY AskedType DEF SubmitPrompt
<1>2. \A u \in Turn : u \in Nat /\ (of[u] # Null <=> u <= Asked)
  BY DEF TurnsOK, Turn
<1>3. of[t] = Null
  BY <1>1, <1>2
<1>4. ASSUME NEW c \in Chat, of' = [of EXCEPT ![t] = c]
      PROVE  /\ of'[t] = c
             /\ \A u \in Turn : of[u] # Null => of'[u] = of[u]
             /\ \A u \in Turn : of'[u] # Null <=> u <= Asked'
  <2>1. of'[t] = c /\ \A u \in Turn \ {t} : of'[u] = of[u]
    BY <1>1, <1>4 DEF Typed, TypeOK
  <2>2. {u \in Turn : of'[u] # Null} = 1 .. t
    BY <1>1, <1>2, <2>1 DEF Turn
  <2>3. Asked' = t
    <3>1. Asked' = Cardinality(1 .. t)
      BY <2>2 DEF Asked
    <3>2. t \in Nat /\ t >= 1
      BY <1>1
    <3> HIDE DEF t
    <3>3. QED  BY <3>1, <3>2, FS_Interval
  <2>4. \A u \in Turn : of'[u] # Null <=> u <= t
    BY <1>1, <1>2, <2>1
  <2>5. QED  BY <1>3, <2>1, <2>3, <2>4
<1>5. QED  BY <1>1, <1>3, <1>4

(* The first prompt, on an empty page without a chat.                      *)
LEMMA SubmitFirstKeeps ==
  ASSUME Typed, SteadyOK, SubmitPrompt, hist[page] = Empty
  PROVE  Keeps
<1> DEFINE t == Asked + 1
           h == [hist[page] EXCEPT ![t] = "asked"]
<1>1. t \in Turn /\ of[t] = Null /\ page \in Page /\ hist[page] \in History
  BY NewTurn DEF SteadyOK, Typed, TypeOK
<1>2. /\ ~loading[page]
      /\ hist' = [hist EXCEPT ![page] = h]
      /\ UNCHANGED <<doc, job, named, inbox, open, prop, page, owner, loading, loads, completing>>
  BY DEF SubmitPrompt, server, shown
<1>3. PICK c \in Chat \ Existing :
        /\ of' = [of EXCEPT ![t] = c]
        /\ sends' = sends \cup
             {[page |-> page, turn |-> t, chat |-> c, step |-> "create", body |-> Empty]}
  BY DEF SubmitPrompt
<1> DEFINE s == [page |-> page, turn |-> t, chat |-> c, step |-> "create", body |-> Empty]
<1>4. loads = {} /\ owner[page] = Null /\ open = Null
  BY <1>2 DEF SteadyOK, PageOK, Within
<1>5. sends = {} /\ completing = {}
  <2>1. \A u \in Turn : hist[page][u] = "none"
    BY <1>1, Histories
  <2>2. \A r \in sends : r.turn \in Turn
    BY DEF Typed, HandlersOK
  <2>3. QED  BY <1>4, <2>1, <2>2 DEF SteadyOK, WaitsOK
<1>6. /\ hist'[page][t] = "asked"
      /\ \A u \in Turn \ {t} : hist'[page][u] = "none"
  <2>1. hist'[page] = h
    BY <1>1, <1>2 DEF Typed, TypeOK
  <2>2. /\ h[t] = "asked" /\ \A u \in Turn \ {t} : h[u] = hist[page][u]
    BY <1>1 DEF History
  <2>3. QED  BY <1>1, <2>1, <2>2, Histories
<1>7. /\ of'[t] = c /\ c # Null /\ c \notin Existing
      /\ \A u \in Turn : of[u] # Null => of'[u] = of[u]
      /\ \A u \in Turn : of'[u] # Null <=> u <= Asked'
      /\ \A u \in Turn \ {t} : of'[u] = of[u]
  BY <1>1, <1>3, NewTurn DEF SteadyOK, Typed, TypeOK
<1>8. /\ sends' = {s}
      /\ s.page = page /\ s.turn = t /\ s.chat = c /\ s.step = "create"
  BY <1>3, <1>5
<1>9. job[t] = "none"
  BY <1>1 DEF SteadyOK, TurnsOK, Typed, TypeOK, Existing
<1> HIDE DEF s, t, h
<1>10. Existing' = Existing
  BY <1>2 DEF Existing
<1>11. TurnsOK'
  <2>1. \A x \in Existing' : Within(doc[x], x)'
    <3>1. \A x \in Existing, u \in Turn : doc[x][u] # "none" => of[u] = x /\ x # Null /\ doc[x] # Empty
      BY DEF SteadyOK, TurnsOK, Within, Existing
    <3>2. \A x \in Existing : doc[x] # Empty
      BY DEF SteadyOK, TurnsOK, Within
    <3>3. \A x \in Existing', u \in Turn : doc'[x][u] # "none" => of'[u] = x
      BY <1>2, <1>7, <1>10, <3>1
    <3>4. QED  BY <1>2, <1>10, <3>2, <3>3 DEF Within
  <2>2. ASSUME NEW u \in Turn
        PROVE  /\ job'[u] # "none" => named'[u] = of'[u] /\ of'[u] \in Existing'
               /\ of'[u] # Null =>
                    \/ of'[u] \in Existing'
                    \/ \E r \in sends' : r.step = "create" /\ r.turn = u /\ r.chat = of'[u]
    BY <1>2, <1>5, <1>7, <1>8, <1>9, <1>10 DEF SteadyOK, TurnsOK
  <2>3. ASSUME NEW i \in DOMAIN inbox
        PROVE  of'[inbox[i][2]] = inbox[i][1] /\ job[inbox[i][2]] = "over"
    <3>1. inbox[i] \in (Chat \cup {Null}) \X Turn
      BY DEF Typed, TypeOK
    <3>2. of[inbox[i][2]] = inbox[i][1] /\ job[inbox[i][2]] = "over"
      BY DEF SteadyOK, TurnsOK
    <3>3. QED  BY <1>7, <1>9, <3>1, <3>2
  <2>4. QED  BY <1>2, <1>7, <2>1, <2>2, <2>3 DEF TurnsOK
<1>12. PageOK'
  BY <1>2, <1>4, <1>6, <1>8 DEF SteadyOK, PageOK
<1>13. WaitsOK'
  BY <1>2, <1>4, <1>5, <1>6, <1>7, <1>8, <1>9, <1>10 DEF WaitsOK
<1>14. SteadyOK'
  BY <1>11, <1>12, <1>13 DEF SteadyOK
<1>15. ASSUME KeptOK PROVE KeptOK'
  <2>1. HistKept'
    BY <1>2, <1>4, <1>6, <1>8 DEF HistKept, Fits, Full, Sending
  <2>2. LoadsKept' /\ SavesKept'
    BY <1>2, <1>4, <1>5, <1>8 DEF LoadsKept, SavesKept, Saving
  <2>3. ASSUME NEW x \in Existing' PROVE DocKept(x)'
    <3>1. x \in Existing /\ x # c /\ x # Null /\ DocKept(x) /\ Within(doc[x], x)
      BY <1>7, <1>10, <1>15, <2>3 DEF KeptOK, Existing, SteadyOK, TurnsOK
    <3>2. doc[x][t] = "none"
      BY <1>1, <3>1 DEF Within
    <3>3. Fits(doc[x])'
      BY <1>2, <1>5, <1>8, <3>1, <3>2 DEF DocKept, Fits, Sending
    <3>4. \A u \in Turn : of'[u] = x => of[u] = x
      BY <1>7, <3>1
    <3>5. QED  BY <1>2, <1>5, <3>1, <3>3, <3>4 DEF DocKept
  <2>4. QED  BY <2>1, <2>2, <2>3 DEF KeptOK
<1>16. Current'
  BY <1>2, <1>4 DEF Current
<1>17. QED  BY <1>14, <1>15, <1>16 DEF Keeps

(* A new turn takes nothing from the chats there are.                      *)
LEMMA WithinGrows ==
  ASSUME NEW h, NEW c, c # Null, Within(h, c), \A u \in Turn : of[u] # Null => of'[u] = of[u]
  PROVE  h # Empty /\ \A u \in Turn : h[u] # "none" => of'[u] = c
BY DEF Within

(* A further prompt, below settled ones; answers may be completed.         *)
LEMMA SubmitMoreKeeps ==
  ASSUME Typed, SteadyOK, SubmitPrompt, hist[page] # Empty
  PROVE  Keeps
<1> DEFINE t == Asked + 1
           h == [hist[page] EXCEPT ![t] = "asked"]
           s == [page |-> page, turn |-> t, chat |-> open, step |-> "put", body |-> Saved(h)]
<1>1. t \in Turn /\ of[t] = Null /\ page \in Page /\ hist[page] \in History
  BY NewTurn DEF SteadyOK, Typed, TypeOK
<1>2. /\ ~loading[page]
      /\ \A u \in Turn : hist[page][u] # "asked"
      /\ hist' = [hist EXCEPT ![page] = h]
      /\ of' = [of EXCEPT ![t] = owner[page]]
      /\ Save(t, page, open, h, sends)
      /\ UNCHANGED <<doc, job, named, inbox, open, prop, page, owner, loading, loads, completing>>
  BY DEF SubmitPrompt, server, shown
<1>3. loads = {} /\ owner[page] = open
  BY <1>2 DEF SteadyOK, PageOK
<1>4. sends = {}
  <2>1. \A r \in sends : r.turn \in Turn
    BY DEF Typed, HandlersOK
  <2>2. QED  BY <1>2, <2>1 DEF SteadyOK, WaitsOK
<1>5. open \in Existing /\ open \in Chat /\ open # Null
  <2>1. open # Null
    BY <1>1, <1>3, <1>4, Histories DEF SteadyOK, PageOK
  <2>2. QED  BY <2>1 DEF Typed, HandlersOK, Existing
<1>6. sends' = {s}
  BY <1>2, <1>4 DEF Save
<1>7. s.page = page /\ s.turn = t /\ s.chat = open /\ s.step = "put" /\ s.body = Saved(h)
  OBVIOUS
<1>8. /\ of'[t] = open
      /\ \A u \in Turn : of[u] # Null => of'[u] = of[u]
      /\ \A u \in Turn : of'[u] # Null <=> u <= Asked'
      /\ \A u \in Turn \ {t} : of'[u] = of[u]
  BY <1>1, <1>2, <1>3, <1>5, NewTurn DEF SteadyOK, Typed, TypeOK
<1>9. /\ h \in History /\ h[t] = "asked" /\ \A u \in Turn \ {t} : h[u] = hist[page][u]
  BY <1>1 DEF History, State
<1>10. hist'[page] = h
  BY <1>1, <1>2 DEF Typed, TypeOK
<1>11. h # Empty /\ \A u \in Turn : h[u] # "none" => of'[u] = open
  <2>1. \A u \in Turn \ {t} : hist[page][u] # "none" => of'[u] = open
    BY <1>3, <1>5, <1>8 DEF SteadyOK, PageOK, Within
  <2>2. h # Empty
    BY <1>1, <1>9, Histories
  <2>3. QED  BY <1>8, <1>9, <2>1, <2>2
<1>12. Saved(h) # Empty /\ \A u \in Turn : Saved(h)[u] # "none" => of'[u] = open
  BY <1>9, <1>11, SavedTurns
<1>13. job[t] = "none"
  BY <1>1 DEF SteadyOK, TurnsOK, Typed, TypeOK, Existing
<1> HIDE DEF s, t, h
<1>14. Existing' = Existing
  BY <1>2 DEF Existing
<1>15. TurnsOK'
  <2>1. ASSUME NEW x \in Existing
        PROVE  doc'[x] # Empty /\ \A u \in Turn : doc'[x][u] # "none" => of'[u] = x
    <3>1. x # Null /\ Within(doc[x], x)
      BY DEF SteadyOK, TurnsOK, Existing
    <3>2. QED  BY <1>2, <1>8, <3>1, WithinGrows
  <2>2. ASSUME NEW u \in Turn
        PROVE  /\ job'[u] # "none" => named'[u] = of'[u] /\ of'[u] \in Existing'
               /\ of'[u] # Null => of'[u] \in Existing'
    BY <1>2, <1>4, <1>5, <1>8, <1>13, <1>14 DEF SteadyOK, TurnsOK
  <2>3. ASSUME NEW i \in DOMAIN inbox
        PROVE  of'[inbox[i][2]] = inbox[i][1] /\ job[inbox[i][2]] = "over"
    <3>1. inbox[i] \in (Chat \cup {Null}) \X Turn
      BY DEF Typed, TypeOK
    <3>2. of[inbox[i][2]] = inbox[i][1] /\ job[inbox[i][2]] = "over"
      BY DEF SteadyOK, TurnsOK
    <3>3. QED  BY <1>8, <1>13, <3>1, <3>2
  <2>4. QED  BY <1>2, <1>8, <1>14, <2>1, <2>2, <2>3 DEF TurnsOK, Within
<1>16. PageOK'
  BY <1>2, <1>3, <1>5, <1>10, <1>11 DEF SteadyOK, PageOK, Within
<1>17. WaitsOK'
  <2>1. ASSUME NEW f \in completing, f.step = "put"
        PROVE  f.body # Empty /\ \A u \in Turn : f.body[u] # "none" => of'[u] = f.chat
    <3>1. f.chat # Null /\ Within(f.body, f.chat)
      BY <2>1 DEF SteadyOK, WaitsOK
    <3>2. QED  BY <1>8, <3>1, WithinGrows
  <2>2. \A f \in completing : f.page = page /\ f.chat = open /\ f.chat = owner[page] /\ f.chat # Null
    BY DEF SteadyOK, WaitsOK
  <2>3. QED
    BY <1>2, <1>3, <1>5, <1>6, <1>7, <1>8, <1>9, <1>10, <1>12, <1>13, <2>1, <2>2 DEF WaitsOK, Within
<1>18. SteadyOK'
  BY <1>15, <1>16, <1>17 DEF SteadyOK
<1>19. \A u \in Turn : of'[u] = open => u = t \/ of[u] = open
  BY <1>8
<1>20. ASSUME NEW x \in Existing
       PROVE  /\ doc[x][t] = "none"
              /\ \A u \in Turn \ {t} : of'[u] = of[u]
  BY <1>1, <1>8 DEF SteadyOK, TurnsOK, Within, Existing
<1>21. hist[page][t] = "none"
  BY <1>1, <1>3, <1>5 DEF SteadyOK, PageOK, Within
<1>22. ASSUME Calm', KeptOK PROVE KeptOK'
  <2>1. ~Early(h, t) /\ ~Crossing(open)
    <3>1. Calm' => "early" \notin risks' /\ "crossed" \notin risks'
      BY DEF Calm
    <3>2. risks' = risks \cup Risk(Early(h, t), Crossing(open))
      BY <1>2 DEF Save
    <3>3. QED  BY <1>22, <3>1, <3>2 DEF Risk
  <2>2. HistKept'
    <3>1. Fits(hist[page])'
      BY <1>2, <1>6, <1>7, <1>9, <1>10, <1>22 DEF KeptOK, HistKept, Fits, Sending
    <3>2. Full(hist[page], open)
      BY <1>3, <1>5, <1>22 DEF KeptOK, HistKept
    <3>3. \A u \in Turn : of'[u] = open => hist'[page][u] # "none"
      BY <1>9, <1>10, <1>19, <3>2 DEF Full
    <3>4. QED  BY <1>2, <1>3, <3>1, <3>3 DEF HistKept, Full
  <2>3. LoadsKept'
    BY <1>2, <1>3 DEF LoadsKept
  <2>4. SavesKept'
    <3>1. s.body = Saved(h) /\ ~Early(h, s.turn)
      BY <1>7, <2>1
    <3>2. \A f \in completing :
            f.turn \in Turn /\ f.step # "put" /\ f.turn # t /\ hist[page][f.turn] = "answered"
      BY <1>21, <1>22, <2>1 DEF KeptOK, SavesKept, Crossing, SteadyOK, WaitsOK, Typed, HandlersOK
    <3>3. QED  BY <1>2, <1>6, <1>9, <1>10, <3>1, <3>2 DEF SavesKept, Saving
  <2>5. ASSUME NEW x \in Existing' PROVE DocKept(x)'
    <3>1. x \in Existing /\ DocKept(x)
      BY <1>14, <1>22 DEF KeptOK
    <3>2. Fits(doc[x])'
      BY <1>2, <1>6, <1>7, <1>20, <3>1 DEF DocKept, Fits, Sending
    <3>3. \A u \in Turn : of'[u] = x /\ doc[x][u] = "none" => u = t
      BY <1>4, <1>20, <3>1 DEF DocKept
    <3>4. \A u \in Turn : of'[u] = x /\ job[u] = "over" => doc[x][u] = "answered"
      BY <1>13, <1>20, <3>1 DEF DocKept
    <3>5. QED  BY <1>2, <1>6, <1>7, <3>1, <3>2, <3>3, <3>4 DEF DocKept
  <2>6. QED  BY <2>2, <2>3, <2>4, <2>5 DEF KeptOK
<1>23. ASSUME Current PROVE Current'
  <2>1. \A u \in Turn \ {t} : Coming(u)' <=> Coming(u)
    BY <1>2, <1>8 DEF Coming
  <2>2. ASSUME NEW u \in Turn
        PROVE  LET a == hist'[page][u] IN
                 /\ doc[open][u] = "answered" => a = "answered" \/ (a \in {"asked", "blank"} /\ Coming(u)')
                 /\ doc[open][u] = "asked" => a \in {"asked", "blank", "cut"}
                 /\ doc[open][u] = "cut" => a = "cut"
    BY <1>3, <1>5, <1>9, <1>10, <1>20, <1>23, <2>1 DEF Current
  <2>3. QED  BY <1>2, <1>3, <2>2 DEF Current
<1>24. QED  BY <1>18, <1>22, <1>23 DEF Keeps

-----------------------------------------------------------------------------
(* A prompt on its way.                                                    *)

(* A chat that was not there gets its first prompt.                        *)
LEMMA CreatedKeeps ==
  ASSUME Typed, SteadyOK, NEW s \in sends, Created(s)
  PROVE  Keeps
<1> DEFINE t == s.turn
           h == [Empty EXCEPT ![t] = "asked"]
           n == [s EXCEPT !.step = "list"]
           c == s.chat
<1>1. /\ s.step = "create"
      /\ doc' = [doc EXCEPT ![c] = h]
      /\ open' = c
      /\ owner' = [owner EXCEPT ![s.page] = c]
      /\ sends' = (sends \ {s}) \cup {n}
      /\ UNCHANGED <<of, job, named, inbox, prop, page, hist, loading, loads, completing>>
  BY DEF Created
<1>2. /\ sends = {s} /\ s.page = page /\ c = of[t] /\ c # Null
      /\ hist[page][t] = "asked" /\ job[t] = "none"
      /\ owner[page] = Null /\ c \notin Existing /\ completing = {}
  BY <1>1 DEF SteadyOK, WaitsOK
<1>3. loads = {} /\ open = Null /\ prop = Null
  BY <1>2 DEF SteadyOK, WaitsOK, PageOK
<1>4. t \in Turn /\ c \in Chat /\ page \in Page /\ hist[page] \in History
  BY <1>1 DEF Typed, TypeOK, HandlersOK
<1>5. n.page = page /\ n.turn = t /\ n.chat = c /\ n.step = "list"
  BY <1>2 DEF Typed, HandlersOK
<1>6. sends' = {n}
  BY <1>1, <1>2
<1>7. h \in History /\ h # Null /\ h[t] = "asked" /\ \A u \in Turn \ {t} : h[u] = "none"
  <2>1. h \in History /\ h[t] = "asked" /\ \A u \in Turn \ {t} : h[u] = "none"
    BY <1>4 DEF History, State, Empty
  <2>2. QED  BY <2>1, Histories
<1>8. h # Empty
  BY <1>4, <1>7, Histories
<1> HIDE DEF n, h
<1>9. Existing' = Existing \cup {c} /\ doc'[c] = h /\ \A x \in Existing : doc'[x] = doc[x]
  BY <1>1, <1>2, <1>4, <1>7 DEF Existing, Typed, TypeOK
<1>10. owner'[page] = c /\ \A g \in Page : g > page => owner'[g] = owner[g]
  BY <1>1, <1>2, <1>4 DEF Typed, TypeOK, Page
<1>11. TurnsOK'
  <2>1. \A x \in Existing' : doc'[x] # Empty /\ \A u \in Turn : doc'[x][u] # "none" => of[u] = x
    BY <1>2, <1>7, <1>8, <1>9 DEF SteadyOK, TurnsOK, Within
  <2>2. ASSUME NEW u \in Turn
        PROVE  /\ job[u] # "none" => named[u] = of[u] /\ of[u] \in Existing'
               /\ of[u] # Null => of[u] \in Existing'
    BY <1>2, <1>9 DEF SteadyOK, TurnsOK
  <2>3. Asked' = Asked
    BY <1>1 DEF Asked
  <2>4. QED  BY <1>1, <2>1, <2>2, <2>3 DEF SteadyOK, TurnsOK, Within
<1>12. PageOK'
  <2>1. \A u \in Turn : hist[page][u] # "none" => of[u] = c
    BY <1>2 DEF SteadyOK, PageOK
  <2>2. hist[page] # Empty
    BY <1>2, <1>4, Histories
  <2>3. QED  BY <1>1, <1>2, <1>3, <1>10, <2>1, <2>2 DEF SteadyOK, PageOK, Within
<1>13. WaitsOK'
  BY <1>1, <1>2, <1>3, <1>5, <1>6, <1>10 DEF WaitsOK
<1>14. SteadyOK'
  BY <1>11, <1>12, <1>13 DEF SteadyOK
<1>15. \A u \in Turn : of[u] = c => u = t
  BY <1>2 DEF SteadyOK, TurnsOK
<1>16. ASSUME KeptOK PROVE KeptOK'
  <2>1. HistKept'
    BY <1>1, <1>2, <1>5, <1>6, <1>10, <1>15, <1>16 DEF KeptOK, HistKept, Fits, Full, Sending
  <2>2. LoadsKept' /\ SavesKept'
    BY <1>1, <1>2, <1>3, <1>5, <1>6 DEF LoadsKept, SavesKept, Saving
  <2>3. DocKept(c)'
    <3>1. Saved(h) = h
      BY <1>7, Unblanked
    <3>2. Fits(doc[c])'
      BY <1>7, <1>9 DEF Fits
    <3>3. QED  BY <1>1, <1>2, <1>7, <1>9, <1>15, <3>1, <3>2 DEF DocKept
  <2>4. ASSUME NEW x \in Existing PROVE DocKept(x)'
    <3>1. doc'[x] = doc[x] /\ DocKept(x)
      BY <1>9, <1>16 DEF KeptOK
    <3>2. Fits(doc[x])'
      BY <1>1, <1>2, <1>5, <1>6, <3>1 DEF DocKept, Fits, Sending
    <3>3. \A u \in Turn : of[u] = x => doc[x][u] # "none"
      BY <1>1, <1>2, <3>1 DEF DocKept
    <3>4. QED  BY <1>1, <3>1, <3>2, <3>3 DEF DocKept
  <2>5. QED  BY <1>9, <2>1, <2>2, <2>3, <2>4 DEF KeptOK
<1>17. Current'
  BY <1>1, <1>2, <1>3, <1>7, <1>9 DEF Current
<1>18. QED  BY <1>14, <1>16, <1>17 DEF Keeps

(* The new chat is about to be saved as the page shows it.                 *)
LEMMA ListedKeeps ==
  ASSUME Typed, SteadyOK, NEW s \in sends, Listed(s)
  PROVE  Keeps
<1> DEFINE h == hist[page]
           n == [page |-> page, turn |-> s.turn, chat |-> open, step |-> "put", body |-> Saved(h)]
<1>1. /\ s.step = "list" /\ open' = open
      /\ Save(s.turn, s.page, s.chat, hist[s.page], sends \ {s})
      /\ UNCHANGED <<doc, job, named, of, inbox, prop, page, hist, owner, loading, loads, completing>>
  BY DEF Listed, server, here
<1>2. /\ sends = {s} /\ s.page = page /\ s.chat = open /\ s.chat = of[s.turn] /\ s.chat # Null
      /\ hist[page][s.turn] = "asked" /\ job[s.turn] = "none"
  BY <1>1 DEF SteadyOK, WaitsOK
<1>3. loads = {} /\ owner[page] = open /\ h \in History
  BY <1>2 DEF SteadyOK, WaitsOK, PageOK, Typed, TypeOK
<1>4. sends' = {n}
  BY <1>1, <1>2 DEF Save
<1>5. n.page = page /\ n.turn = s.turn /\ n.chat = open /\ n.step = "put" /\ n.body = Saved(h)
  OBVIOUS
<1>6. Saved(h) # Empty /\ \A u \in Turn : Saved(h)[u] # "none" => of[u] = open
  BY <1>2, <1>3, SavedTurns DEF SteadyOK, PageOK, Within
<1> HIDE DEF n
<1>7. TurnsOK'
  BY <1>1, <1>2, TurnsKept DEF SteadyOK
<1>8. PageOK'
  BY <1>1, <1>2, <1>3 DEF SteadyOK, PageOK, Within
<1>9. WaitsOK'
  <2>1. \A f \in completing :
          /\ f.page = page /\ f.chat = open /\ f.chat = owner[page] /\ f.chat # Null
          /\ f.step = "put" => f.body # Empty /\ \A u \in Turn : f.body[u] # "none" => of[u] = f.chat
    BY DEF SteadyOK, WaitsOK, Within
  <2>2. QED  BY <1>1, <1>2, <1>3, <1>4, <1>5, <1>6, <2>1 DEF WaitsOK, Within
<1>10. SteadyOK'
  BY <1>7, <1>8, <1>9 DEF SteadyOK
<1>11. ASSUME Calm', KeptOK PROVE KeptOK'
  <2>1. ~Early(h, s.turn)
    <3>1. Calm' => "early" \notin risks'
      BY DEF Calm
    <3>2. risks' = risks \cup Risk(Early(h, s.turn), Crossing(open))
      BY <1>1, <1>2 DEF Save
    <3>3. QED  BY <1>11, <3>1, <3>2 DEF Risk
  <2>2. HistKept'
    BY <1>1, <1>2, <1>4, <1>5, <1>11 DEF KeptOK, HistKept, Fits, Full, Sending
  <2>3. LoadsKept'
    BY <1>1, <1>3 DEF LoadsKept
  <2>4. SavesKept'
    BY <1>1, <1>4, <1>5, <1>11, <2>1 DEF KeptOK, SavesKept, Saving
  <2>5. ASSUME NEW x \in Existing PROVE DocKept(x)'
    <3>1. DocKept(x)
      BY <1>11 DEF KeptOK
    <3>2. Fits(doc[x])'
      BY <1>1, <1>2, <1>4, <1>5, <3>1 DEF DocKept, Fits, Sending
    <3>3. \A u \in Turn : of[u] = x => doc[x][u] # "none"
      BY <1>1, <1>2, <3>1 DEF DocKept
    <3>4. QED  BY <1>1, <3>1, <3>2, <3>3 DEF DocKept
  <2>6. Existing' = Existing
    BY <1>1 DEF Existing
  <2>7. QED  BY <2>2, <2>3, <2>4, <2>5, <2>6 DEF KeptOK
<1>12. ASSUME Current PROVE Current'
  <2>1. \A u \in Turn : Coming(u)' <=> Coming(u)
    BY <1>1 DEF Coming
  <2>2. QED  BY <1>1, <1>12, <2>1 DEF Current
<1>13. QED  BY <1>10, <1>11, <1>12 DEF Keeps

(* A save whose other turns are settled loses nothing.                     *)
LEMMA Settled ==
  ASSUME Typed, KeptOK, owner[page] = open, open # Null,
         NEW u \in Turn, ~Early(hist[page], u), hist[page][u] = "answered" \/ job[u] = "none"
  PROVE  LET h == Saved(hist[page]) IN
           /\ h \in History /\ Fits(h) /\ Saved(h) = h
           /\ \A t \in Turn : of[t] = open => h[t] # "none" /\ (job[t] = "over" => h[t] = "answered")
           /\ \A t \in Turn :
                /\ h[t] = "answered" => hist[page][t] = "answered"
                /\ h[t] = "asked" => hist[page][t] \in {"asked", "blank"}
                /\ h[t] = "cut" => hist[page][t] = "cut"
<1> DEFINE h == Saved(hist[page])
<1>1. hist[page] \in History
  BY DEF Typed, TypeOK
<1>2. h \in History /\ Saved(h) = h
  BY <1>1, Unblanked, Histories
<1>3. \A t \in Turn : h[t] = IF hist[page][t] = "blank" THEN "asked" ELSE hist[page][t]
  BY <1>1, SavedTurns
<1>4. Fits(hist[page]) /\ Full(hist[page], open)
  BY DEF KeptOK, HistKept
<1> HIDE DEF h
<1>5. Fits(h)
  BY <1>3, <1>4 DEF Fits
<1>6. ASSUME NEW t \in Turn, of[t] = open
      PROVE  h[t] # "none" /\ (job[t] = "over" => h[t] = "answered")
  <2>1. hist[page][t] \in State /\ hist[page][t] # "none"
    BY <1>1, <1>4, <1>6, Histories DEF Full
  <2>2. job[t] = "over" => hist[page][t] = "answered"
    BY <1>4, <2>1 DEF Fits, Early, State
  <2>3. QED  BY <1>3, <2>1, <2>2
<1>7. \A t \in Turn :
        /\ h[t] = "answered" => hist[page][t] = "answered"
        /\ h[t] = "asked" => hist[page][t] \in {"asked", "blank"}
        /\ h[t] = "cut" => hist[page][t] = "cut"
  BY <1>3
<1>8. QED  BY <1>2, <1>5, <1>6, <1>7 DEF h

(* The document becomes what the page shows.                               *)
LEMMA PutKeeps ==
  ASSUME Typed, SteadyOK, NEW s \in sends, Put(s)
  PROVE  Keeps
<1> DEFINE n == [s EXCEPT !.step = "post", !.chat = open, !.body = Empty]
<1>1. /\ s.step = "put"
      /\ doc' = [doc EXCEPT ![s.chat] = s.body]
      /\ sends' = (sends \ {s}) \cup {n}
      /\ UNCHANGED <<of, job, named, inbox, open, prop, page, hist, owner, loading, loads, completing>>
  BY DEF Put, shown, here
<1>2. /\ sends = {s} /\ s.page = page /\ s.chat = open /\ s.chat = of[s.turn] /\ s.chat # Null
      /\ hist[page][s.turn] = "asked" /\ job[s.turn] = "none" /\ Within(s.body, s.chat)
  BY <1>1 DEF SteadyOK, WaitsOK
<1>3. loads = {} /\ owner[page] = open /\ s.body \in History /\ open \in Existing /\ open \in Chat
  BY <1>2 DEF SteadyOK, WaitsOK, PageOK, Typed, TypeOK, HandlersOK, Existing
<1>4. n.page = page /\ n.turn = s.turn /\ n.chat = open /\ n.step = "post"
  BY <1>2 DEF Typed, HandlersOK
<1>5. sends' = {n}
  BY <1>1, <1>2
<1> HIDE DEF n
<1>6. Existing' = Existing /\ doc'[open] = s.body /\ \A x \in Existing \ {open} : doc'[x] = doc[x]
  BY <1>1, <1>2, <1>3, Histories DEF Existing, Typed, TypeOK
<1>7. TurnsOK'
  <2>1. \A x \in Existing' : doc'[x] # Empty /\ \A u \in Turn : doc'[x][u] # "none" => of[u] = x
    BY <1>2, <1>6 DEF SteadyOK, TurnsOK, Within
  <2>2. Asked' = Asked
    BY <1>1 DEF Asked
  <2>3. \A u \in Turn : of[u] # Null => of[u] \in Existing
    BY <1>1, <1>2 DEF SteadyOK, TurnsOK
  <2>4. QED  BY <1>1, <1>6, <2>1, <2>2, <2>3 DEF SteadyOK, TurnsOK, Within
<1>8. PageOK'
  BY <1>1, <1>2, <1>3 DEF SteadyOK, PageOK, Within
<1>9. WaitsOK'
  <2>1. \A f \in completing :
          /\ f.page = page /\ f.chat = open /\ f.chat = owner[page] /\ f.chat # Null
          /\ f.step = "put" => f.body # Empty /\ \A u \in Turn : f.body[u] # "none" => of[u] = f.chat
    BY DEF SteadyOK, WaitsOK, Within
  <2>2. QED  BY <1>1, <1>2, <1>3, <1>4, <1>5, <2>1 DEF WaitsOK, Within
<1>10. SteadyOK'
  BY <1>7, <1>8, <1>9 DEF SteadyOK
<1>11. ASSUME KeptOK
       PROVE  /\ s.body \in History /\ Fits(s.body) /\ Saved(s.body) = s.body
              /\ \A u \in Turn : of[u] = open =>
                   s.body[u] # "none" /\ (job[u] = "over" => s.body[u] = "answered")
              /\ \A u \in Turn :
                   /\ s.body[u] = "answered" => hist[page][u] = "answered"
                   /\ s.body[u] = "asked" => hist[page][u] \in {"asked", "blank"}
                   /\ s.body[u] = "cut" => hist[page][u] = "cut"
  <2>1. s.body = Saved(hist[page]) /\ ~Early(hist[page], s.turn) /\ s.turn \in Turn
    BY <1>1, <1>11 DEF KeptOK, SavesKept, Saving, Typed, HandlersOK
  <2>2. QED  BY <1>2, <1>3, <1>11, <2>1, Settled
<1>12. ASSUME KeptOK PROVE KeptOK'
  <2>1. HistKept'
    BY <1>1, <1>2, <1>4, <1>5, <1>12 DEF KeptOK, HistKept, Fits, Full, Sending
  <2>2. LoadsKept'
    BY <1>1, <1>3 DEF LoadsKept
  <2>3. SavesKept'
    BY <1>1, <1>4, <1>5, <1>12 DEF KeptOK, SavesKept, Saving
  <2>4. ASSUME NEW x \in Existing, x = open PROVE DocKept(x)'
    <3>1. doc'[x] = s.body /\ Fits(s.body)
      BY <1>6, <1>11, <1>12, <2>4
    <3>2. Fits(doc[x])'
      BY <1>1, <1>2, <1>4, <1>5, <3>1 DEF Fits, Sending
    <3>3. QED  BY <1>1, <1>11, <1>12, <2>4, <3>1, <3>2 DEF DocKept
  <2>5. ASSUME NEW x \in Existing \ {open} PROVE DocKept(x)'
    <3>1. doc'[x] = doc[x] /\ DocKept(x)
      BY <1>6, <1>12 DEF KeptOK
    <3>2. Fits(doc[x])'
      BY <1>1, <1>2, <1>4, <1>5, <3>1 DEF DocKept, Fits, Sending
    <3>3. \A u \in Turn : of[u] = x => doc[x][u] # "none"
      BY <1>1, <1>2, <3>1 DEF DocKept
    <3>4. QED  BY <1>1, <3>1, <3>2, <3>3 DEF DocKept
  <2>6. QED  BY <1>6, <2>1, <2>2, <2>3, <2>4, <2>5 DEF KeptOK
<1>13. ASSUME KeptOK, Current PROVE Current'
  BY <1>1, <1>3, <1>6, <1>11, <1>13 DEF Current
<1>14. QED  BY <1>10, <1>12, <1>13 DEF Keeps

(* The server starts a job, or the prompt is given up.                     *)
LEMMA AcceptKeeps ==
  ASSUME Typed, SteadyOK, NEW s \in sends, Accept(s) \/ PostFails(s)
  PROVE  Keeps
<1>1. /\ s.step = "post" /\ sends' = sends \ {s}
      /\ UNCHANGED <<doc, of, inbox, open, prop, page, owner, loading, loads, completing>>
  BY DEF Accept, PostFails, server, shown, here
<1>2. /\ sends = {s} /\ s.page = page /\ s.chat = open /\ s.chat = of[s.turn] /\ s.chat # Null
      /\ hist[page][s.turn] = "asked" /\ job[s.turn] = "none"
  BY <1>1 DEF SteadyOK, WaitsOK
<1>3. /\ loads = {} /\ owner[page] = open /\ open \in Existing /\ s.turn \in Turn /\ page \in Page
      /\ sends' = {} /\ hist[page] \in History
  BY <1>1, <1>2 DEF SteadyOK, WaitsOK, PageOK, Typed, TypeOK, HandlersOK, Existing
<1>4. Existing' = Existing /\ Asked' = Asked
  BY <1>1 DEF Existing, Asked
<1>5. \A u \in Turn : of[u] # Null => of[u] \in Existing
  BY <1>1, <1>2 DEF SteadyOK, TurnsOK
<1>6. \/ UNCHANGED <<job, named>>
      \/ /\ job'[s.turn] = "running" /\ named'[s.turn] = of[s.turn]
         /\ \A u \in Turn \ {s.turn} : job'[u] = job[u] /\ named'[u] = named[u]
  BY <1>2, <1>3 DEF Accept, PostFails, server, Typed, TypeOK
<1>7. TurnsOK'
  <2>1. \A u \in Turn : job'[u] # "none" => named'[u] = of[u] /\ of[u] \in Existing
    BY <1>2, <1>3, <1>6 DEF SteadyOK, TurnsOK
  <2>2. ASSUME NEW i \in DOMAIN inbox
        PROVE  of[inbox[i][2]] = inbox[i][1] /\ job'[inbox[i][2]] = "over"
    <3>1. inbox[i] \in (Chat \cup {Null}) \X Turn
      BY DEF Typed, TypeOK
    <3>2. QED  BY <1>2, <1>6, <3>1 DEF SteadyOK, TurnsOK
  <2>3. QED  BY <1>1, <1>4, <1>5, <2>1, <2>2 DEF SteadyOK, TurnsOK, Within
<1>8. /\ hist'[page] # Empty
      /\ \A u \in Turn : hist'[page][u] # "none" => of[u] = open
  <2>1. hist[page] # Empty /\ \A u \in Turn : hist[page][u] # "none" => of[u] = open
    BY <1>2, <1>3 DEF SteadyOK, PageOK, Within
  <2>2. CASE hist' = hist
    BY <2>1, <2>2
  <2>3. CASE hist' = [hist EXCEPT ![page][s.turn] = "cut"]
    <3>1. /\ hist'[page] \in History /\ hist'[page][s.turn] = "cut"
          /\ \A u \in Turn \ {s.turn} : hist'[page][u] = hist[page][u]
      BY <1>3, <2>3 DEF Typed, TypeOK, History, State
    <3>2. QED  BY <1>2, <1>3, <2>1, <3>1, Histories
  <2>4. QED  BY <1>2, <2>2, <2>3 DEF Accept, PostFails, here
<1>9. PageOK'
  BY <1>1, <1>2, <1>3, <1>8 DEF SteadyOK, PageOK, Within
<1>10. WaitsOK'
  <2>1. \A f \in completing :
          /\ f.page = page /\ f.chat = open /\ f.chat = owner[page] /\ f.chat # Null
          /\ f.step = "put" => f.body # Empty /\ \A u \in Turn : f.body[u] # "none" => of[u] = f.chat
    BY DEF SteadyOK, WaitsOK, Within
  <2>2. QED  BY <1>1, <1>3, <2>1 DEF WaitsOK, Within
<1>11. SteadyOK'
  BY <1>7, <1>9, <1>10 DEF SteadyOK
<1>12. \A u \in Turn :
         \/ hist'[page][u] = hist[page][u] /\ (job'[u] = job[u] \/ (u = s.turn /\ job'[u] = "running"))
         \/ u = s.turn /\ hist'[page][u] = "cut" /\ job'[u] = "none"
  <2>1. CASE Accept(s)
    BY <1>3, <1>6, <2>1 DEF Accept, here
  <2>2. CASE PostFails(s)
    <3>1. hist' = [hist EXCEPT ![page][s.turn] = "cut"] /\ job' = job
      BY <1>2, <2>2 DEF PostFails, server
    <3>2. hist'[page] = [hist[page] EXCEPT ![s.turn] = "cut"]
      BY <1>3, <3>1 DEF Typed, TypeOK
    <3>3. QED  BY <1>2, <1>3, <3>1, <3>2 DEF History
  <2>3. QED  BY <2>1, <2>2
<1>13. ASSUME KeptOK PROVE KeptOK'
  <2>1. HistKept'
    <3>1. Fits(hist[page]) /\ Full(hist[page], open)
      BY <1>2, <1>3, <1>13 DEF KeptOK, HistKept
    <3>2. Fits(hist[page])'
      BY <1>1, <1>2, <1>3, <1>12, <3>1 DEF Fits, Sending
    <3>3. Full(hist[page], open)'
      BY <1>1, <1>12, <3>1 DEF Full
    <3>4. QED  BY <1>1, <1>3, <3>2, <3>3 DEF HistKept
  <2>2. LoadsKept'
    BY <1>1, <1>3 DEF LoadsKept
  <2>3. SavesKept'
    <3>1. \A f \in completing : f.step # "put" /\ f.turn \in Turn /\ hist[page][f.turn] = "answered"
      BY <1>2, <1>3, <1>13 DEF KeptOK, SavesKept, Saving, Early, Typed, HandlersOK
    <3>2. \A f \in completing : hist'[page][f.turn] = "answered"
      BY <1>2, <1>12, <3>1
    <3>3. QED  BY <1>1, <1>3, <3>1, <3>2 DEF SavesKept, Saving
  <2>4. ASSUME NEW x \in Existing PROVE DocKept(x)'
    <3>1. DocKept(x)
      BY <1>13 DEF KeptOK
    <3>2. Fits(doc[x])'
      BY <1>1, <1>2, <1>3, <1>12, <3>1 DEF DocKept, Fits, Sending
    <3>3. \A u \in Turn : of[u] = x => doc[x][u] # "none"
      BY <1>1, <1>2, <3>1 DEF DocKept
    <3>4. QED  BY <1>1, <1>12, <3>1, <3>2, <3>3 DEF DocKept
  <2>5. QED  BY <1>4, <2>1, <2>2, <2>3, <2>4 DEF KeptOK
<1>14. ASSUME KeptOK, Current PROVE Current'
  <2>1. \A u \in Turn : Coming(u)' <=> Coming(u)
    BY <1>1 DEF Coming
  <2>2. doc[open][s.turn] # "answered"
    BY <1>2, <1>3, <1>14 DEF KeptOK, DocKept, Fits
  <2>3. QED  BY <1>1, <1>2, <1>3, <1>12, <1>14, <2>1, <2>2 DEF Current
<1>15. QED  BY <1>11, <1>13, <1>14 DEF Keeps

-----------------------------------------------------------------------------
(* Answers.                                                                *)

(* The queue of events, as it grows and as it is read.                     *)
LEMMA Events ==
  ASSUME Typed
  PROVE  /\ \A c \in Chat \cup {Null}, t \in Turn : \A i \in DOMAIN Append(inbox, <<c, t>>) :
              \/ i \in DOMAIN inbox /\ Append(inbox, <<c, t>>)[i] = inbox[i]
              \/ Append(inbox, <<c, t>>)[i] = <<c, t>>
         /\ inbox # <<>> =>
              /\ 1 \in DOMAIN inbox /\ Head(inbox) = inbox[1]
              /\ \A i \in DOMAIN Tail(inbox) : i + 1 \in DOMAIN inbox /\ Tail(inbox)[i] = inbox[i + 1]
<1>1. inbox \in Seq((Chat \cup {Null}) \X Turn)
  BY DEF Typed, TypeOK
<1>2. QED  BY <1>1

(* An event joins those on their way, or leaves them.                      *)
LEMMA EventsOnTheirWay ==
  ASSUME Typed
  PROVE  /\ \A c \in Chat \cup {Null}, t \in Turn :
              ToSet(Append(inbox, <<c, t>>)) = ToSet(inbox) \cup {<<c, t>>}
         /\ inbox # <<>> => ToSet(inbox) \subseteq ToSet(Tail(inbox)) \cup {Head(inbox)}
<1>1. inbox \in Seq((Chat \cup {Null}) \X Turn)
  BY DEF Typed, TypeOK
<1>2. ASSUME NEW c \in Chat \cup {Null}, NEW t \in Turn
      PROVE  ToSet(Append(inbox, <<c, t>>)) = ToSet(inbox) \cup {<<c, t>>}
  <2> DEFINE q == Append(inbox, <<c, t>>)
  <2>1. /\ DOMAIN inbox = 1 .. Len(inbox) /\ DOMAIN q = 1 .. Len(inbox) + 1 /\ Len(inbox) \in Nat
        /\ \A i \in 1 .. Len(inbox) : q[i] = inbox[i]
        /\ q[Len(inbox) + 1] = <<c, t>>
    BY <1>1
  <2> HIDE DEF q
  <2>2. QED  BY <2>1 DEF ToSet, q
<1>3. ASSUME inbox # <<>>
      PROVE  ToSet(inbox) \subseteq ToSet(Tail(inbox)) \cup {Head(inbox)}
  <2> DEFINE q == Tail(inbox)
  <2>1. /\ DOMAIN inbox = 1 .. Len(inbox) /\ Len(inbox) \in Nat /\ Len(inbox) > 0
        /\ DOMAIN q = 1 .. Len(inbox) - 1 /\ Head(inbox) = inbox[1]
        /\ \A i \in 1 .. Len(inbox) - 1 : q[i] = inbox[i + 1]
    BY <1>1, <1>3
  <2> HIDE DEF q
  <2>2. ASSUME NEW i \in DOMAIN inbox
        PROVE  inbox[i] = Head(inbox) \/ \E j \in DOMAIN q : q[j] = inbox[i]
    <3>1. CASE i = 1
      BY <2>1, <3>1
    <3>2. CASE i # 1
      <4>1. i - 1 \in DOMAIN q /\ q[i - 1] = inbox[i]
        BY <2>1, <3>2
      <4>2. QED  BY <4>1
    <3>3. QED  BY <3>1, <3>2
  <2>3. QED  BY <2>2 DEF ToSet, q
<1>4. QED  BY <1>2, <1>3

(* The server puts an answer below its prompt, and an event in the queue.  *)
LEMMA AnswerKeeps ==
  ASSUME Typed, SteadyOK, NEW t \in Turn, AnswerSaved(t)
  PROVE  Keeps
<1> DEFINE c == named[t]
           x == IF doc[c][t] \in {"none", "orphan"} THEN "orphan" ELSE "answered"
           h == [doc[c] EXCEPT ![t] = x]
<1>1. /\ job[t] = "running" /\ job' = [job EXCEPT ![t] = "over"]
      /\ doc' = IF c = Null THEN doc ELSE [doc EXCEPT ![c] = h]
      /\ inbox' = Append(inbox, <<c, t>>)
      /\ UNCHANGED <<named, of, open, prop, page, hist, owner, loading, loads, sends, completing>>
  BY DEF AnswerSaved, shown, here, handlers
<1>2. c = of[t] /\ c \in Existing /\ c \in Chat /\ c # Null /\ doc[c] \in History
  BY <1>1 DEF SteadyOK, TurnsOK, Typed, TypeOK, Existing
<1>3. /\ h \in History /\ h[t] = x /\ h[t] # "none" /\ \A u \in Turn \ {t} : h[u] = doc[c][u]
  BY <1>2 DEF History, State
<1>4. h # Empty /\ h # Null
  BY <1>3, Histories
<1> HIDE DEF h, c
<1>5. Existing' = Existing /\ doc'[c] = h /\ \A y \in Existing \ {c} : doc'[y] = doc[y]
  BY <1>1, <1>2, <1>4 DEF Existing, Typed, TypeOK
<1>6. job'[t] = "over" /\ \A u \in Turn \ {t} : job'[u] = job[u]
  BY <1>1 DEF Typed, TypeOK
<1>7. TurnsOK'
  <2>1. \A y \in Existing' : doc'[y] # Empty /\ \A u \in Turn : doc'[y][u] # "none" => of[u] = y
    BY <1>2, <1>3, <1>4, <1>5 DEF SteadyOK, TurnsOK, Within
  <2>2. Asked' = Asked
    BY <1>1 DEF Asked
  <2>3. \A u \in Turn : job'[u] # "none" => named[u] = of[u] /\ of[u] \in Existing
    BY <1>2, <1>6 DEF SteadyOK, TurnsOK, c
  <2>4. ASSUME NEW i \in DOMAIN inbox'
        PROVE  of[inbox'[i][2]] = inbox'[i][1] /\ job'[inbox'[i][2]] = "over"
    <3>1. CASE inbox'[i] = <<c, t>>
      BY <1>2, <1>6, <3>1
    <3>2. CASE i \in DOMAIN inbox /\ inbox'[i] = inbox[i]
      <4>1. inbox[i] \in (Chat \cup {Null}) \X Turn
        BY <3>2 DEF Typed, TypeOK
      <4>2. QED  BY <1>6, <3>2, <4>1 DEF SteadyOK, TurnsOK
    <3>3. QED  BY <1>1, <1>2, <3>1, <3>2, Events
  <2>5. QED  BY <1>1, <1>5, <2>1, <2>2, <2>3, <2>4 DEF SteadyOK, TurnsOK, Within
<1>8. PageOK'
  BY <1>1 DEF SteadyOK, PageOK, Within
<1>9. WaitsOK'
  <2>1. \A s \in sends : s.turn \in Turn /\ s.turn # t
    BY <1>1 DEF SteadyOK, WaitsOK, Typed, HandlersOK
  <2>2. QED  BY <1>1, <1>5, <1>6, <2>1 DEF SteadyOK, WaitsOK, Within
<1>10. SteadyOK'
  BY <1>7, <1>8, <1>9 DEF SteadyOK
<1>11. Coming(t)' /\ \A u \in Turn : Coming(u) => Coming(u)'
  <2>1. ToSet(inbox') = ToSet(inbox) \cup {<<c, t>>}
    BY <1>1, <1>2, EventsOnTheirWay
  <2>2. QED  BY <1>1, <1>2, <2>1 DEF Coming
<1>12. ASSUME KeptOK
       PROVE  doc[c][t] = "asked" /\ h[t] = "answered"
  <2>1. DocKept(c)
    BY <1>2, <1>12 DEF KeptOK
  <2>2. doc[c][t] \notin {"none", "orphan", "answered", "cut"}
    <3>1. \A s \in sends : s.turn # t
      BY <1>1 DEF SteadyOK, WaitsOK
    <3>2. QED  BY <1>1, <1>2, <2>1, <3>1 DEF DocKept, Fits
  <2>3. doc[c][t] # "blank" /\ doc[c][t] \in State
    BY <1>2, <2>1, Unblanked, Histories DEF DocKept
  <2>4. QED  BY <1>3, <2>2, <2>3 DEF State
<1>13. \A g : Fits(g) => \A u \in Turn :
         /\ g[u] # "orphan" /\ (g[u] = "answered" => job'[u] = "over")
         /\ g[u] = "cut" => job'[u] = "none" /\ ~Sending(u)
  BY <1>1, <1>6 DEF Fits
<1>14. \A u \in Turn : Sending(u)' <=> Sending(u)
  BY <1>1 DEF Sending
<1>15. ASSUME KeptOK PROVE KeptOK'
  <2>1. HistKept'
    BY <1>1, <1>13, <1>14, <1>15 DEF KeptOK, HistKept, Fits, Full
  <2>2. LoadsKept'
    BY <1>1, <1>13, <1>14, <1>15 DEF KeptOK, LoadsKept, Fits, Full
  <2>3. SavesKept'
    BY <1>1, <1>15 DEF KeptOK, SavesKept, Saving
  <2>4. ASSUME NEW y \in Existing, y = c PROVE DocKept(y)'
    <3>1. doc'[y] = h /\ DocKept(y) /\ y # Null /\ doc[y] \in History
      BY <1>2, <1>5, <1>15, <2>4 DEF KeptOK
    <3>2. Saved(h) = h
      BY <1>2, <1>3, <1>12, <1>15, <2>4, <3>1, Unblanked DEF DocKept
    <3>3. Fits(doc[y])'
      BY <1>1, <1>3, <1>6, <1>12, <1>13, <1>14, <1>15, <2>4, <3>1 DEF DocKept, Fits
    <3>4. \A u \in Turn : of[u] = y =>
            /\ h[u] = "none" => \E s \in sends : s.step = "put" /\ s.turn = u
            /\ job'[u] = "over" => h[u] = "answered"
      BY <1>3, <1>6, <1>12, <1>15, <2>4, <3>1 DEF DocKept
    <3>5. QED  BY <1>1, <3>1, <3>2, <3>3, <3>4 DEF DocKept
  <2>5. ASSUME NEW y \in Existing \ {c} PROVE DocKept(y)'
    <3>1. doc'[y] = doc[y] /\ DocKept(y)
      BY <1>5, <1>15 DEF KeptOK
    <3>2. Fits(doc[y])'
      BY <1>13, <1>14, <3>1 DEF DocKept, Fits
    <3>3. \A u \in Turn : of[u] = y => u # t
      BY <1>2
    <3>4. QED  BY <1>1, <1>6, <3>1, <3>2, <3>3 DEF DocKept
  <2>6. QED  BY <1>5, <2>1, <2>2, <2>3, <2>4, <2>5 DEF KeptOK
<1>16. ASSUME KeptOK, Current PROVE Current'
  <2>1. \A y \in Existing, u \in Turn :
          \/ doc'[y][u] = doc[y][u]
          \/ y = c /\ u = t /\ doc'[y][u] = "answered" /\ doc[y][u] = "asked"
    BY <1>2, <1>3, <1>5, <1>12, <1>16
  <2>2. hist[page][t] # "cut"
    BY <1>1, <1>16 DEF KeptOK, HistKept, Fits
  <2>3. ASSUME NEW u \in Turn, owner[page] = open, open # Null
        PROVE  LET a == hist[page][u] IN
                 /\ doc'[open][u] = "answered" => a = "answered" \/ (a \in {"asked", "blank"} /\ Coming(u)')
                 /\ doc'[open][u] = "asked" => a \in {"asked", "blank", "cut"}
                 /\ doc'[open][u] = "cut" => a = "cut"
    <3>1. open \in Existing
      BY <2>3 DEF Typed, HandlersOK
    <3>2. QED  BY <1>11, <1>16, <2>1, <2>2, <2>3, <3>1 DEF Current
  <2>4. ASSUME NEW l \in loads, l.step = "read", NEW u \in Turn
        PROVE  \/ l.got[u] = doc'[l.chat][u]
               \/ l.got[u] = "asked" /\ doc'[l.chat][u] = "answered" /\ Coming(u)'
    <3>1. l.chat \in Existing
      BY DEF Typed, HandlersOK
    <3>2. QED  BY <1>11, <1>16, <2>1, <2>4, <3>1 DEF Current
  <2>5. QED  BY <1>1, <2>3, <2>4 DEF Current
<1>17. QED  BY <1>10, <1>15, <1>16 DEF Keeps

(* An event is of a turn of its chat, and the server has its answer.       *)
LEMMA EventOfPage ==
  ASSUME Typed, SteadyOK, inbox # <<>>
  PROVE  LET c == Head(inbox)[1]
             t == Head(inbox)[2]
         IN  /\ t \in Turn /\ c = of[t] /\ c \in Existing /\ c # Null /\ job[t] = "over"
             /\ \A s \in sends : s.turn # t
             /\ Heard(c, t) => owner[page] = c /\ open = c
<1> DEFINE c == Head(inbox)[1]
           t == Head(inbox)[2]
<1>1. t \in Turn /\ c = of[t] /\ job[t] = "over"
  BY TakeEvent, Events DEF SteadyOK, TurnsOK
<1>2. c \in Existing /\ c # Null
  BY <1>1 DEF SteadyOK, TurnsOK, Typed, TypeOK, Existing
<1>3. \A s \in sends : s.turn # t
  BY <1>1 DEF SteadyOK, WaitsOK
<1>4. Heard(c, t) => owner[page] = c /\ open = c
  BY <1>1, <1>3 DEF Heard, SteadyOK, PageOK, Within
<1>5. QED  BY <1>1, <1>2, <1>3, <1>4

(* The page learns of an answer, or the event is of another chat.          *)
LEMMA EventKeeps ==
  ASSUME Typed, SteadyOK, Event
  PROVE  Keeps
<1> DEFINE c == Head(inbox)[1]
           t == Head(inbox)[2]
           f == [page |-> page, turn |-> t, chat |-> c, step |-> "post", chain |-> Chain(t), body |-> Empty]
           h == [hist[page] EXCEPT ![t] = "answered"]
<1>1. /\ inbox # <<>> /\ inbox' = Tail(inbox)
      /\ \/ Heard(c, t) /\ hist' = [hist EXCEPT ![page] = h] /\ completing' = completing \cup {f}
         \/ ~Heard(c, t) /\ hist' = hist /\ completing' = completing
      /\ UNCHANGED <<doc, job, named, of, open, prop, page, owner, loading, loads, sends>>
  BY DEF Event, server, shown
<1>2. /\ t \in Turn /\ c = of[t] /\ c # Null /\ c \in Existing /\ job[t] = "over"
      /\ \A s \in sends : s.turn # t
      /\ Heard(c, t) => owner[page] = c /\ open = c
  BY <1>1, EventOfPage
<1>3. f.page = page /\ f.chat = c /\ f.step = "post" /\ f.turn = t
  OBVIOUS
<1>4. page \in Page /\ hist[page] \in History
  BY DEF Typed, TypeOK
<1>5. h \in History /\ h[t] = "answered" /\ \A u \in Turn \ {t} : h[u] = hist[page][u]
  BY <1>2, <1>4 DEF History, State
<1>6. h # Empty
  BY <1>2, <1>5, Histories
<1>7. Heard(c, t) => \A u \in Turn : h[u] # "none" => hist[page][u] # "none"
  BY <1>5 DEF Heard
<1>8. hist'[page] = IF Heard(c, t) THEN h ELSE hist[page]
  BY <1>1, <1>4 DEF Typed, TypeOK
<1>9. h[t] = hist[page][t] => h = hist[page]
  BY <1>2, <1>4 DEF History
<1>10. risks' = {} => Heard(c, t) \/ ~Missed(c)
  BY DEF Event
<1>11. \A u \in Turn : Coming(u) => u = t \/ Coming(u)'
  <2>1. Head(inbox) = <<c, t>>
    BY <1>1, TakeEvent, Events
  <2>2. ToSet(inbox) \subseteq ToSet(Tail(inbox)) \cup {Head(inbox)}
    BY <1>1, EventsOnTheirWay
  <2>3. QED  BY <1>1, <2>1, <2>2 DEF Coming
<1> HIDE DEF f, h, c, t
<1>12. TurnsOK'
  <2>1. Asked' = Asked /\ Existing' = Existing
    BY <1>1 DEF Asked, Existing
  <2>2. \A i \in DOMAIN inbox' : i + 1 \in DOMAIN inbox /\ inbox'[i] = inbox[i + 1]
    BY <1>1, Events
  <2>3. QED  BY <1>1, <2>1, <2>2 DEF SteadyOK, TurnsOK, Within
<1>13. PageOK'
  <2>1. owner[page] # Null =>
          hist'[page] # Empty /\ \A u \in Turn : hist'[page][u] # "none" => of[u] = owner[page]
    BY <1>6, <1>7, <1>8 DEF SteadyOK, PageOK, Within
  <2>2. owner[page] = Null => hist'[page] = hist[page]
    BY <1>2, <1>8
  <2>3. QED  BY <1>1, <2>1, <2>2 DEF SteadyOK, PageOK, Within
<1>14. WaitsOK'
  <2>1. Existing' = Existing
    BY <1>1 DEF Existing
  <2>2. \A l \in loads :
          /\ loads = {l} /\ sends = {} /\ l.page = page /\ l.chat = open
          /\ owner[page] = open <=> l.step = "shown"
          /\ l.step = "read" => l.got # Empty /\ \A u \in Turn : l.got[u] # "none" => of[u] = l.chat
    BY DEF SteadyOK, WaitsOK, Within
  <2>3. ASSUME NEW s \in sends
        PROVE  hist'[page][s.turn] = "asked"
    <3>1. s.turn \in Turn /\ hist[page][s.turn] = "asked"
      BY DEF SteadyOK, WaitsOK, Typed, HandlersOK
    <3>2. QED  BY <1>2, <1>5, <1>8, <3>1
  <2>4. ASSUME NEW s \in sends
        PROVE  /\ sends = {s} /\ s.page = page /\ s.chat = of[s.turn] /\ s.chat # Null
               /\ job[s.turn] = "none"
               /\ s.step = "create" => owner[page] = Null /\ s.chat \notin Existing /\ completing' = {}
               /\ s.step # "create" => s.chat = open
               /\ s.step = "put" => s.body # Empty /\ \A u \in Turn : s.body[u] # "none" => of[u] = s.chat
    BY <1>1, <1>2 DEF SteadyOK, WaitsOK, Within
  <2>5. ASSUME NEW e \in completing'
        PROVE  /\ e.page = page /\ e.chat = open /\ e.chat = owner[page] /\ e.chat # Null
               /\ e.step = "put" => e.body # Empty /\ \A u \in Turn : e.body[u] # "none" => of[u] = e.chat
    BY <1>1, <1>2, <1>3 DEF SteadyOK, WaitsOK, Within
  <2>6. QED  BY <1>1, <2>1, <2>2, <2>3, <2>4, <2>5 DEF WaitsOK, Within
<1>15. SteadyOK'
  BY <1>12, <1>13, <1>14 DEF SteadyOK
<1>16. ASSUME KeptOK
       PROVE  /\ doc[c][t] = "answered"
              /\ owner[page] = c => hist[page][t] \notin {"none", "cut", "orphan"}
  BY <1>2, <1>16 DEF KeptOK, HistKept, DocKept, Full, Fits
<1>17. ASSUME KeptOK, NEW w \in sends \cup completing, w.step = "put", Heard(c, t)
       PROVE  hist'[page] = hist[page]
  <2>1. Saving(w) /\ w.turn \in Turn /\ (w.turn = t => hist[page][t] = "answered")
    BY <1>2, <1>17 DEF KeptOK, SavesKept, Typed, HandlersOK
  <2>2. hist[page][t] \in State \ {"none", "cut", "orphan"}
    BY <1>2, <1>4, <1>16, <1>17, Histories
  <2>3. hist[page][t] = "answered"
    BY <1>2, <1>17, <2>1, <2>2 DEF Saving, Early, State
  <2>4. QED  BY <1>5, <1>8, <1>9, <2>3
<1>18. \A u \in Turn : hist'[page][u] = hist[page][u] \/ (u = t /\ Heard(c, t) /\ hist'[page][u] = "answered")
  BY <1>5, <1>8
<1>19. Heard(c, t) => hist'[page][t] = "answered"
  BY <1>5, <1>8
<1>20. ASSUME KeptOK PROVE KeptOK'
  <2>1. HistKept'
    <3>1. Fits(hist[page])'
      BY <1>1, <1>2, <1>18, <1>20 DEF KeptOK, HistKept, Fits, Sending
    <3>2. owner[page] # Null => \A u \in Turn : of[u] = owner[page] => hist'[page][u] # "none"
      BY <1>18, <1>20 DEF KeptOK, HistKept, Full
    <3>3. QED  BY <1>1, <3>1, <3>2 DEF HistKept, Full
  <2>2. LoadsKept'
    BY <1>1, <1>20 DEF KeptOK, LoadsKept, Fits, Full, Sending
  <2>3. SavesKept'
    <3>1. \A w \in sends \cup completing : w.step = "put" => hist'[page] = hist[page]
      BY <1>8, <1>17, <1>20
    <3>2. \A w \in completing : w.turn \in Turn /\ hist'[page][w.turn] = "answered"
      BY <1>18, <1>20 DEF KeptOK, SavesKept, Typed, HandlersOK
    <3>3. \A w \in completing' : w \in completing \/ (w = f /\ Heard(c, t))
      BY <1>1
    <3>4. \A w \in sends \cup completing : Saving(w)
      BY <1>20 DEF KeptOK, SavesKept
    <3>5. \A w \in sends \cup completing' :
            w.step = "put" => w.body = Saved(hist'[page]) /\ ~Early(hist'[page], w.turn)
      BY <1>3, <3>1, <3>3, <3>4 DEF Saving
    <3>6. \A w \in completing' : hist'[page][w.turn] = "answered"
      BY <1>3, <1>19, <3>2, <3>3
    <3>7. QED  BY <1>1, <3>5, <3>6 DEF SavesKept, Saving
  <2>4. \A x \in Existing' : DocKept(x)'
    BY <1>1, <1>20 DEF KeptOK, DocKept, Existing, Fits, Sending
  <2>5. QED  BY <2>1, <2>2, <2>3, <2>4 DEF KeptOK
<1>21. ASSUME risks' = {}, KeptOK, Current PROVE Current'
  <2>1. ASSUME NEW u \in Turn, owner[page] = open, open # Null
        PROVE  LET a == hist'[page][u] IN
                 /\ doc[open][u] = "answered" => a = "answered" \/ (a \in {"asked", "blank"} /\ Coming(u)')
                 /\ doc[open][u] = "asked" => a \in {"asked", "blank", "cut"}
                 /\ doc[open][u] = "cut" => a = "cut"
    <3>1. CASE u # t
      BY <1>11, <1>18, <1>21, <2>1, <3>1 DEF Current
    <3>2. CASE u = t /\ Heard(c, t)
      BY <1>2, <1>16, <1>19, <1>21, <3>2
    <3>3. CASE u = t /\ ~Heard(c, t)
      <4>1. open # c /\ hist'[page][t] = hist[page][t]
        BY <1>2, <1>8, <1>16, <1>21, <2>1, <3>3 DEF Heard
      <4>2. hist[page][t] = "none"
        BY <1>2, <2>1, <4>1 DEF SteadyOK, PageOK, Within
      <4>3. QED  BY <1>21, <2>1, <3>3, <4>1, <4>2 DEF Current
    <3>4. QED  BY <3>1, <3>2, <3>3
  <2>2. ASSUME NEW l \in loads, l.step = "read", NEW u \in Turn
        PROVE  \/ l.got[u] = doc[l.chat][u]
               \/ l.got[u] = "asked" /\ doc[l.chat][u] = "answered" /\ Coming(u)'
    <3>1. /\ Within(l.got, l.chat) /\ l.chat = open /\ owner[page] # open
      BY <2>2, Loading
    <3>2. ~Heard(c, t) /\ l.chat # c
      BY <1>2, <1>10, <1>21, <2>2, <3>1 DEF Missed
    <3>3. u = t => l.got[u] # "asked"
      BY <1>2, <3>1, <3>2 DEF Within
    <3>4. QED  BY <1>11, <1>21, <2>2, <3>3 DEF Current
  <2>3. QED  BY <1>1, <2>1, <2>2 DEF Current
<1>22. QED  BY <1>15, <1>20, <1>21 DEF Keeps

(* An answer that is being completed is of the open chat.                  *)
LEMMA Completing ==
  ASSUME Typed, SteadyOK, NEW f \in completing
  PROVE  /\ f.page = page /\ f.chat = open /\ f.chat = owner[page] /\ f.chat # Null
         /\ f.step = "put" => Within(f.body, f.chat)
         /\ open \in Existing /\ f.turn \in Turn /\ f.body \in History /\ hist[page] \in History
         /\ f \in [page : Page, turn : Turn, chat : Chat \cup {Null}, step : {"post", "put"},
                   chain : SUBSET Turn, body : History]
<1>1. /\ f.page = page /\ f.chat = open /\ f.chat = owner[page] /\ f.chat # Null
      /\ f.step = "put" => Within(f.body, f.chat)
  BY DEF SteadyOK, WaitsOK
<1>2. QED  BY <1>1 DEF Typed, TypeOK, HandlersOK

(* After the filters, the history is about to be saved.                    *)
LEMMA CompletedKeeps ==
  ASSUME Typed, SteadyOK, NEW f \in completing, NEW ok \in BOOLEAN, Completed(f, ok)
  PROVE  Keeps
<1> DEFINE n == [f EXCEPT !.step = "put", !.body = Saved(hist[f.page])]
<1>1. /\ \/ completing' = completing \ {f}
         \/ /\ completing' = (completing \ {f}) \cup {n}
            /\ Early(hist[f.page], f.turn) => "early" \in risks'
      /\ UNCHANGED <<doc, job, named, of, inbox, open, prop, page, hist, owner, loading, loads, sends>>
  BY DEF Completed, Risk, server, shown, here
<1>2. f.page = page /\ f.chat = open /\ owner[page] = open /\ open # Null /\ hist[page] \in History
  BY Completing
<1>3. n.page = page /\ n.chat = open /\ n.turn = f.turn /\ n.body = Saved(hist[page])
  BY <1>2, Completing
<1>4. n.body # Empty /\ \A u \in Turn : n.body[u] # "none" => of[u] = open
  <2>1. Within(hist[page], open)
    BY <1>2 DEF SteadyOK, PageOK
  <2>2. QED  BY <1>2, <1>3, <2>1, SavedTurns DEF Within
<1> HIDE DEF n
<1>5. TurnsOK'
  BY <1>1, TurnsKept DEF SteadyOK
<1>6. PageOK'
  BY <1>1 DEF SteadyOK, PageOK, Within
<1>7. WaitsOK'
  <2>1. ASSUME NEW e \in completing'
        PROVE  /\ e.page = page /\ e.chat = open /\ e.chat = owner[page] /\ e.chat # Null
               /\ e.step = "put" =>
                    e.body # Empty /\ \A u \in Turn : e.body[u] # "none" => of[u] = e.chat
    BY <1>1, <1>2, <1>3, <1>4 DEF SteadyOK, WaitsOK, Within
  <2>2. \A s \in sends : s.step # "create"
    BY DEF SteadyOK, WaitsOK
  <2>3. Existing' = Existing
    BY <1>1 DEF Existing
  <2>4. QED  BY <1>1, <2>1, <2>2, <2>3 DEF SteadyOK, WaitsOK, Within
<1>8. SteadyOK'
  BY <1>5, <1>6, <1>7 DEF SteadyOK
<1>9. ASSUME Calm', KeptOK PROVE KeptOK'
  <2>1. HistKept'
    BY <1>1, <1>9 DEF KeptOK, HistKept, Fits, Full, Sending
  <2>2. LoadsKept'
    BY <1>1, <1>9 DEF KeptOK, LoadsKept, Fits, Full, Sending
  <2>3. SavesKept'
    <3>1. /\ \A s \in sends : Saving(s)
          /\ \A e \in completing : Saving(e) /\ hist[page][e.turn] = "answered"
      BY <1>9 DEF KeptOK, SavesKept
    <3>2. n \in completing' => n \in completing \/ ~Early(hist[page], f.turn)
      BY <1>1, <1>2, <1>9 DEF Calm
    <3>3. \A e \in completing' : e \in completing \/ (e = n /\ ~Early(hist[page], f.turn))
      BY <1>1, <3>2
    <3>4. \A e \in completing' :
            /\ e.step = "put" => e.body = Saved(hist[page]) /\ ~Early(hist[page], e.turn)
            /\ hist[page][e.turn] = "answered"
      BY <1>3, <3>1, <3>3 DEF Saving
    <3>5. QED  BY <1>1, <3>1, <3>4 DEF SavesKept, Saving
  <2>4. \A x \in Existing' : DocKept(x)'
    BY <1>1, <1>9 DEF KeptOK, DocKept, Existing, Fits, Sending
  <2>5. QED  BY <2>1, <2>2, <2>3, <2>4 DEF KeptOK
<1>10. ASSUME Current PROVE Current'
  <2>1. \A u \in Turn : Coming(u)' <=> Coming(u)
    BY <1>1 DEF Coming
  <2>2. QED  BY <1>1, <1>10, <2>1 DEF Current
<1>11. QED  BY <1>8, <1>9, <1>10 DEF Keeps

(* The document becomes what the page shows, with the answer.              *)
LEMMA CompletedSavedKeeps ==
  ASSUME Typed, SteadyOK, NEW f \in completing, CompletedSaved(f)
  PROVE  Keeps
<1>1. /\ f.step = "put"
      /\ doc' = [doc EXCEPT ![f.chat] = f.body]
      /\ completing' = completing \ {f}
      /\ UNCHANGED <<job, named, of, inbox, open, prop, page, hist, owner, loading, loads, sends>>
  BY DEF CompletedSaved, shown, here
<1>2. /\ f.chat = open /\ owner[page] = open /\ open # Null /\ open \in Existing
      /\ f.body \in History /\ Within(f.body, open)
  BY <1>1, Completing
<1>3. Existing' = Existing /\ doc'[open] = f.body /\ \A x \in Existing \ {open} : doc'[x] = doc[x]
  BY <1>1, <1>2, Histories DEF Existing, Typed, TypeOK
<1>4. TurnsOK'
  <2>1. \A x \in Existing' : doc'[x] # Empty /\ \A u \in Turn : doc'[x][u] # "none" => of[u] = x
    BY <1>2, <1>3 DEF SteadyOK, TurnsOK, Within
  <2>2. Asked' = Asked
    BY <1>1 DEF Asked
  <2>3. QED  BY <1>1, <1>3, <2>1, <2>2 DEF SteadyOK, TurnsOK, Within
<1>5. PageOK'
  BY <1>1 DEF SteadyOK, PageOK, Within
<1>6. WaitsOK'
  BY <1>1, <1>3 DEF SteadyOK, WaitsOK, Within
<1>7. SteadyOK'
  BY <1>4, <1>5, <1>6 DEF SteadyOK
<1>8. ASSUME KeptOK
       PROVE  /\ Fits(f.body) /\ Saved(f.body) = f.body
              /\ \A u \in Turn : of[u] = open =>
                   f.body[u] # "none" /\ (job[u] = "over" => f.body[u] = "answered")
              /\ \A u \in Turn :
                   /\ f.body[u] = "answered" => hist[page][u] = "answered"
                   /\ f.body[u] = "asked" => hist[page][u] \in {"asked", "blank"}
                   /\ f.body[u] = "cut" => hist[page][u] = "cut"
  <2>1. /\ f.body = Saved(hist[page]) /\ ~Early(hist[page], f.turn) /\ f.turn \in Turn
        /\ hist[page][f.turn] = "answered"
    BY <1>1, <1>8, Completing DEF KeptOK, SavesKept, Saving
  <2>2. QED  BY <1>2, <1>8, <2>1, Settled
<1>9. ASSUME KeptOK PROVE KeptOK'
  <2>1. HistKept'
    BY <1>1, <1>9 DEF KeptOK, HistKept, Fits, Full, Sending
  <2>2. LoadsKept'
    BY <1>1, <1>9 DEF KeptOK, LoadsKept, Fits, Full, Sending
  <2>3. SavesKept'
    BY <1>1, <1>9 DEF KeptOK, SavesKept, Saving
  <2>4. ASSUME NEW x \in Existing PROVE DocKept(x)'
    <3>1. DocKept(x)
      BY <1>9 DEF KeptOK
    <3>2. CASE x = open
      BY <1>1, <1>3, <1>8, <1>9, <3>2 DEF DocKept, Fits, Sending
    <3>3. CASE x # open
      BY <1>1, <1>3, <3>1, <3>3 DEF DocKept, Fits, Sending
    <3>4. QED  BY <3>2, <3>3
  <2>5. QED  BY <1>3, <2>1, <2>2, <2>3, <2>4 DEF KeptOK
<1>10. ASSUME KeptOK, Current PROVE Current'
  <2>1. loads # {} => \A l \in loads : l.step # "read"
    BY <1>2, Loading
  <2>2. QED  BY <1>1, <1>3, <1>8, <1>10, <2>1 DEF Current
<1>11. QED  BY <1>7, <1>9, <1>10 DEF Keeps

(* At first there is one chat, with one answer.                            *)
LEMMA InitKept == Init => SteadyOK /\ KeptOK /\ Current
<1> SUFFICES ASSUME Init PROVE SteadyOK /\ KeptOK /\ Current
  OBVIOUS
<1> DEFINE old == [Empty EXCEPT ![1] = "answered"]
<1>1. PICK c \in Chat, started \in BOOLEAN :
         /\ doc = [x \in Chat |-> IF x = c THEN old ELSE Null]
         /\ of = [t \in Turn |-> IF t = 1 THEN c ELSE Null]
         /\ prop = IF started THEN c ELSE Null
         /\ open = prop
         /\ hist = [g \in Page |-> IF started /\ g = 1 THEN old ELSE Empty]
         /\ owner = [g \in Page |-> IF started /\ g = 1 THEN c ELSE Null]
  BY DEF Init
<1>2. /\ job = [t \in Turn |-> IF t = 1 THEN "over" ELSE "none"]
      /\ named = of /\ inbox = <<>> /\ page = 1 /\ 1 \in Page
      /\ loads = {} /\ sends = {} /\ completing = {}
  BY DEF Init, Page
<1>3. /\ old \in History /\ old # Null /\ c # Null
      /\ \A t \in Turn : old[t] = IF t = 1 THEN "answered" ELSE "none"
  <2>1. Empty \in History
    BY Histories
  <2>2. old \in History
    BY <2>1 DEF History, State
  <2>3. \A t \in Turn : old[t] = IF t = 1 THEN "answered" ELSE Empty[t]
    BY <2>1 DEF History
  <2>4. QED  BY <2>2, <2>3, Histories
<1>4. \A x \in Chat : doc[x] # Null <=> x = c
  BY <1>1, <1>3
<1>5. c \in Existing /\ doc[c] = old /\ \A x \in Existing : x = c
  BY <1>1, <1>4 DEF Existing
<1>6. 1 \in Turn /\ old # Empty /\ old[1] = "answered"
  BY <1>3, Histories DEF Turn
<1> HIDE DEF old
<1>7. TurnsOK
  <2>1. {t \in Turn : of[t] # Null} = {1}
    BY <1>1, <1>3, <1>6
  <2>2. Asked = 1
    BY <2>1, FS_Singleton DEF Asked
  <2>3. \A t \in Turn : of[t] # Null <=> t <= Asked
    BY <1>1, <1>3, <2>2 DEF Turn
  <2>4. \A x \in Existing : Within(doc[x], x)
    BY <1>1, <1>3, <1>5, <1>6 DEF Within
  <2>5. \A t \in Turn :
          /\ job[t] # "none" => named[t] = of[t] /\ of[t] \in Existing
          /\ of[t] # Null => of[t] \in Existing
    BY <1>1, <1>2, <1>5
  <2>6. DOMAIN inbox = {}
    BY <1>2
  <2>7. QED  BY <2>3, <2>4, <2>5, <2>6 DEF TurnsOK
<1>8. PageOK
  <2>1. hist[1] = IF started THEN old ELSE Empty
    BY <1>1, <1>2
  <2>2. owner[1] = (IF started THEN c ELSE Null) /\ \A g \in Page : g > 1 => owner[g] = Null
    BY <1>1, <1>2
  <2>3. Within(old, c)
    BY <1>1, <1>3, <1>6 DEF Within
  <2>4. QED  BY <1>1, <1>2, <1>3, <2>1, <2>2, <2>3, Histories DEF PageOK
<1>9. WaitsOK
  BY <1>2 DEF WaitsOK
<1>10. SteadyOK
  BY <1>7, <1>8, <1>9 DEF SteadyOK
<1>11. hist[page] = (IF started THEN old ELSE Empty) /\ owner[page] = (IF started THEN c ELSE Null)
  BY <1>1, <1>2
<1>12. Fits(old) /\ Fits(Empty) /\ Full(old, c) /\ Saved(old) = old
  <2>1. \A t \in Turn : job[t] = IF t = 1 THEN "over" ELSE "none"
    BY <1>2
  <2>2. \A t \in Turn : of[t] = c => t = 1
    BY <1>1, <1>3
  <2>3. Fits(old) /\ Fits(Empty)
    BY <1>3, <2>1, Histories DEF Fits
  <2>4. Full(old, c)
    BY <1>3, <2>2 DEF Full
  <2>5. Saved(old) = old
    BY <1>3, Unblanked
  <2>6. QED  BY <2>3, <2>4, <2>5
<1>13. KeptOK
  <2>1. HistKept
    BY <1>3, <1>11, <1>12 DEF HistKept
  <2>2. LoadsKept /\ SavesKept
    BY <1>2 DEF LoadsKept, SavesKept
  <2>3. DocKept(c)
    <3>1. \A t \in Turn : of[t] = c => old[t] = "answered"
      BY <1>1, <1>3
    <3>2. QED  BY <1>5, <1>12, <3>1 DEF DocKept
  <2>4. QED  BY <1>5, <2>1, <2>2, <2>3 DEF KeptOK
<1>14. Current
  <2>1. open # Null => open = c /\ started
    BY <1>1
  <2>2. QED  BY <1>2, <1>3, <1>5, <1>11, <2>1 DEF Current
<1>15. QED  BY <1>10, <1>13, <1>14
(* The invariant holds at first.                                           *)
LEMMA InitPage == Init => PageInv
BY InitTyped, InitKept DEF PageInv, Steady, Kept

(* Whatever happens keeps the invariant.                                   *)
LEMMA NextPage == PageInv /\ [Next]_vars => PageInv'
<1> SUFFICES ASSUME PageInv, [Next]_vars PROVE PageInv'
  OBVIOUS
<1>1. Typed /\ Typed'
  BY NextTyped DEF PageInv
<1>2. risks \subseteq risks'
  BY DEF Next, Navigate, NewChat, Move, SubmitPrompt, Save, Event, LoadRead, LoadShow, LoadEnds, Created,
         Listed, Put, Accept, PostFails, AnswerSaved, CompletedSaved, Completed, vars
<1>3. /\ "moved" \notin risks' => SteadyOK
      /\ Calm' => KeptOK /\ "moved" \notin risks'
      /\ risks' = {} => Calm' /\ Current
  BY <1>2 DEF PageInv, Steady, Kept, Calm
<1>4. CASE UNCHANGED vars
  <2>1. Steady <=> Steady'
    BY <1>4 DEF vars, server, shown, here, handlers, Steady, SteadyOK, TurnsOK, PageOK, WaitsOK, Within,
                Existing, Asked
  <2>2. Kept <=> Kept'
    BY <1>4 DEF vars, server, shown, here, handlers, Kept, Calm, KeptOK, HistKept, LoadsKept, SavesKept,
                DocKept, Fits, Full, Sending, Saving, Existing
  <2>3. Current <=> Current'
    BY <1>4 DEF vars, server, shown, here, handlers, Current, Coming
  <2>4. QED  BY <1>1, <1>4, <2>1, <2>2, <2>3 DEF PageInv, vars
<1>5. ASSUME Next, "moved" \notin risks'
      PROVE  Keeps
  <2>1. ASSUME SubmitPrompt PROVE Keeps
    BY <1>1, <1>3, <1>5, <2>1, SubmitFirstKeeps, SubmitMoreKeeps
  <2>2. ASSUME \E l \in loads : LoadRead(l) \/ LoadShow(l) \/ LoadEnds(l)
        PROVE  Keeps
    BY <1>1, <1>3, <1>5, <2>2, LoadReadKeeps, LoadShowKeeps, LoadEndsKeeps
  <2>3. ASSUME \E s \in sends : Created(s) \/ Listed(s) \/ Put(s) \/ Accept(s) \/ PostFails(s)
        PROVE  Keeps
    BY <1>1, <1>3, <1>5, <2>3, CreatedKeeps, ListedKeeps, PutKeeps, AcceptKeeps
  <2>4. ASSUME \E f \in completing : CompletedSaved(f) \/ \E ok \in BOOLEAN : Completed(f, ok)
        PROVE  Keeps
    BY <1>1, <1>3, <1>5, <2>4, CompletedKeeps, CompletedSavedKeeps
  <2>5. QED
    BY <1>1, <1>3, <1>5, <2>1, <2>2, <2>3, <2>4, NavigateKeeps, NewChatKeeps, AnswerKeeps, EventKeeps
    DEF Next
<1>6. ASSUME Next PROVE PageInv'
  BY <1>1, <1>3, <1>5, <1>6 DEF PageInv, Steady, Kept, Keeps
<1>7. QED  BY <1>4, <1>6

-----------------------------------------------------------------------------
(* Which chats, turns and histories the handlers of the page hold.         *)
THEOREM TypeCorrect == Spec => []TypeOK
<1>1. Typed => TypeOK
  BY DEF Typed
<1>2. QED  BY <1>1, InitTyped, NextTyped, PTL DEF Spec

(* No turn gets into another chat, neither in the page nor in a document,  *)
(* as long as the user goes on only when the page waits for nothing.       *)
THEOREM TurnsStayInTheirChat == Spec => []NoStray
<1>1. PageInv => NoStray
  BY DEF PageInv, Typed, TypeOK, Steady, SteadyOK, TurnsOK, PageOK, Within, NoStray
<1>2. QED  BY <1>1, InitPage, NextPage, PTL DEF Spec

(* An answer that is complete stays in the document of its chat, whatever  *)
(* the page saves, unless a save crosses another or overtakes an answer.   *)
THEOREM CompleteAnswersStay == Spec => []AnswersKept
<1>1. PageInv => AnswersKept
  BY DEF PageInv, Steady, SteadyOK, TurnsOK, Kept, Calm, KeptOK, DocKept, AnswersKept
<1>2. QED  BY <1>1, InitPage, NextPage, PTL DEF Spec

(* When nothing is under way, the page shows what the document has.        *)
THEOREM PageMatchesDocument == Spec => []SavedWhenQuiet
<1>1. ASSUME PageInv, Quiet, risks = {}, open # Null, NEW t \in Turn
      PROVE  \/ Saved(hist[page])[t] = doc[open][t]
             \/ hist[page][t] = "cut" /\ doc[open][t] = "asked"
  <2>1. /\ Typed /\ SteadyOK /\ KeptOK /\ Current
        /\ loads = {} /\ sends = {} /\ ToSet(inbox) = {}
    BY <1>1 DEF PageInv, Steady, Kept, Calm, Quiet, Waiting, ToSet
  <2>2. owner[page] = open /\ open \in Existing /\ hist[page] \in History /\ doc[open] \in History
    BY <1>1, <2>1 DEF SteadyOK, PageOK, Typed, TypeOK, HandlersOK, Existing
  <2>3. Fits(doc[open]) /\ Saved(doc[open]) = doc[open]
    BY <2>1, <2>2 DEF KeptOK, DocKept
  <2>4. doc[open][t] \in {"none", "asked", "answered", "cut"}
    BY <2>2, <2>3, Unblanked, Histories DEF Fits, State
  <2>5. doc[open][t] = "none" => hist[page][t] = "none"
    BY <1>1, <2>1, <2>2 DEF KeptOK, DocKept, SteadyOK, PageOK, Within
  <2>6. LET h == hist[page][t] IN
          /\ doc[open][t] = "answered" => h = "answered"
          /\ doc[open][t] = "asked" => h \in {"asked", "blank", "cut"}
          /\ doc[open][t] = "cut" => h = "cut"
    BY <1>1, <2>1, <2>2 DEF Current, Coming
  <2>7. QED  BY <2>2, <2>4, <2>5, <2>6, SavedTurns
<1>2. PageInv => SavedWhenQuiet
  BY <1>1 DEF SavedWhenQuiet
<1>3. QED  BY <1>2, InitPage, NextPage, PTL DEF Spec
=============================================================================
