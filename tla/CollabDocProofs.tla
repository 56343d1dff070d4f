-------------------------- MODULE CollabDocProofs --------------------------
(***************************************************************************)
(* Proofs about CollabDoc, for any number of pages, edits, broken          *)
(* connections and restarts of the server.                                 *)
(***************************************************************************)
EXTENDS CollabDoc, TLAPS, FiniteSetTheorems

-----------------------------------------------------------------------------
(* Why: of what a page sends, joining comes first, and leaving last; its   *)
(* session is in the document from the one to the other.                   *)
Joining(c) == up[c] # <<>> /\ Head(up[c]).kind = "join"
PageOK(c) ==
  /\ page[c] = "new" => conn[c] = 0 /\ ~online[c]
  /\ page[c] # "open" => doc[c] = {}
  /\ page[c] # "new" => conn[c] > 0
  /\ conn[c] <= IF online[c] THEN events + 1 ELSE events
  /\ typed[c] <= events
UpOK(c) ==
  /\ ~online[c] => up[c] = <<>> /\ down[c] = <<>>
  /\ \A i \in DOMAIN up[c] :
       /\ up[c][i].kind = "join" => i = 1 /\ up[c][i].edits = {}
       /\ up[c][i].kind = "leave" <=> page[c] = "closed" /\ i = Len(up[c])
  /\ Joining(c) \/ page[c] # "open" => down[c] = <<>>
  /\ online[c] =>
       (SidOf(c) \in users <=> ~Joining(c) /\ (page[c] = "open" \/ up[c] # <<>>))
Past(s) == s[2] <= conn[s[1]]
Current(s) == online[s[1]] /\ s[2] = conn[s[1]]
SessionsOK ==
  /\ \A s \in lost : Past(s) /\ ~Current(s)
  /\ \A s \in users : s \in lost \/ Current(s)
  /\ \A h \in handlers : Past(h.sid)
WatchInv == TypeOK /\ SessionsOK /\ \A c \in Client : PageOK(c) /\ UpOK(c)

(* Whatever a page that has kept its connection holds is in the log, or on *)
(* its way there; and the log is in the page, or on its way to it.         *)
Has(q, e) == \E i \in DOMAIN q : e \in q[i].edits
Sends(c, e) == Has(up[c], e)
Gets(c, e) == Has(down[c], e)
Delayed(c, e) == \E h \in handlers : h.at = "stop" /\ h.sid = SidOf(c) /\ e \in h.edits
LogOf(c) ==
  /\ \A e \in doc[c] : Sends(c, e) \/ (~Joining(c) /\ (e \in log \/ Delayed(c, e)))
  /\ \A e \in Edit : Gets(c, e) => e \in log
  /\ \A e \in Edit : Sends(c, e) \/ Delayed(c, e) => e \in doc[c]
  /\ ~torn /\ ~Joining(c) => \A e \in log : e \in doc[c] \/ Gets(c, e)
LogOK == \A c \in Client : Steady(c) => LogOf(c)

(* A page may start from the database only while no content of the         *)
(* database is anywhere, and no other page may.                            *)
Starts(q) == \E i \in DOMAIN q : q[i].kind = "state" /\ q[i].alone
Alive(e) ==
  \/ e \in log
  \/ \E h \in handlers : h.at = "stop" /\ h.sid \in users /\ e \in h.edits
  \/ \E c \in Client : (online[c] /\ e \in doc[c]) \/ Sends(c, e) \/ Gets(c, e)
Single ==
  /\ users = {} => log = {}
  /\ \A c \in Client : \A i \in DOMAIN down[c] : down[c][i].kind = "state" => i = 1
  /\ \A c \in Client : Joining(c) =>
       /\ \A e \in Base : e \notin doc[c] /\ ~Sends(c, e)
       /\ \A h \in handlers : h.sid # SidOf(c)
  /\ \A c \in Client : \A d, e \in Base \cap doc[c] : d = e
  /\ \A d, e \in Base : Alive(d) /\ Alive(e) => d = e
  /\ \A c \in Client : Starts(down[c]) =>
       (\A e \in Base : ~Alive(e)) /\ \A d \in Client : Starts(down[d]) => d = c
BaseOK == ~late /\ (\A c \in Client : conn[c] <= 1) => Single

USE CollabAssumption

-----------------------------------------------------------------------------
(* Queues *)

LEMMA AppendFacts ==
  ASSUME NEW S, NEW q \in Seq(S), NEW x \in S
  PROVE  /\ Append(q, x) \in Seq(S) /\ Len(Append(q, x)) = Len(q) + 1
         /\ Len(q) \in Nat /\ DOMAIN q = 1..Len(q) /\ DOMAIN Append(q, x) = 1..(Len(q) + 1)
         /\ \A i \in 1..Len(q) : Append(q, x)[i] = q[i]
         /\ Append(q, x)[Len(q) + 1] = x
OBVIOUS

LEMMA TailFacts ==
  ASSUME NEW S, NEW q \in Seq(S), q # <<>>
  PROVE  /\ Tail(q) \in Seq(S) /\ Len(Tail(q)) = Len(q) - 1
         /\ Len(q) \in Nat /\ Len(q) > 0 /\ DOMAIN q = 1..Len(q)
         /\ DOMAIN Tail(q) = 1..(Len(q) - 1)
         /\ \A i \in 1..(Len(q) - 1) : Tail(q)[i] = q[i + 1]
         /\ Head(q) = q[1] /\ Head(q) \in S
OBVIOUS

LEMMA MessageTypes ==
  /\ Join \in Message /\ Leave \in Message
  /\ \A E \in SUBSET Edit, d \in BOOLEAN : Update(E, d) \in Message
BY DEF Join, Leave, Update, Message

LEMMA SendType ==
  ASSUME TypeOK, NEW c \in Client, NEW m \in Message, Send(c, m)
  PROVE  up' \in [Client -> Seq(Message)] /\ up' = [up EXCEPT ![c] = Append(up[c], m)]
BY AppendFacts DEF TypeOK, Send

LEMMA EmitType ==
  ASSUME TypeOK, NEW S, NEW ev \in Event, Emit(S, ev)
  PROVE  down' \in [Client -> Seq(Event)]
<1>1. \A c \in Client : Append(down[c], ev) \in Seq(Event)
  BY AppendFacts DEF TypeOK
<1>2. QED  BY <1>1 DEF Emit, TypeOK

LEMMA HeadType ==
  ASSUME TypeOK, NEW c \in Client
  PROVE  /\ up[c] # <<>> => Head(up[c]) \in Message /\ Tail(up[c]) \in Seq(Message)
         /\ down[c] # <<>> => Head(down[c]) \in Event /\ Tail(down[c]) \in Seq(Event)
<1>1. up[c] \in Seq(Message) /\ down[c] \in Seq(Event)
  BY DEF TypeOK
<1>2. QED  BY <1>1, TailFacts

LEMMA VisibleType == ASSUME NEW R PROVE Visible(R) \subseteq R
BY DEF Visible

-----------------------------------------------------------------------------
(* Types.  That the bounds suffice follows from PageOK.                    *)

Pages == \A c \in Client : PageOK(c)

LEMMA ConnectType ==
  ASSUME TypeOK, Pages, NEW c \in Client, Connect(c), ~online[c], page' \in [Client -> {"new", "open", "closed"}]
  PROVE  TypeOK'
<1>1. conn[c] \in Nat /\ events \in Nat /\ conn[c] <= events /\ events <= MaxEvent
  BY DEF Pages, PageOK, TypeOK
<1>2. conn' \in [Client -> 0..MaxConn]
  <2>1. conn[c] + 1 \in 0..MaxConn
    BY <1>1 DEF MaxConn
  <2>2. QED  BY <2>1 DEF Connect, TypeOK
<1>3. up' \in [Client -> Seq(Message)]
  BY MessageTypes, SendType DEF Connect
<1>4. online' \in [Client -> BOOLEAN]
  BY DEF Connect, TypeOK
<1>5. QED  BY <1>2, <1>3, <1>4 DEF Connect, TypeOK, server, ghosts

LEMMA AppendUpdateType ==
  ASSUME TypeOK, NEW s \in Sid, NEW E \in SUBSET Edit, NEW d \in BOOLEAN, NEW rest,
         rest \subseteq Handler, AppendUpdate(s, E, d, rest)
  PROVE  /\ log' \subseteq Edit /\ down' \in [Client -> Seq(Event)]
         /\ handlers' \subseteq Handler /\ pending' \in BOOLEAN
         /\ UNCHANGED <<users, torn>> /\ late' \in BOOLEAN
<1>1. [kind |-> "update", edits |-> E, alone |-> FALSE] \in Event
  BY DEF Event
<1>2. down' \in [Client -> Seq(Event)]
  BY <1>1, EmitType DEF AppendUpdate
<1>3. [sid |-> s, at |-> "save", edits |-> E, data |-> d] \in Handler
  BY DEF Handler
<1>4. handlers' \subseteq Handler /\ pending' \in BOOLEAN
  BY <1>3 DEF AppendUpdate, TypeOK
<1>5. log' \subseteq Edit
  BY DEF AppendUpdate, Appended, TypeOK
<1>6. late' \in BOOLEAN
  BY DEF AppendUpdate, TypeOK
<1>7. QED  BY <1>2, <1>4, <1>5, <1>6 DEF AppendUpdate

(* The session of a page that has a connection.                            *)
LEMMA SidType ==
  ASSUME TypeOK, Pages, NEW c \in Client, online[c]
  PROVE  SidOf(c) \in Sid
<1>1. conn[c] \in 0..MaxConn /\ page[c] \in {"new", "open", "closed"}
  BY DEF TypeOK
<1>2. QED
  BY <1>1 DEF SidOf, Sid, Pages, PageOK

LEMMA NextTypeOK == TypeOK /\ Pages /\ [Next]_vars => TypeOK'
<1> SUFFICES ASSUME TypeOK, Pages, [Next]_vars PROVE TypeOK'
  OBVIOUS
<1>1. ASSUME NEW c \in Client, Open(c) PROVE TypeOK'
  <2>1. ~online[c] /\ page' \in [Client -> {"new", "open", "closed"}]
    BY <1>1 DEF Open, Pages, PageOK, TypeOK
  <2>2. QED  BY <1>1, <2>1, ConnectType DEF Open
<1>2. ASSUME NEW c \in Client, Reconnect(c) PROVE TypeOK'
  <2>1. ~online[c] /\ page' \in [Client -> {"new", "open", "closed"}]
    BY <1>2 DEF Reconnect, TypeOK
  <2>2. QED  BY <1>2, <2>1, ConnectType DEF Reconnect
<1>3. ASSUME NEW c \in Client, Type(c) PROVE TypeOK'
  <2> DEFINE e == <<c, typed[c] + 1>>
  <2>1. typed[c] + 1 \in 0..MaxEvent /\ e \in Edit /\ events + 1 \in 0..MaxEvent
    BY <1>3 DEF Type, Happens, Pages, PageOK, TypeOK, Edit
  <2>2. typed' \in [Client -> 0..MaxEvent] /\ events' \in 0..MaxEvent
    BY <1>3, <2>1 DEF Type, Happens, TypeOK
  <2>3. doc' \in [Client -> SUBSET Edit]
    <3>1. doc[c] \cup {e} \in SUBSET Edit
      BY <2>1 DEF TypeOK
    <3>2. QED  BY <1>3, <3>1 DEF Type, TypeOK
  <2>4. dep' \in [Edit -> SUBSET Edit]
    <3>1. Visible(doc[c]) \in SUBSET Edit
      BY VisibleType DEF TypeOK
    <3>2. QED  BY <1>3, <3>1 DEF Type, TypeOK
  <2>5. up' \in [Client -> Seq(Message)]
    <3>1. Update({e}, TRUE) \in Message
      BY <2>1, MessageTypes
    <3>2. CASE online[c]
      BY <1>3, <3>1, <3>2, SendType DEF Type, SendIf
    <3>3. CASE ~online[c]
      BY <1>3, <3>3 DEF Type, SendIf, TypeOK
    <3>4. QED  BY <3>2, <3>3
  <2>6. QED  BY <1>3, <2>2, <2>3, <2>4, <2>5 DEF Type, TypeOK, server, ghosts
<1>4. ASSUME NEW c \in Client, ReceiveUpdate(c) PROVE TypeOK'
  <2>1. Take(c, "update") /\ down[c] # <<>>
    BY <1>4 DEF ReceiveUpdate, Take
  <2>2. Head(down[c]).edits \in SUBSET Edit /\ Tail(down[c]) \in Seq(Event)
    BY <2>1, HeadType DEF Event
  <2>3. down' \in [Client -> Seq(Event)]
    BY <2>1, <2>2 DEF Take, TypeOK
  <2> DEFINE all == doc[c] \cup Head(down[c]).edits
             delta == Visible(all) \ Visible(doc[c])
  <2>4. all \in SUBSET Edit /\ delta \in SUBSET Edit
    BY <2>2, VisibleType DEF TypeOK
  <2>5. doc' \in [Client -> SUBSET Edit]
    BY <1>4, <2>4 DEF ReceiveUpdate, TypeOK
  <2>6. up' \in [Client -> Seq(Message)]
    <3>1. Update(delta, TRUE) \in Message
      BY <2>4, MessageTypes
    <3>2. Send(c, Update(delta, TRUE)) \/ up' = up
      BY <1>4 DEF ReceiveUpdate, SendIf
    <3>3. QED  BY <3>1, <3>2, SendType DEF TypeOK
  <2>7. QED  BY <2>1, <2>3, <2>5, <2>6 DEF Take, TypeOK, server, ghosts
<1>5. ASSUME NEW c \in Client, ReceiveState(c) PROVE TypeOK'
  <2>1. Take(c, "state") /\ down[c] # <<>>
    BY <1>5 DEF ReceiveState, Take
  <2>2. Head(down[c]).edits \in SUBSET Edit /\ Tail(down[c]) \in Seq(Event)
    BY <2>1, HeadType DEF Event
  <2>3. down' \in [Client -> Seq(Event)]
    BY <2>1, <2>2 DEF Take, TypeOK
  <2>4. <<c, 0>> \in Edit /\ doc[c] \in SUBSET Edit
    BY DEF Edit, TypeOK
  <2>5. doc' \in [Client -> SUBSET Edit]
    <3>1. \/ doc' = [doc EXCEPT ![c] = doc[c] \cup Head(down[c]).edits]
          \/ doc' = [doc EXCEPT ![c] = doc[c] \cup {<<c, 0>>}]
          \/ doc' = doc
      BY <1>5 DEF ReceiveState
    <3>2. doc[c] \cup Head(down[c]).edits \in SUBSET Edit /\ doc[c] \cup {<<c, 0>>} \in SUBSET Edit
      BY <2>2, <2>4
    <3>3. doc \in [Client -> SUBSET Edit]
      BY DEF TypeOK
    <3>4. QED  BY <3>1, <3>2, <3>3
  <2>6. up' \in [Client -> Seq(Message)]
    <3>1. up' = up \/ Send(c, Update({<<c, 0>>}, TRUE)) \/ Send(c, Update(doc[c], FALSE))
      BY <1>5 DEF ReceiveState, SendIf
    <3>2. Update({<<c, 0>>}, TRUE) \in Message /\ Update(doc[c], FALSE) \in Message
      BY <2>4, MessageTypes
    <3>3. QED  BY <3>1, <3>2, SendType DEF TypeOK
  <2>7. QED  BY <2>1, <2>3, <2>5, <2>6 DEF Take, TypeOK, server, ghosts
<1>6. ASSUME NEW c \in Client, Close(c) PROVE TypeOK'
  <2>1. up' \in [Client -> Seq(Message)]
    BY <1>6, MessageTypes, SendType DEF Close, SendIf, TypeOK
  <2>2. doc' \in [Client -> SUBSET Edit] /\ down' \in [Client -> Seq(Event)]
    BY <1>6 DEF Close, TypeOK
  <2>3. QED  BY <1>6, <2>1, <2>2 DEF Close, TypeOK, server, ghosts
<1>7. ASSUME NEW c \in Client, Drop(c) PROVE TypeOK'
  <2>1. SidOf(c) \in Sid /\ events + 1 \in 0..MaxEvent
    BY <1>7, SidType DEF Drop, Happens, TypeOK
  <2>2. QED  BY <1>7, <2>1 DEF Drop, Happens, TypeOK, server, ghosts
<1>8. ASSUME NEW c \in Client, HandleJoin(c) PROVE TypeOK'
  <2>1. Accept(c, "join") /\ SidOf(c) \in Sid
    BY <1>8, SidType DEF HandleJoin, Accept
  <2>2. up' \in [Client -> Seq(Message)]
    BY <2>1, HeadType DEF Accept, TypeOK
  <2>3. down' \in [Client -> Seq(Event)]
    <3>1. PICK E \in {log, Visible(log)} :
            Emit({SidOf(c)}, [kind |-> "state", edits |-> E, alone |-> users' = {SidOf(c)}])
      BY <1>8 DEF HandleJoin
    <3>2. E \in SUBSET Edit
      BY VisibleType DEF TypeOK
    <3>3. [kind |-> "state", edits |-> E, alone |-> users' = {SidOf(c)}] \in Event
      BY <3>2 DEF Event
    <3>4. QED  BY <3>1, <3>3, EmitType
  <2>4. torn' \in BOOLEAN
    BY <1>8 DEF HandleJoin
  <2>5. QED  BY <1>8, <2>1, <2>2, <2>3, <2>4 DEF HandleJoin, Accept, Entered, TypeOK, pages
<1>9. ASSUME NEW c \in Client, HandleUpdate(c) PROVE TypeOK'
  <2>1. Accept(c, "update") /\ SidOf(c) \in Sid
    BY <1>9, SidType DEF HandleUpdate, Accept
  <2>2. up' \in [Client -> Seq(Message)]
    BY <2>1, HeadType DEF Accept, TypeOK
  <2>3. Head(up[c]).edits \in SUBSET Edit /\ Head(up[c]).data \in BOOLEAN
    BY <2>1, HeadType DEF Accept, Message
  <2>4. CASE AppendUpdate(SidOf(c), Head(up[c]).edits, Head(up[c]).data, handlers)
    <3>1. handlers \subseteq Handler
      BY DEF TypeOK
    <3>2. /\ log' \subseteq Edit /\ down' \in [Client -> Seq(Event)]
          /\ handlers' \subseteq Handler /\ pending' \in BOOLEAN
          /\ UNCHANGED <<users, torn>> /\ late' \in BOOLEAN
      BY <2>1, <2>3, <2>4, <3>1, AppendUpdateType
    <3>3. QED  BY <2>1, <2>2, <3>2 DEF Accept, TypeOK, pages
  <2>5. CASE /\ pending /\ pending' = FALSE
             /\ handlers' = handlers \cup {[sid |-> SidOf(c), at |-> "stop",
                                          edits |-> Head(up[c]).edits, data |-> Head(up[c]).data]}
             /\ UNCHANGED <<log, users, ghosts, down>>
    <3>1. [sid |-> SidOf(c), at |-> "stop", edits |-> Head(up[c]).edits, data |-> Head(up[c]).data]
            \in Handler
      BY <2>1, <2>3 DEF Handler
    <3>2. QED  BY <2>1, <2>2, <2>5, <3>1 DEF Accept, TypeOK, pages, ghosts
  <2>6. QED  BY <1>9, <2>4, <2>5 DEF HandleUpdate
<1>10. ASSUME NEW c \in Client, HandleLeave(c) PROVE TypeOK'
  <2>1. Accept(c, "leave") /\ SidOf(c) \in Sid
    BY <1>10, SidType DEF HandleLeave, Accept
  <2>2. up' \in [Client -> Seq(Message)]
    BY <2>1, HeadType DEF Accept, TypeOK
  <2>3. [sid |-> SidOf(c), at |-> "left", edits |-> {}, data |-> FALSE] \in Handler
    BY <2>1 DEF Handler
  <2>4. handlers' \subseteq Handler
    BY <1>10, <2>3 DEF HandleLeave, TypeOK
  <2>5. log' \subseteq Edit /\ users' \subseteq Sid
    BY <1>10 DEF HandleLeave, ClearIfUnused, TypeOK
  <2>6. QED  BY <1>10, <2>1, <2>2, <2>4, <2>5 DEF HandleLeave, Accept, TypeOK, pages, ghosts
<1>11. ASSUME NEW h \in handlers, SavesStopped(h) PROVE TypeOK'
  <2>1. h \in Handler /\ handlers \ {h} \subseteq Handler
    BY DEF TypeOK
  <2>2. h.sid \in Sid /\ h.edits \in SUBSET Edit /\ h.data \in BOOLEAN
    BY <2>1 DEF Handler
  <2>3. /\ log' \subseteq Edit /\ down' \in [Client -> Seq(Event)]
        /\ handlers' \subseteq Handler /\ pending' \in BOOLEAN
        /\ UNCHANGED <<users, torn>> /\ late' \in BOOLEAN
    BY <1>11, <2>1, <2>2, AppendUpdateType DEF SavesStopped
  <2>4. QED  BY <1>11, <2>3 DEF SavesStopped, TypeOK, pages
<1>12. ASSUME NEW h \in handlers, CreateSave(h) \/ Left(h) PROVE TypeOK'
  <2>1. handlers' \subseteq Handler /\ pending' \in BOOLEAN
    <3>1. h.data \in BOOLEAN
      BY DEF TypeOK, Handler
    <3>2. QED  BY <1>12, <3>1 DEF CreateSave, Left, TypeOK
  <2>2. log' \subseteq Edit
    BY <1>12 DEF CreateSave, Left, ClearIfUnused, TypeOK
  <2>3. QED  BY <1>12, <2>1, <2>2 DEF CreateSave, Left, TypeOK, pages, ghosts
<1>13. ASSUME NEW s \in lost, Disconnect(s) PROVE TypeOK'
  <2>1. log' \subseteq Edit /\ users' \subseteq Sid /\ lost' \subseteq Sid
    BY <1>13 DEF Disconnect, ClearIfUnused, TypeOK
  <2>2. QED  BY <1>13, <2>1 DEF Disconnect, TypeOK, ghosts
<1>14. CASE SaveEnds
  BY <1>14 DEF SaveEnds, TypeOK, pages, ghosts
<1>15. CASE Crash
  <2>1. events + 1 \in 0..MaxEvent
    BY <1>15 DEF Crash, Happens, TypeOK
  <2>2. online' \in [Client -> BOOLEAN] /\ up' \in [Client -> Seq(Message)]
        /\ down' \in [Client -> Seq(Event)]
    BY <1>15 DEF Crash
  <2>3. log' = {} /\ users' = {} /\ handlers' = {} /\ pending' = FALSE /\ lost' = {}
    BY <1>15 DEF Crash
  <2>4. UNCHANGED <<torn, late, page, conn, doc, dep, typed>> /\ events' = events + 1
    BY <1>15 DEF Crash, Happens, ghosts
  <2>5. QED  BY <2>1, <2>2, <2>3, <2>4 DEF TypeOK
<1>16. CASE UNCHANGED vars
  BY <1>16 DEF vars, server, pages, ghosts, TypeOK
<1>17. QED
  BY <1>1, <1>2, <1>3, <1>4, <1>5, <1>6, <1>7, <1>8, <1>9, <1>10, <1>11, <1>12, <1>13, <1>14,
     <1>15, <1>16 DEF Next, ServerStep, PageStep

-----------------------------------------------------------------------------
(* Sessions and queues *)

LEMMA NextPages == TypeOK /\ Pages /\ [Next]_vars => Pages'
<1> SUFFICES ASSUME TypeOK, Pages, [Next]_vars, NEW d \in Client PROVE PageOK(d)'
  BY DEF Pages
<1>a. /\ page \in [Client -> {"new", "open", "closed"}] /\ online \in [Client -> BOOLEAN]
      /\ conn \in [Client -> 0..MaxConn] /\ typed \in [Client -> 0..MaxEvent]
      /\ doc \in [Client -> SUBSET Edit] /\ events \in Nat /\ MaxConn \in Nat
  BY DEF TypeOK, MaxConn
<1>b. /\ page[d] = "new" => conn[d] = 0 /\ ~online[d]
      /\ page[d] # "open" => doc[d] = {}
      /\ page[d] # "new" => conn[d] > 0
      /\ conn[d] <= IF online[d] THEN events + 1 ELSE events
      /\ typed[d] <= events /\ conn[d] \in Nat /\ typed[d] \in Nat
  BY <1>a DEF Pages, PageOK
<1>1. ASSUME UNCHANGED <<page, conn, online, doc, typed, events>> PROVE PageOK(d)'
  BY <1>1, <1>b DEF PageOK
<1>2. ASSUME NEW c \in Client, Connect(c), ~online[c], page' = [page EXCEPT ![c] = "open"]
      PROVE  PageOK(d)'
  BY <1>2, <1>a, <1>b DEF Connect, PageOK
<1>3. ASSUME NEW c \in Client, Open(c) PROVE PageOK(d)'
  BY <1>2, <1>3 DEF Open, Pages, PageOK
<1>4. ASSUME NEW c \in Client, Reconnect(c) PROVE PageOK(d)'
  <2>1. page' = [page EXCEPT ![c] = "open"]
    BY <1>4, <1>a DEF Reconnect
  <2>2. QED  BY <1>2, <1>4, <2>1 DEF Reconnect
<1>5. ASSUME NEW c \in Client, Type(c) PROVE PageOK(d)'
  BY <1>5, <1>a, <1>b DEF Type, Happens, PageOK
<1>6. ASSUME NEW c \in Client, ReceiveUpdate(c) \/ ReceiveState(c) PROVE PageOK(d)'
  <2>1. UNCHANGED <<page, conn, online, typed, events>> /\ page[c] = "open"
    BY <1>6 DEF ReceiveUpdate, ReceiveState, Take, Watching
  <2>2. d # c => doc'[d] = doc[d]
    <3>1. doc' = doc \/ \E D : doc' = [doc EXCEPT ![c] = D]
      BY <1>6 DEF ReceiveUpdate, ReceiveState
    <3>2. QED  BY <3>1, <1>a
  <2>3. QED  BY <2>1, <2>2, <1>b DEF PageOK
<1>7. ASSUME NEW c \in Client, Close(c) PROVE PageOK(d)'
  BY <1>7, <1>a, <1>b DEF Close, PageOK
<1>8. ASSUME NEW c \in Client, Drop(c) PROVE PageOK(d)'
  BY <1>8, <1>a, <1>b DEF Drop, Happens, PageOK
<1>9. CASE Crash
  BY <1>9, <1>a, <1>b DEF Crash, Happens, PageOK
<1>10. CASE ServerStep /\ ~Crash
  BY <1>1, <1>10 DEF ServerStep, HandleJoin, HandleUpdate, HandleLeave, SavesStopped, CreateSave, Left,
     Disconnect, SaveEnds, Accept, pages
<1>11. CASE UNCHANGED vars
  BY <1>1, <1>11 DEF vars, pages
<1>12. QED
  BY <1>3, <1>4, <1>5, <1>6, <1>7, <1>8, <1>9, <1>10, <1>11 DEF Next, PageStep

LEMMA NextSessionsOK == TypeOK /\ Pages /\ SessionsOK /\ [Next]_vars => SessionsOK'
<1> SUFFICES ASSUME TypeOK, Pages, SessionsOK, [Next]_vars PROVE SessionsOK'
  OBVIOUS
<1>a. /\ online \in [Client -> BOOLEAN] /\ conn \in [Client -> 0..MaxConn] /\ MaxConn \in Nat
      /\ lost \subseteq Sid /\ users \subseteq Sid /\ \A h \in handlers : h.sid \in Sid
      /\ \A s \in Sid : s[1] \in Client /\ s[2] \in Nat
  BY DEF TypeOK, MaxConn, Sid, Handler
<1>b. ASSUME UNCHANGED <<conn, online>>, lost' \subseteq lost, users' \subseteq users \cup {s \in Sid : Current(s)},
             \A s \in users' : s \in lost => s \in lost',
             \A h \in handlers' : h \in handlers \/ (\E c \in Client : h.sid = SidOf(c))
                                 \/ \E g \in handlers : h.sid = g.sid
      PROVE  SessionsOK'
  <2>1. \A c \in Client : Past(SidOf(c))
    BY <1>a DEF Past, SidOf
  <2>2. \A s \in Sid : (Past(s)' <=> Past(s)) /\ (Current(s)' <=> Current(s))
    BY <1>b DEF Past, Current
  <2>3. \A h \in handlers' : Past(h.sid)
    BY <1>b, <2>1 DEF SessionsOK
  <2>4. \A h \in handlers' : Past(h.sid)'
    BY <2>3, <1>b DEF Past
  <2>5. \A s \in lost' : Past(s)' /\ ~Current(s)'
    BY <1>a, <1>b, <2>2 DEF SessionsOK
  <2>6. \A s \in users' : s \in lost' \/ Current(s)'
    BY <1>a, <1>b, <2>2 DEF SessionsOK
  <2>7. QED  BY <2>4, <2>5, <2>6 DEF SessionsOK
<1>c. \A c \in Client : online[c] => SidOf(c) \in Sid /\ Current(SidOf(c))
  BY SidType DEF Current, SidOf
<1>d. ASSUME UNCHANGED <<conn, online, lost, users, handlers>> PROVE SessionsOK'
  BY <1>b, <1>d
<1>1. ASSUME NEW c \in Client, Open(c) \/ Reconnect(c) PROVE SessionsOK'
  <2>1. /\ ~online[c] /\ UNCHANGED <<lost, users, handlers>>
        /\ conn' = [conn EXCEPT ![c] = conn[c] + 1] /\ online' = [online EXCEPT ![c] = TRUE]
    BY <1>1 DEF Open, Reconnect, Connect, server, Pages, PageOK
  <2>2. \A s \in Sid : Past(s) => Past(s)'
    BY <2>1, <1>a DEF Past
  <2>3. \A s \in Sid : Past(s) /\ ~Current(s) => ~Current(s)'
    BY <2>1, <1>a DEF Past, Current
  <2>4. \A s \in Sid : Current(s) => Current(s)'
    BY <2>1, <1>a DEF Past, Current
  <2>5. QED  BY <2>1, <2>2, <2>3, <2>4, <1>a DEF SessionsOK
<1>2. ASSUME NEW c \in Client, Type(c) \/ ReceiveUpdate(c) \/ ReceiveState(c) \/ Close(c)
      PROVE  SessionsOK'
  BY <1>2, <1>d DEF Type, ReceiveUpdate, ReceiveState, Take, Close, server
<1>3. ASSUME NEW c \in Client, Drop(c) PROVE SessionsOK'
  <2>1. /\ online[c] /\ UNCHANGED <<conn, users, handlers>> /\ lost' = lost \cup {SidOf(c)}
        /\ online' = [online EXCEPT ![c] = FALSE]
    BY <1>3 DEF Drop, server
  <2>2. \A s \in Sid : (Past(s)' <=> Past(s)) /\ (Current(s)' <=> Current(s) /\ s # SidOf(c))
    <3>1. \A s \in Sid : Past(s)' <=> Past(s)
      BY <2>1 DEF Past
    <3>2. ASSUME NEW s \in Sid PROVE Current(s)' <=> Current(s) /\ s # SidOf(c)
      <4>1. s = <<s[1], s[2]>>
        BY DEF Sid
      <4>2. CASE s[1] = c
        BY <2>1, <4>1, <4>2, <1>a DEF Current, SidOf
      <4>3. CASE s[1] # c
        BY <2>1, <4>1, <4>3, <1>a DEF Current, SidOf
      <4>4. QED  BY <4>2, <4>3
    <3>3. QED  BY <3>1, <3>2
  <2>3. Past(SidOf(c)) /\ SidOf(c) \in Sid
    BY <2>1, <1>a, <1>c DEF Past, SidOf
  <2>4. QED  BY <2>1, <2>2, <2>3, <1>a DEF SessionsOK
<1>4. ASSUME NEW c \in Client, HandleJoin(c) PROVE SessionsOK'
  <2>1. /\ online[c] /\ users' = users \cup {SidOf(c)}
        /\ UNCHANGED <<conn, online, lost, handlers>>
    BY <1>4 DEF HandleJoin, Accept, Entered, pages
  <2>2. QED  BY <2>1, <1>b, <1>c
<1>5. ASSUME NEW c \in Client, HandleUpdate(c) PROVE SessionsOK'
  <2>1. UNCHANGED <<conn, online, lost, users>>
    BY <1>5 DEF HandleUpdate, AppendUpdate, Accept, pages
  <2>2. \A h \in handlers' : h \in handlers \/ h.sid = SidOf(c)
    BY <1>5 DEF HandleUpdate, AppendUpdate
  <2>3. QED  BY <2>1, <2>2, <1>b
<1>6. ASSUME NEW c \in Client, HandleLeave(c) PROVE SessionsOK'
  <2>1. UNCHANGED <<conn, online, lost>> /\ users' \subseteq users
    BY <1>6 DEF HandleLeave, Accept, pages
  <2>2. \A h \in handlers' : h \in handlers \/ h.sid = SidOf(c)
    BY <1>6 DEF HandleLeave
  <2>3. QED  BY <2>1, <2>2, <1>b
<1>7. ASSUME NEW h \in handlers, SavesStopped(h) \/ CreateSave(h) \/ Left(h) PROVE SessionsOK'
  <2>1. UNCHANGED <<conn, online, lost, users>>
    BY <1>7 DEF SavesStopped, CreateSave, Left, AppendUpdate, pages
  <2>2. \A g \in handlers' : g \in handlers \/ g.sid = h.sid
    BY <1>7 DEF SavesStopped, CreateSave, Left, AppendUpdate
  <2>3. \A k \in handlers' : k \in handlers \/ \E g \in handlers : k.sid = g.sid
    BY <2>2
  <2>4. lost' \subseteq lost /\ users' \subseteq users \cup {s \in Sid : Current(s)}
        /\ \A s \in users' : s \in lost => s \in lost'
    BY <2>1
  <2>5. QED  BY <2>1, <2>3, <2>4, <1>b
<1>8. ASSUME NEW s \in lost, Disconnect(s) PROVE SessionsOK'
  <2>1. UNCHANGED <<conn, online, handlers>> /\ lost' = lost \ {s} /\ users' = users \ {s}
    BY <1>8 DEF Disconnect
  <2>2. lost' \subseteq lost /\ users' \subseteq users \cup {k \in Sid : Current(k)}
        /\ \A k \in users' : k \in lost => k \in lost'
    BY <2>1
  <2>3. \A h \in handlers' : h \in handlers
    BY <2>1
  <2>4. QED  BY <2>1, <2>2, <2>3, <1>b
<1>9. CASE SaveEnds
  BY <1>9, <1>d DEF SaveEnds, pages
<1>10. CASE Crash
  <2>1. lost' = {} /\ users' = {} /\ handlers' = {}
    BY <1>10 DEF Crash
  <2>2. QED  BY <2>1 DEF SessionsOK
<1>11. CASE UNCHANGED vars
  BY <1>11, <1>d DEF vars, server, pages
<1>12. QED
  BY <1>1, <1>2, <1>3, <1>4, <1>5, <1>6, <1>7, <1>8, <1>9, <1>10, <1>11
     DEF Next, ServerStep, PageStep

(* What a page may have sent, when it shows p.                             *)
Queue(u, p) ==
  \A i \in DOMAIN u :
    /\ u[i].kind = "join" => i = 1 /\ u[i].edits = {}
    /\ u[i].kind = "leave" <=> p = "closed" /\ i = Len(u)

Joins(u) == u # <<>> /\ Head(u).kind = "join"

LEMMA QueueTail ==
  ASSUME NEW u \in Seq(Message), u # <<>>, NEW p, Queue(u, p)
  PROVE  /\ Queue(Tail(u), p) /\ ~Joins(Tail(u))
         /\ Head(u).kind = "leave" => p = "closed" /\ Tail(u) = <<>>
         /\ p = "closed" /\ Head(u).kind # "leave" => Tail(u) # <<>>
<1>1. /\ Tail(u) \in Seq(Message) /\ Len(Tail(u)) = Len(u) - 1
      /\ Len(u) \in Nat /\ Len(u) > 0 /\ DOMAIN u = 1..Len(u)
      /\ DOMAIN Tail(u) = 1..(Len(u) - 1)
      /\ \A i \in 1..(Len(u) - 1) : Tail(u)[i] = u[i + 1]
      /\ Head(u) = u[1]
  BY TailFacts
<1>2. Queue(Tail(u), p)
  <2> SUFFICES ASSUME NEW i \in 1..(Len(u) - 1)
               PROVE  /\ Tail(u)[i].kind = "join" => i = 1 /\ Tail(u)[i].edits = {}
                      /\ Tail(u)[i].kind = "leave" <=> p = "closed" /\ i = Len(Tail(u))
    BY <1>1 DEF Queue
  <2>1. Tail(u)[i] = u[i + 1] /\ i + 1 \in DOMAIN u /\ i + 1 # 1
    BY <1>1
  <2>2. u[i + 1].kind # "join" /\ (u[i + 1].kind = "leave" <=> p = "closed" /\ i + 1 = Len(u))
    BY <2>1 DEF Queue
  <2>3. i + 1 = Len(u) <=> i = Len(Tail(u))
    BY <1>1
  <2>4. QED  BY <2>1, <2>2, <2>3
<1>3. ~Joins(Tail(u))
  <2> SUFFICES ASSUME Tail(u) # <<>>, Head(Tail(u)).kind = "join" PROVE FALSE
    BY DEF Joins
  <2>1. Head(Tail(u)) = Tail(u)[1] /\ Len(Tail(u)) > 0
    BY <1>1, TailFacts
  <2>2. Tail(u)[1] = u[2] /\ 2 \in DOMAIN u
    BY <1>1, <2>1
  <2>3. QED  BY <2>1, <2>2 DEF Queue
<1>4. 1 \in DOMAIN u /\ (Head(u).kind = "leave" <=> p = "closed" /\ 1 = Len(u))
  BY <1>1 DEF Queue
<1>5. Tail(u) = <<>> <=> Len(u) = 1
  BY <1>1
<1>6. QED  BY <1>2, <1>3, <1>4, <1>5

LEMMA QueueAppend ==
  ASSUME NEW u \in Seq(Message), NEW p, Queue(u, p), p # "closed",
         NEW m \in Message, m.kind # "join",
         NEW q, q = "closed" <=> m.kind = "leave"
  PROVE  /\ Queue(Append(u, m), q) /\ Append(u, m) # <<>>
         /\ Joins(Append(u, m)) <=> Joins(u)
<1>1. /\ Append(u, m) \in Seq(Message) /\ Len(Append(u, m)) = Len(u) + 1
      /\ Len(u) \in Nat /\ DOMAIN u = 1..Len(u) /\ DOMAIN Append(u, m) = 1..(Len(u) + 1)
      /\ \A i \in 1..Len(u) : Append(u, m)[i] = u[i]
      /\ Append(u, m)[Len(u) + 1] = m
  BY AppendFacts
<1>2. Queue(Append(u, m), q)
  BY <1>1 DEF Queue
<1>3. Append(u, m) # <<>> /\ Head(Append(u, m)) = Append(u, m)[1]
  BY <1>1
<1>4. u # <<>> <=> Len(u) > 0
  BY <1>1
<1>5. u # <<>> => Head(u) = u[1] /\ Append(u, m)[1] = u[1]
  BY <1>1, <1>4
<1>6. u = <<>> => Append(u, m)[1] = m
  BY <1>1
<1>7. Joins(Append(u, m)) <=> Joins(u)
  BY <1>3, <1>5, <1>6 DEF Joins
<1>8. QED  BY <1>2, <1>3, <1>7

LEMMA JoinsAppend ==
  ASSUME NEW u \in Seq(Message), NEW m \in Message, m.kind # "join"
  PROVE  Joins(Append(u, m)) <=> Joins(u)
<1>1. CASE u = <<>>
  <2>1. Append(u, m) = <<m>>
    BY <1>1
  <2>2. QED  BY <1>1, <2>1 DEF Joins
<1>2. CASE u # <<>>
  <2>1. Head(Append(u, m)) = Head(u) /\ Append(u, m) # <<>>
    BY <1>2
  <2>2. QED  BY <1>2, <2>1 DEF Joins
<1>3. QED  BY <1>1, <1>2

LEMMA JoinsTail ==
  ASSUME NEW u \in Seq(Message), u # <<>>, NEW p, Queue(u, p)
  PROVE  ~Joins(Tail(u))
BY QueueTail

(* UpOK, with what it says of the queue named.                             *)
LEMMA UpParts ==
  ASSUME NEW c \in Client
  PROVE  UpOK(c) <=>
           /\ ~online[c] => up[c] = <<>> /\ down[c] = <<>>
           /\ Queue(up[c], page[c])
           /\ Joins(up[c]) \/ page[c] # "open" => down[c] = <<>>
           /\ online[c] => (SidOf(c) \in users <=>
                             ~Joins(up[c]) /\ (page[c] = "open" \/ up[c] # <<>>))
BY DEF UpOK, Queue, Joins, Joining

LEMMA UpParts2 ==
  ASSUME NEW c \in Client
  PROVE  UpOK(c)' <=>
           /\ ~online'[c] => up'[c] = <<>> /\ down'[c] = <<>>
           /\ Queue(up'[c], page'[c])
           /\ Joins(up'[c]) \/ page'[c] # "open" => down'[c] = <<>>
           /\ online'[c] => (<<c, conn'[c]>> \in users' <=>
                             ~Joins(up'[c]) /\ (page'[c] = "open" \/ up'[c] # <<>>))
BY DEF UpOK, Queue, Joins, Joining, SidOf

(* A step that does not touch the page and its queue to the server.        *)
LEMMA UpFrame ==
  ASSUME NEW d \in Client, UpOK(d),
         up'[d] = up[d], page'[d] = page[d], conn'[d] = conn[d], online'[d] = online[d],
         online[d] => (SidOf(d) \in users' <=> SidOf(d) \in users),
         \/ Watching(d) /\ SidOf(d) \in users
         \/ down[d] = <<>> => down'[d] = <<>>
  PROVE  UpOK(d)'
BY UpParts, UpParts2 DEF Watching, SidOf

(* A page with the document open sends an update.                          *)
LEMMA UpSend ==
  ASSUME TypeOK, NEW c \in Client, UpOK(c), Watching(c),
         NEW E \in SUBSET Edit, NEW b \in BOOLEAN, Send(c, Update(E, b)),
         UNCHANGED <<page, conn, online, users>>,
         down'[c] = down[c] \/ down[c] # <<>>
  PROVE  UpOK(c)'
<1>1. Update(E, b) \in Message /\ Update(E, b).kind = "update" /\ up[c] \in Seq(Message)
  BY MessageTypes DEF Update, TypeOK
<1>2. up'[c] = Append(up[c], Update(E, b))
  BY <1>1, SendType DEF TypeOK
<1>3. /\ Queue(Append(up[c], Update(E, b)), page[c]) /\ Append(up[c], Update(E, b)) # <<>>
      /\ Joins(Append(up[c], Update(E, b))) <=> Joins(up[c])
  BY <1>1, QueueAppend, UpParts DEF Watching
<1>4. QED  BY <1>2, <1>3, UpParts, UpParts2 DEF Watching, SidOf

(* Whom a broadcast reaches.                                               *)
LEMMA EmitReach ==
  ASSUME NEW S, NEW ev, Emit(S, ev), NEW d \in Client
  PROVE  \/ Watching(d) /\ SidOf(d) \in S /\ down'[d] = Append(down[d], ev)
         \/ ~(Watching(d) /\ SidOf(d) \in S) /\ down'[d] = down[d]
BY DEF Emit

LEMMA NextUpOK ==
  ASSUME WatchInv, [Next]_vars, NEW d \in Client PROVE UpOK(d)'
<1>a. TypeOK /\ SessionsOK /\ Pages /\ UpOK(d) /\ up[d] \in Seq(Message)
  BY DEF WatchInv, Pages, TypeOK
<1>b. /\ page \in [Client -> {"new", "open", "closed"}] /\ online \in [Client -> BOOLEAN]
      /\ conn \in [Client -> 0..MaxConn] /\ MaxConn \in Nat
      /\ up \in [Client -> Seq(Message)] /\ down \in [Client -> Seq(Event)]
      /\ users \subseteq Sid
  BY DEF WatchInv, TypeOK, MaxConn
<1>c. \A c \in Client : c # d => SidOf(c) # SidOf(d)
  BY DEF SidOf
<1>1. ASSUME NEW c \in Client, Open(c) \/ Reconnect(c) PROVE UpOK(d)'
  <2>1. /\ ~online[c] /\ page' = [page EXCEPT ![c] = "open"] /\ UNCHANGED <<users, down>>
        /\ conn' = [conn EXCEPT ![c] = conn[c] + 1] /\ online' = [online EXCEPT ![c] = TRUE]
        /\ Send(c, Join)
    BY <1>1, <1>a, <1>b DEF Open, Reconnect, Connect, server, Pages, PageOK
  <2>2. up' = [up EXCEPT ![c] = Append(up[c], Join)]
    BY <2>1, <1>a, SendType, MessageTypes
  <2>3. CASE c # d
    BY <2>1, <2>2, <2>3, <1>a, <1>b, UpFrame
  <2>4. CASE c = d
    <3>1. up[d] = <<>> /\ down[d] = <<>>
      BY <2>1, <2>4, <1>a DEF UpOK
    <3>2. up'[d] = Append(<<>>, Join) /\ Join.kind = "join" /\ Join.kind # "leave" /\ Join.edits = {}
      <4>1. up'[d] = Append(up[d], Join)
        BY <2>2, <2>4, <1>b
      <4>2. QED  BY <3>1, <4>1 DEF Join
    <3>3. Queue(up'[d], "open") /\ Joins(up'[d])
      <4>1. Append(<<>>, Join) = <<Join>>
        OBVIOUS
      <4>2. QED  BY <3>2, <4>1 DEF Queue, Joins
    <3>4. <<d, conn[d] + 1>> \notin users
      <4>1. ASSUME NEW s \in users PROVE Past(s)
        <5>1. s \in lost \/ Current(s)
          BY <1>a DEF SessionsOK
        <5>2. Current(s) => Past(s)
          <6>1. s[1] \in Client
            BY <1>b DEF Sid
          <6>2. QED  BY <6>1, <1>b DEF Current, Past
        <5>3. QED  BY <5>1, <5>2, <1>a DEF SessionsOK
      <4>2. ~Past(<<d, conn[d] + 1>>)
        BY <1>b DEF Past
      <4>3. QED  BY <4>1, <4>2
    <3>5. page'[d] = "open" /\ conn'[d] = conn[d] + 1 /\ online'[d] /\ down'[d] = <<>>
      BY <2>1, <2>4, <3>1, <1>b
    <3>6. QED  BY <2>1, <3>3, <3>4, <3>5, UpParts2
  <2>5. QED  BY <2>3, <2>4
<1>2. ASSUME NEW c \in Client, Type(c) PROVE UpOK(d)'
  <2>1. /\ UNCHANGED <<users, page, conn, online, down>> /\ page[c] = "open"
        /\ SendIf(online[c], c, Update({<<c, typed[c] + 1>>}, TRUE))
    BY <1>2 DEF Type, server
  <2>2. CASE up' = up
    BY <2>1, <2>2, <1>a, UpFrame
  <2>3. CASE up' # up
    <3>1. Send(c, Update({<<c, typed[c] + 1>>}, TRUE)) /\ online[c]
      BY <2>1, <2>3 DEF SendIf
    <3>2. {<<c, typed[c] + 1>>} \in SUBSET Edit
      BY <1>a, <1>2 DEF Type, Happens, Pages, PageOK, TypeOK, Edit
    <3>3. CASE c = d
      BY <2>1, <3>1, <3>2, <3>3, <1>a, UpSend DEF Watching
    <3>4. CASE c # d
      <4>1. up'[d] = up[d]
        BY <3>1, <3>2, <3>4, <1>a, <1>b, SendType, MessageTypes
      <4>2. QED  BY <2>1, <4>1, <1>a, UpFrame
    <3>5. QED  BY <3>3, <3>4
  <2>4. QED  BY <2>2, <2>3
<1>3. ASSUME NEW c \in Client, ReceiveUpdate(c) \/ ReceiveState(c) PROVE UpOK(d)'
  <2>1. /\ UNCHANGED <<users, page, conn, online>> /\ Watching(c) /\ down[c] # <<>>
        /\ down' = [down EXCEPT ![c] = Tail(down[c])]
    BY <1>3 DEF ReceiveUpdate, ReceiveState, Take, server
  <2>2. up' = up \/ \E E \in SUBSET Edit, b \in BOOLEAN : Send(c, Update(E, b))
    <3>1. CASE ReceiveUpdate(c)
      <4>1. Head(down[c]).edits \in SUBSET Edit
        BY <2>1, <1>a, HeadType DEF Event
      <4>2. (Visible(doc[c] \cup Head(down[c]).edits) \ Visible(doc[c])) \in SUBSET Edit
        BY <4>1, <1>a, VisibleType DEF TypeOK
      <4>3. QED  BY <3>1, <4>2 DEF ReceiveUpdate, SendIf
    <3>2. CASE ReceiveState(c)
      <4>1. {<<c, 0>>} \in SUBSET Edit /\ doc[c] \in SUBSET Edit
        BY <1>a DEF TypeOK, Edit
      <4>2. QED  BY <3>2, <4>1 DEF ReceiveState, SendIf
    <3>3. QED  BY <1>3, <3>1, <3>2
  <2>3. CASE c = d
    <3>1. CASE up' = up
      BY <2>1, <2>3, <3>1, <1>a, UpParts, UpParts2 DEF Watching, SidOf
    <3>2. CASE up' # up
      BY <2>1, <2>2, <2>3, <3>2, <1>a, UpSend
    <3>3. QED  BY <3>1, <3>2
  <2>4. CASE c # d
    <3>1. up'[d] = up[d]
      BY <2>2, <2>4, <1>a, <1>b, SendType, MessageTypes
    <3>2. down'[d] = down[d]
      BY <2>1, <2>4, <1>b
    <3>3. QED  BY <2>1, <3>1, <3>2, <1>a, UpFrame
  <2>5. QED  BY <2>3, <2>4
<1>4. ASSUME NEW c \in Client, Close(c) PROVE UpOK(d)'
  <2>1. /\ page[c] = "open" /\ page' = [page EXCEPT ![c] = "closed"]
        /\ SendIf(online[c], c, Leave) /\ down' = [down EXCEPT ![c] = <<>>]
        /\ UNCHANGED <<users, conn, online>>
    BY <1>4 DEF Close, server
  <2>2. Leave \in Message /\ Leave.kind = "leave"
    BY MessageTypes DEF Leave
  <2>3. online[c] => up' = [up EXCEPT ![c] = Append(up[c], Leave)]
    BY <2>1, <2>2, <1>a, SendType DEF SendIf
  <2>4. ~online[c] => up' = up
    BY <2>1 DEF SendIf
  <2>5. CASE c # d
    <3>1. up'[d] = up[d] /\ page'[d] = page[d] /\ down'[d] = down[d]
      BY <2>1, <2>3, <2>4, <2>5, <1>b
    <3>2. QED  BY <2>1, <3>1, <1>a, UpFrame
  <2>6. CASE c = d
    <3>1. page'[d] = "closed" /\ down'[d] = <<>> /\ Queue(up[d], page[d]) /\ page[d] = "open"
      BY <2>1, <2>6, <1>a, <1>b, UpParts
    <3>2. CASE online[d]
      <4>1. up'[d] = Append(up[d], Leave)
        BY <2>3, <2>6, <3>2, <1>b
      <4>2. /\ Queue(Append(up[d], Leave), "closed") /\ Append(up[d], Leave) # <<>>
            /\ Joins(Append(up[d], Leave)) <=> Joins(up[d])
        BY <3>1, <2>2, <1>a, QueueAppend
      <4>3. QED  BY <2>1, <3>1, <3>2, <4>1, <4>2, <1>a, UpParts, UpParts2 DEF SidOf
    <3>3. CASE ~online[d]
      <4>1. up'[d] = <<>> /\ ~online'[d]
        BY <2>1, <2>4, <2>6, <3>3, <1>a DEF UpOK
      <4>2. Queue(<<>>, "closed")
        BY DEF Queue
      <4>3. QED  BY <3>1, <4>1, <4>2, UpParts2
    <3>4. QED  BY <3>2, <3>3
  <2>7. QED  BY <2>5, <2>6
<1>5. ASSUME NEW c \in Client, Drop(c) PROVE UpOK(d)'
  <2>1. /\ UNCHANGED <<users, page, conn>> /\ online' = [online EXCEPT ![c] = FALSE]
        /\ up' = [up EXCEPT ![c] = <<>>] /\ down' = [down EXCEPT ![c] = <<>>]
    BY <1>5 DEF Drop, server
  <2>2. CASE c # d
    BY <2>1, <2>2, <1>a, <1>b, UpFrame
  <2>3. CASE c = d
    <3>1. ~online'[d] /\ up'[d] = <<>> /\ down'[d] = <<>>
      BY <2>1, <2>3, <1>b
    <3>2. Queue(<<>>, page'[d])
      BY DEF Queue
    <3>3. QED  BY <3>1, <3>2, UpParts2
  <2>4. QED  BY <2>2, <2>3
<1>6. ASSUME NEW c \in Client, NEW kind, Accept(c, kind)
      PROVE  /\ UNCHANGED <<page, conn, online>> /\ online[c]
             /\ up[c] # <<>> /\ Head(up[c]).kind = kind
             /\ up'[c] = Tail(up[c]) /\ (c # d => up'[d] = up[d])
  BY <1>6, <1>b DEF Accept, pages
<1>7. ASSUME NEW c \in Client, HandleJoin(c) PROVE UpOK(d)'
  <2>1. Accept(c, "join") /\ users' = users \cup {SidOf(c)}
    BY <1>7 DEF HandleJoin, Entered
  <2>2. /\ UNCHANGED <<page, conn, online>> /\ online[c]
        /\ up[c] # <<>> /\ Head(up[c]).kind = "join"
        /\ up'[c] = Tail(up[c]) /\ (c # d => up'[d] = up[d])
    BY <2>1, <1>6
  <2>3. (Watching(d) /\ d = c) \/ down'[d] = down[d]
    <3>1. \A k \in Client : k = c <=> SidOf(k) \in {SidOf(c)}
      BY DEF SidOf
    <3>2. PICK ev : Emit({SidOf(c)}, ev)
      BY <1>7 DEF HandleJoin
    <3>3. QED  BY <3>1, <3>2, EmitReach
  <2>4. CASE c # d
    <3>1. SidOf(d) \in users' <=> SidOf(d) \in users
      BY <2>1, <2>4, <1>c
    <3>2. QED  BY <2>2, <2>3, <2>4, <3>1, <1>a, UpFrame
  <2>5. CASE c = d
    <3>1. /\ Queue(Tail(up[d]), page[d]) /\ ~Joins(Tail(up[d]))
          /\ page[d] = "closed" => Tail(up[d]) # <<>>
      BY <2>2, <2>5, <1>a, QueueTail, UpParts
    <3>2. page[d] # "new"
      BY <2>2, <2>5, <1>a DEF Pages, PageOK
    <3>3. page[d] # "open" => down'[d] = <<>>
      BY <2>3, <1>a DEF UpOK, Watching
    <3>4. QED  BY <2>1, <2>2, <2>5, <3>1, <3>2, <3>3, <1>a, <1>b, UpParts2 DEF SidOf
  <2>6. QED  BY <2>4, <2>5
<1>8. ASSUME NEW s, NEW E, NEW b, NEW rest, AppendUpdate(s, E, b, rest)
      PROVE  /\ users' = users
             /\ (Watching(d) /\ SidOf(d) \in users) \/ down'[d] = down[d]
  <2>1. PICK ev : Emit(users \ {s}, ev) /\ users' = users
    BY <1>8 DEF AppendUpdate
  <2>2. QED  BY <2>1, EmitReach
<1>9. ASSUME NEW c \in Client, HandleUpdate(c) PROVE UpOK(d)'
  <2>1. Accept(c, "update")
    BY <1>9 DEF HandleUpdate
  <2>2. /\ UNCHANGED <<page, conn, online>> /\ online[c]
        /\ up[c] # <<>> /\ Head(up[c]).kind = "update"
        /\ up'[c] = Tail(up[c]) /\ (c # d => up'[d] = up[d])
    BY <2>1, <1>6
  <2>3. /\ users' = users
        /\ (Watching(d) /\ SidOf(d) \in users) \/ down'[d] = down[d]
    BY <1>8, <1>9 DEF HandleUpdate
  <2>4. CASE c # d
    BY <2>2, <2>3, <2>4, <1>a, UpFrame
  <2>5. CASE c = d
    <3>1. /\ Queue(Tail(up[d]), page[d]) /\ ~Joins(Tail(up[d])) /\ ~Joins(up[d])
          /\ page[d] = "closed" => Tail(up[d]) # <<>>
      BY <2>2, <2>5, <1>a, QueueTail, UpParts DEF Joins
    <3>2. page[d] \in {"open", "closed"}
      BY <2>2, <2>5, <1>a, <1>b DEF Pages, PageOK
    <3>3. page[d] # "open" => down'[d] = <<>>
      BY <2>3, <1>a DEF UpOK, Watching
    <3>4. SidOf(d) \in users
      BY <2>2, <2>5, <3>1, <3>2, <1>a, UpParts
    <3>5. QED  BY <2>2, <2>3, <2>5, <3>1, <3>2, <3>3, <3>4, UpParts2 DEF SidOf
  <2>6. QED  BY <2>4, <2>5
<1>10. ASSUME NEW c \in Client, HandleLeave(c) PROVE UpOK(d)'
  <2>1. Accept(c, "leave") /\ users' = users \ {SidOf(c)} /\ down' = down
    BY <1>10 DEF HandleLeave
  <2>2. /\ UNCHANGED <<page, conn, online>> /\ online[c]
        /\ up[c] # <<>> /\ Head(up[c]).kind = "leave"
        /\ up'[c] = Tail(up[c]) /\ (c # d => up'[d] = up[d])
    BY <2>1, <1>6
  <2>3. CASE c # d
    <3>1. SidOf(d) \in users' <=> SidOf(d) \in users
      BY <2>1, <2>3, <1>c
    <3>2. QED  BY <2>1, <2>2, <2>3, <3>1, <1>a, UpFrame
  <2>4. CASE c = d
    <3>1. Queue(Tail(up[d]), page[d]) /\ Tail(up[d]) = <<>> /\ page[d] = "closed"
      BY <2>2, <2>4, <1>a, QueueTail, UpParts
    <3>2. down[d] = <<>> /\ <<d, conn'[d]>> \notin users'
      BY <2>1, <2>2, <2>4, <3>1, <1>a, UpParts DEF SidOf
    <3>3. QED  BY <2>1, <2>2, <2>4, <3>1, <3>2, UpParts2 DEF Joins
  <2>5. QED  BY <2>3, <2>4
<1>11. ASSUME NEW h \in handlers, SavesStopped(h) PROVE UpOK(d)'
  <2>1. /\ users' = users
        /\ (Watching(d) /\ SidOf(d) \in users) \/ down'[d] = down[d]
    BY <1>8, <1>11 DEF SavesStopped
  <2>2. UNCHANGED <<up, page, conn, online>>
    BY <1>11 DEF SavesStopped, pages
  <2>3. QED  BY <2>1, <2>2, <1>a, UpFrame
<1>12. ASSUME NEW h \in handlers, CreateSave(h) \/ Left(h) PROVE UpOK(d)'
  <2>1. UNCHANGED <<users, up, down, page, conn, online>>
    BY <1>12 DEF CreateSave, Left, pages
  <2>2. QED  BY <2>1, <1>a, UpFrame
<1>13. ASSUME NEW s \in lost, Disconnect(s) PROVE UpOK(d)'
  <2>1. users' = users \ {s} /\ UNCHANGED <<up, down, page, conn, online>>
    BY <1>13 DEF Disconnect
  <2>2. online[d] => SidOf(d) # s
    BY <1>a DEF SessionsOK, Current, SidOf
  <2>3. QED  BY <2>1, <2>2, <1>a, UpFrame
<1>14. CASE SaveEnds \/ UNCHANGED vars
  <2>1. UNCHANGED <<users, up, down, page, conn, online>>
    BY <1>14 DEF SaveEnds, vars, server, pages
  <2>2. QED  BY <2>1, <1>a, UpFrame
<1>15. CASE Crash
  <2>1. up'[d] = <<>> /\ down'[d] = <<>> /\ ~online'[d]
    BY <1>15 DEF Crash
  <2>2. Queue(<<>>, page'[d])
    BY DEF Queue
  <2>3. QED  BY <2>1, <2>2, UpParts2
<1>16. QED
  BY <1>1, <1>2, <1>3, <1>4, <1>5, <1>7, <1>9, <1>10, <1>11, <1>12, <1>13, <1>14, <1>15
     DEF Next, ServerStep, PageStep

LEMMA InitWatch == Init => WatchInv
<1> SUFFICES ASSUME Init PROVE WatchInv
  OBVIOUS
<1>1. TypeOK
  <2>1. /\ conn \in [Client -> 0..MaxConn] /\ typed \in [Client -> 0..MaxEvent]
        /\ events \in 0..MaxEvent
    BY DEF Init, MaxConn
  <2>2. up \in [Client -> Seq(Message)] /\ down \in [Client -> Seq(Event)]
    BY DEF Init
  <2>3. /\ page \in [Client -> {"new", "open", "closed"}] /\ online \in [Client -> BOOLEAN]
        /\ doc \in [Client -> SUBSET Edit] /\ dep \in [Edit -> SUBSET Edit]
    BY DEF Init
  <2>4. QED  BY <2>1, <2>2, <2>3 DEF Init, TypeOK
<1>2. SessionsOK
  BY DEF Init, SessionsOK
<1>3. ASSUME NEW c \in Client PROVE PageOK(c) /\ UpOK(c)
  BY DEF Init, PageOK, UpOK, Joining
<1>4. QED  BY <1>1, <1>2, <1>3 DEF WatchInv

LEMMA NextWatch == WatchInv /\ [Next]_vars => WatchInv'
<1> SUFFICES ASSUME WatchInv, [Next]_vars PROVE WatchInv'
  OBVIOUS
<1>1. TypeOK /\ Pages /\ SessionsOK
  BY DEF WatchInv, Pages
<1>2. TypeOK' /\ Pages' /\ SessionsOK'
  BY <1>1, NextTypeOK, NextPages, NextSessionsOK
<1>3. \A c \in Client : UpOK(c)'
  BY NextUpOK
<1>4. QED  BY <1>2, <1>3 DEF WatchInv, Pages

LEMMA WatchUsers == WatchInv => UsersWatch
<1> SUFFICES ASSUME WatchInv, Quiet
             PROVE  users = {SidOf(c) : c \in {d \in Client : Watching(d)}}
  BY DEF UsersWatch
<1>1. \A c \in Client : UpOK(c) /\ PageOK(c) /\ up[c] = <<>> /\ ~Joining(c)
  BY DEF WatchInv, Quiet, Joining
<1>2. \A c \in Client : online[c] => (SidOf(c) \in users <=> page[c] = "open")
  BY <1>1 DEF UpOK
<1>3. ASSUME NEW s \in users PROVE \E c \in Client : Watching(c) /\ s = SidOf(c)
  <2>1. Current(s) /\ s \in Sid
    BY DEF Quiet, WatchInv, SessionsOK, TypeOK
  <2>2. s[1] \in Client /\ s = SidOf(s[1]) /\ online[s[1]]
    BY <2>1 DEF Current, SidOf, Sid
  <2>3. QED  BY <2>2, <1>2 DEF Watching
<1>4. QED  BY <1>2, <1>3 DEF Watching

(* For any number of pages, edits, broken connections and restarts: types. *)
THEOREM TypeCorrect == Spec => []TypeOK
<1>1. WatchInv => TypeOK
  BY DEF WatchInv
<1>2. QED  BY <1>1, InitWatch, NextWatch, PTL DEF Spec

(* When nothing is under way, the sessions the server has in the document, *)
(* which decide about broadcasts, clearing and `alone`, are those of the   *)
(* pages that show it: the handlers of one session overlap, the pages may  *)
(* leave before they have joined, and lose their connections at any time.  *)
THEOREM SessionsOfPages == Spec => []UsersWatch
BY InitWatch, NextWatch, WatchUsers, PTL DEF Spec

-----------------------------------------------------------------------------
(* The log and the documents *)

LEMMA HasAppend ==
  ASSUME NEW S, NEW q \in Seq(S), NEW x \in S, NEW e
  PROVE  Has(Append(q, x), e) <=> Has(q, e) \/ e \in x.edits
<1>1. /\ Len(q) \in Nat /\ DOMAIN q = 1..Len(q) /\ DOMAIN Append(q, x) = 1..(Len(q) + 1)
      /\ \A i \in 1..Len(q) : Append(q, x)[i] = q[i]
      /\ Append(q, x)[Len(q) + 1] = x
  BY AppendFacts
<1>2. ASSUME Has(Append(q, x), e) PROVE Has(q, e) \/ e \in x.edits
  <2>1. PICK i \in 1..(Len(q) + 1) : e \in Append(q, x)[i].edits
    BY <1>1, <1>2 DEF Has
  <2>2. CASE i = Len(q) + 1
    BY <1>1, <2>1, <2>2
  <2>3. CASE i \in 1..Len(q)
    BY <1>1, <2>1, <2>3 DEF Has
  <2>4. QED  BY <1>1, <2>2, <2>3
<1>3. ASSUME Has(q, e) PROVE Has(Append(q, x), e)
  <2>1. PICK i \in 1..Len(q) : e \in q[i].edits
    BY <1>1, <1>3 DEF Has
  <2>2. i \in 1..(Len(q) + 1) /\ e \in Append(q, x)[i].edits
    BY <1>1, <2>1
  <2>3. QED  BY <1>1, <2>2 DEF Has
<1>4. ASSUME e \in x.edits PROVE Has(Append(q, x), e)
  <2>1. Len(q) + 1 \in 1..(Len(q) + 1)
    BY <1>1
  <2>2. QED  BY <1>1, <1>4, <2>1 DEF Has
<1>5. QED  BY <1>2, <1>3, <1>4

LEMMA HasTail ==
  ASSUME NEW S, NEW q \in Seq(S), q # <<>>, NEW e
  PROVE  Has(q, e) <=> Has(Tail(q), e) \/ e \in Head(q).edits
<1>1. /\ Len(q) \in Nat /\ Len(q) > 0 /\ DOMAIN q = 1..Len(q)
      /\ DOMAIN Tail(q) = 1..(Len(q) - 1)
      /\ \A i \in 1..(Len(q) - 1) : Tail(q)[i] = q[i + 1]
      /\ Head(q) = q[1]
  BY TailFacts
<1>2. ASSUME Has(q, e) PROVE Has(Tail(q), e) \/ e \in Head(q).edits
  <2>1. PICK i \in 1..Len(q) : e \in q[i].edits
    BY <1>1, <1>2 DEF Has
  <2>2. CASE i = 1
    BY <1>1, <2>1, <2>2
  <2>3. CASE i # 1
    <3>1. i - 1 \in 1..(Len(q) - 1) /\ (i - 1) + 1 = i
      BY <1>1, <2>3
    <3>2. e \in Tail(q)[i - 1].edits
      BY <1>1, <2>1, <3>1
    <3>3. QED  BY <1>1, <3>1, <3>2 DEF Has
  <2>4. QED  BY <2>2, <2>3
<1>3. ASSUME Has(Tail(q), e) PROVE Has(q, e)
  <2>1. PICK i \in 1..(Len(q) - 1) : e \in Tail(q)[i].edits
    BY <1>1, <1>3 DEF Has
  <2>2. i + 1 \in 1..Len(q) /\ e \in q[i + 1].edits
    BY <1>1, <2>1
  <2>3. QED  BY <1>1, <2>2 DEF Has
<1>4. ASSUME e \in Head(q).edits PROVE Has(q, e)
  BY <1>1, <1>4 DEF Has
<1>5. QED  BY <1>2, <1>3, <1>4

LEMMA HasSent ==
  ASSUME NEW q \in Seq(Message)
  PROVE  /\ \A x \in Message : \A e : Has(Append(q, x), e) <=> Has(q, e) \/ e \in x.edits
         /\ q # <<>> => \A e : Has(q, e) <=> Has(Tail(q), e) \/ e \in Head(q).edits
BY HasAppend, HasTail

LEMMA HasEvent ==
  ASSUME NEW q \in Seq(Event)
  PROVE  /\ \A x \in Event : \A e : Has(Append(q, x), e) <=> Has(q, e) \/ e \in x.edits
         /\ q # <<>> => \A e : Has(q, e) <=> Has(Tail(q), e) \/ e \in Head(q).edits
BY HasAppend, HasTail

LEMMA HasNone == \A e : ~Has(<<>>, e)
BY DEF Has

(* LogOf, now and next, with the queues named.                             *)
LEMMA LogParts ==
  ASSUME NEW c \in Client
  PROVE  LogOf(c) <=>
    /\ \A e \in doc[c] : Has(up[c], e) \/ (~Joins(up[c]) /\ (e \in log \/ Delayed(c, e)))
    /\ \A e \in Edit : Has(down[c], e) => e \in log
    /\ \A e \in Edit : Has(up[c], e) \/ Delayed(c, e) => e \in doc[c]
    /\ ~torn /\ ~Joins(up[c]) => \A e \in log : e \in doc[c] \/ Has(down[c], e)
BY DEF LogOf, Sends, Gets, Joining, Joins

LEMMA LogParts2 ==
  ASSUME NEW c \in Client
  PROVE  LogOf(c)' <=>
    /\ \A e \in doc'[c] : Has(up'[c], e) \/ (~Joins(up'[c]) /\ (e \in log' \/ Delayed(c, e)'))
    /\ \A e \in Edit : Has(down'[c], e) => e \in log'
    /\ \A e \in Edit : Has(up'[c], e) \/ Delayed(c, e)' => e \in doc'[c]
    /\ ~torn' /\ ~Joins(up'[c]) => \A e \in log' : e \in doc'[c] \/ Has(down'[c], e)
BY DEF LogOf, Sends, Gets, Joining, Joins, Has

(* Which updates of a page wait for saves.                                 *)
LEMMA DelayedFrame ==
  ASSUME NEW c \in Client, conn'[c] = conn[c],
         \A h \in handlers \cup handlers' :
           h.at = "stop" /\ h.sid = SidOf(c) => (h \in handlers <=> h \in handlers')
  PROVE  \A e : Delayed(c, e)' <=> Delayed(c, e)
<1>1. SidOf(c)' = SidOf(c)
  BY DEF SidOf
<1>2. QED  BY <1>1 DEF Delayed

(* A step that touches neither the page, nor its queues, nor the log,      *)
(* unless it clears the log before the page has joined.                    *)
LEMMA LogFrame ==
  ASSUME NEW c \in Client, LogOf(c),
         doc'[c] = doc[c], up'[c] = up[c], down'[c] = down[c], torn' = torn,
         \A e \in Edit : Delayed(c, e)' <=> Delayed(c, e), doc[c] \subseteq Edit,
         log' = log \/ (Joins(up[c]) /\ down[c] = <<>>)
  PROVE  LogOf(c)'
<1>1. CASE log' = log
  BY <1>1, LogParts, LogParts2
<1>2. CASE Joins(up[c]) /\ down[c] = <<>>
  BY <1>2, LogParts, LogParts2, HasNone
<1>3. QED  BY <1>1, <1>2

(* The page receives the edits H, has X of its own, and sends Y.           *)
LEMMA LogPage ==
  ASSUME NEW c \in Client, LogOf(c), doc[c] \subseteq Edit,
         NEW H \in SUBSET Edit, NEW X \in SUBSET Edit, NEW Y \in SUBSET Edit,
         doc'[c] = doc[c] \cup H \cup X, X \subseteq Y, Y \subseteq doc'[c],
         \A e : Has(down[c], e) <=> Has(down'[c], e) \/ e \in H,
         H = {} \/ ~Joins(up[c]),
         \A e : Has(up'[c], e) <=> Has(up[c], e) \/ e \in Y,
         Joins(up'[c]) <=> Joins(up[c]),
         UNCHANGED <<log, torn>>, \A e \in Edit : Delayed(c, e)' <=> Delayed(c, e)
  PROVE  LogOf(c)'
<1>1. ASSUME NEW e \in doc'[c]
      PROVE  Has(up'[c], e) \/ (~Joins(up'[c]) /\ (e \in log' \/ Delayed(c, e)'))
  <2>1. CASE e \in doc[c]
    BY <2>1, LogParts
  <2>2. CASE e \in H
    BY <2>2, LogParts
  <2>3. CASE e \in X
    BY <2>3
  <2>4. QED  BY <2>1, <2>2, <2>3
<1>2. QED  BY <1>1, LogParts, LogParts2

(* An update of another session is appended and broadcast.                 *)
LEMMA LogOthers ==
  ASSUME WatchInv, NEW c \in Client, LogOf(c), Watching(c),
         NEW s \in Sid, NEW E \in SUBSET Edit, NEW b \in BOOLEAN, NEW rest \in SUBSET handlers,
         s # SidOf(c), \A h \in handlers \ rest : h.sid = s,
         AppendUpdate(s, E, b, rest),
         doc'[c] = doc[c], conn'[c] = conn[c], up'[c] = up[c]
  PROVE  LogOf(c)'
<1>1. /\ log' = log \cup E /\ torn' = torn
      /\ \A h \in handlers' : h \in rest \/ h.at = "save"
      /\ \A h \in rest : h \in handlers'
  BY DEF AppendUpdate, Appended
<1>2. \A e : Delayed(c, e)' <=> Delayed(c, e)
  BY <1>1, DelayedFrame
<1>3. Emit(users \ {s}, [kind |-> "update", edits |-> E, alone |-> FALSE])
  BY DEF AppendUpdate
<1>4. UpOK(c) /\ doc[c] \subseteq Edit /\ log \subseteq Edit /\ down[c] \in Seq(Event)
  BY DEF WatchInv, TypeOK
<1>5. CASE Joins(up[c])
  <2>1. down[c] = <<>> /\ SidOf(c) \notin users
    BY <1>4, <1>5, UpParts DEF Watching
  <2>2. down'[c] = <<>>
    BY <1>3, <2>1, EmitReach
  <2>3. QED  BY <1>1, <1>2, <1>5, <2>1, <2>2, LogParts, LogParts2, HasNone
<1>6. CASE ~Joins(up[c])
  <2>1. SidOf(c) \in users \ {s}
    BY <1>4, <1>6, UpParts DEF Watching
  <2> DEFINE ev == [kind |-> "update", edits |-> E, alone |-> FALSE]
  <2>2. down'[c] = Append(down[c], ev) /\ ev \in Event /\ ev.edits = E
    BY <1>3, <2>1, EmitReach DEF Event
  <2>3. \A e : Has(down'[c], e) <=> Has(down[c], e) \/ e \in E
    BY <1>4, <2>2, HasEvent
  <2>4. QED  BY <1>1, <1>2, <1>4, <1>6, <2>3, LogParts, LogParts2
<1>7. QED  BY <1>5, <1>6

(* An update of the page itself is appended.                               *)
LEMMA LogOwn ==
  ASSUME NEW c \in Client, LogOf(c),
         NEW E \in SUBSET Edit, NEW b \in BOOLEAN, NEW rest,
         AppendUpdate(SidOf(c), E, b, rest),
         doc'[c] = doc[c], doc[c] \subseteq Edit, log \subseteq Edit,
         Joins(up'[c]) <=> Joins(up[c]), Joins(up[c]) => up'[c] = up[c],
         \A e : Has(up[c], e) => Has(up'[c], e) \/ e \in E,
         \A e : Has(up'[c], e) => Has(up[c], e),
         \A e : Delayed(c, e) => Delayed(c, e)' \/ e \in E,
         \A e : Delayed(c, e)' => Delayed(c, e),
         E \subseteq doc[c]
  PROVE  LogOf(c)'
<1>1. log' = log \cup E /\ torn' = torn
  BY DEF AppendUpdate, Appended
<1>2. down'[c] = down[c]
  <2>1. Emit(users \ {SidOf(c)}, [kind |-> "update", edits |-> E, alone |-> FALSE])
    BY DEF AppendUpdate
  <2>2. QED  BY <2>1, EmitReach
<1>3. QED  BY <1>1, <1>2, LogParts, LogParts2

LEMMA NextLogOf ==
  ASSUME WatchInv, LogOK, WatchInv', [Next]_vars, NEW c \in Client, Steady(c)'
  PROVE  LogOf(c)'
<1>a. TypeOK /\ Pages /\ SessionsOK /\ UpOK(c) /\ PageOK(c)
  BY DEF WatchInv, Pages
<1>b. /\ page \in [Client -> {"new", "open", "closed"}] /\ online \in [Client -> BOOLEAN]
      /\ conn \in [Client -> 0..MaxConn] /\ MaxConn \in Nat
      /\ up \in [Client -> Seq(Message)] /\ down \in [Client -> Seq(Event)]
      /\ doc \in [Client -> SUBSET Edit] /\ log \subseteq Edit
      /\ up[c] \in Seq(Message) /\ down[c] \in Seq(Event) /\ doc[c] \subseteq Edit
      /\ conn[c] \in Nat
  BY <1>a DEF TypeOK, MaxConn
<1>h. up[c] \in Seq(Message) /\ down[c] \in Seq(Event)
  BY <1>b
<1>c. page'[c] = "open" /\ online'[c] /\ conn'[c] = 1
  BY DEF Steady, Watching
<1>d. ASSUME page[c] = "open", online[c], conn[c] = 1 PROVE Watching(c) /\ Steady(c) /\ LogOf(c)
  BY <1>d DEF LogOK, Steady, Watching
<1>e. \A k \in Client : k # c => SidOf(k) # SidOf(c)
  BY DEF SidOf
<1>f. (Joins(up[c]) \/ page[c] # "open" => down[c] = <<>>) /\ Queue(up[c], page[c])
  BY <1>a, UpParts
<1>g. ASSUME UNCHANGED <<page, conn, online>> PROVE Watching(c) /\ Steady(c) /\ LogOf(c)
  BY <1>c, <1>d, <1>g
<1>1. ASSUME NEW k \in Client, Open(k) \/ Reconnect(k) PROVE LogOf(c)'
  <2>1. /\ UNCHANGED <<log, handlers, torn, doc, down>> /\ conn' = [conn EXCEPT ![k] = conn[k] + 1]
        /\ online' = [online EXCEPT ![k] = TRUE] /\ Send(k, Join)
        /\ page' = page \/ page' = [page EXCEPT ![k] = "open"]
    BY <1>1 DEF Open, Reconnect, Connect, server, ghosts
  <2>2. up' = [up EXCEPT ![k] = Append(up[k], Join)]
    BY <2>1, <1>a, SendType, MessageTypes
  <2>3. CASE k # c
    <3>1. /\ page[c] = "open" /\ online[c] /\ conn[c] = 1 /\ conn'[c] = conn[c]
          /\ up'[c] = up[c]
      BY <2>1, <2>2, <2>3, <1>b, <1>c
    <3>2. \A e \in Edit : Delayed(c, e)' <=> Delayed(c, e)
      BY <2>1, <3>1, DelayedFrame
    <3>3. QED  BY <2>1, <3>1, <3>2, <1>b, <1>d, LogFrame
  <2>4. CASE k = c
    <3>1. conn[c] = 0
      BY <2>1, <2>4, <1>b, <1>c
    <3>2. doc[c] = {} /\ ~online[c]
      BY <3>1, <1>a, <1>b DEF PageOK
    <3>3. up[c] = <<>> /\ down[c] = <<>>
      BY <3>2, <1>a DEF UpOK
    <3>4. up'[c] = Append(up[c], Join) /\ Join \in Message /\ Join.edits = {} /\ Join.kind = "join"
      BY <2>2, <2>4, <1>b, MessageTypes DEF Join
    <3>5. \A e : ~Has(up'[c], e)
      <4>1. \A e : Has(Append(up[c], Join), e) <=> Has(up[c], e) \/ e \in Join.edits
        BY <3>4, <1>h, HasSent
      <4>2. \A e : ~Has(up[c], e)
        BY <3>3, HasNone
      <4>3. QED  BY <3>4, <4>1, <4>2
    <3>6. Joins(up'[c])
      <4>1. Append(<<>>, Join) = <<Join>>
        OBVIOUS
      <4>2. QED  BY <3>3, <3>4, <4>1 DEF Joins
    <3>7. \A e : ~Delayed(c, e)'
      <4>1. \A h \in handlers' : h.sid[2] <= conn[h.sid[1]]
        BY <2>1, <1>a DEF SessionsOK, Past
      <4>2. \A h \in handlers' : h.sid # <<c, 1>>
        BY <4>1, <3>1
      <4>3. SidOf(c)' = <<c, 1>>
        BY <1>c DEF SidOf
      <4>4. QED  BY <4>2, <4>3 DEF Delayed
    <3>8. QED  BY <2>1, <3>2, <3>3, <3>5, <3>6, <3>7, HasNone, LogParts2
  <2>5. QED  BY <2>3, <2>4
<1>2. ASSUME NEW k \in Client, Type(k) PROVE LogOf(c)'
  <2> DEFINE x == <<k, typed[k] + 1>>
  <2>1. /\ UNCHANGED <<log, handlers, torn, page, conn, online, down>>
        /\ doc' = [doc EXCEPT ![k] = doc[k] \cup {x}]
        /\ SendIf(online[k], k, Update({x}, TRUE))
    BY <1>2 DEF Type, server, ghosts
  <2>2. {x} \in SUBSET Edit /\ Update({x}, TRUE) \in Message
    <3>1. x \in Edit
      BY <1>2, <1>a DEF Type, Happens, Pages, PageOK, TypeOK, Edit
    <3>2. QED  BY <3>1, MessageTypes
  <2>3. Steady(c) /\ LogOf(c)
    BY <2>1, <1>g
  <2>4. \A e \in Edit : Delayed(c, e)' <=> Delayed(c, e)
    BY <2>1, DelayedFrame
  <2>5. CASE k # c
    <3>1. up'[c] = up[c] /\ doc'[c] = doc[c] /\ down'[c] = down[c]
      BY <2>1, <2>2, <2>5, <1>a, <1>b, SendType DEF SendIf
    <3>2. torn' = torn /\ log' = log
      BY <2>1
    <3>3. doc[c] \subseteq Edit /\ LogOf(c)
      BY <1>b, <2>3
    <3>4. QED  BY <2>4, <3>1, <3>2, <3>3, LogFrame
  <2>6. CASE k = c
    <3>1. up'[c] = Append(up[c], Update({x}, TRUE)) /\ doc'[c] = doc[c] \cup {} \cup {x}
      <4>1. Send(c, Update({x}, TRUE))
        BY <2>1, <2>6, <1>c DEF SendIf
      <4>2. up' = [up EXCEPT ![c] = Append(up[c], Update({x}, TRUE))]
        BY <2>2, <4>1, <1>a, SendType
      <4>3. up'[c] = Append(up[c], Update({x}, TRUE))
        BY <4>2, <1>b
      <4>4. doc'[c] = doc[c] \cup {x}
        BY <2>1, <2>6, <1>b
      <4>5. QED  BY <4>3, <4>4
    <3>2. \A e : Has(up'[c], e) <=> Has(up[c], e) \/ e \in {x}
      BY <2>2, <3>1, <1>h, HasSent DEF Update
    <3>3. Joins(up'[c]) <=> Joins(up[c])
      <4>1. Update({x}, TRUE).kind # "join"
        BY DEF Update
      <4> DEFINE m == Update({x}, TRUE)
      <4>2. m \in Message /\ m.kind # "join" /\ up'[c] = Append(up[c], m)
        BY <2>2, <3>1, <4>1
      <4> HIDE DEF m
      <4>3. QED  BY <4>2, <1>h, JoinsAppend
    <3>4. \A e : Has(down[c], e) <=> Has(down'[c], e) \/ e \in {}
      BY <2>1
    <3>5. {} \in SUBSET Edit /\ {x} \subseteq doc'[c]
      BY <3>1
    <3>6. QED  BY <2>1, <2>2, <2>3, <2>4, <3>1, <3>2, <3>3, <3>4, <3>5, <1>b, LogPage
  <2>7. QED  BY <2>5, <2>6
<1>3. ASSUME NEW k \in Client, ReceiveUpdate(k) \/ ReceiveState(k) PROVE LogOf(c)'
  <2>1. /\ UNCHANGED <<log, handlers, torn, page, conn, online>> /\ Watching(k) /\ down[k] # <<>>
        /\ down' = [down EXCEPT ![k] = Tail(down[k])]
    BY <1>3 DEF ReceiveUpdate, ReceiveState, Take, server, ghosts
  <2> DEFINE H == Head(down[k]).edits
  <2>2. H \in SUBSET Edit
    BY <2>1, <1>a, HeadType DEF Event
  <2>3. \E X, Y \in SUBSET Edit, b \in BOOLEAN :
          /\ doc' = [doc EXCEPT ![k] = doc[k] \cup H \cup X] /\ X \subseteq Y
          /\ Y \subseteq doc[k] \cup H \cup X
          /\ Send(k, Update(Y, b)) \/ (Y = {} /\ up' = up)
    <3>1. ASSUME NEW X \in SUBSET Edit, NEW Y \in SUBSET Edit, NEW b \in BOOLEAN,
                 doc' = [doc EXCEPT ![k] = doc[k] \cup H \cup X], X \subseteq Y,
                 Y \subseteq doc[k] \cup H \cup X,
                 Send(k, Update(Y, b)) \/ (Y = {} /\ up' = up)
          PROVE  <2>3!:
      BY <3>1
    <3>2. {} \in SUBSET Edit /\ TRUE \in BOOLEAN /\ FALSE \in BOOLEAN
      OBVIOUS
    <3>3. CASE ReceiveUpdate(k)
      <4> DEFINE delta == Visible(doc[k] \cup H) \ Visible(doc[k])
      <4>1. delta \subseteq doc[k] \cup H
        BY VisibleType
      <4>2. delta \in SUBSET Edit
        BY <4>1, <2>2, <1>b
      <4>3. doc' = [doc EXCEPT ![k] = doc[k] \cup H \cup {}]
        BY <3>3 DEF ReceiveUpdate
      <4>4. CASE Send(k, Update(delta, TRUE))
        BY <3>1, <3>2, <4>1, <4>2, <4>3, <4>4
      <4>5. CASE up' = up
        BY <3>1, <3>2, <4>3, <4>5
      <4>6. QED  BY <3>3, <4>4, <4>5 DEF ReceiveUpdate, SendIf
    <3>4. CASE ReceiveState(k)
      <4>1. CASE H # {} /\ doc' = [doc EXCEPT ![k] = @ \cup H] /\ up' = up
        <5>1. doc' = [doc EXCEPT ![k] = doc[k] \cup H \cup {}]
          BY <4>1
        <5>2. QED  BY <3>1, <3>2, <4>1, <5>1
      <4>2. CASE /\ H = {} /\ doc' = [doc EXCEPT ![k] = @ \cup {<<k, 0>>}]
                 /\ Send(k, Update({<<k, 0>>}, TRUE))
        <5>1. {<<k, 0>>} \in SUBSET Edit
          BY DEF Edit
        <5>2. doc' = [doc EXCEPT ![k] = doc[k] \cup H \cup {<<k, 0>>}]
          BY <4>2
        <5>3. QED  BY <3>1, <3>2, <4>2, <5>1, <5>2
      <4>3. CASE H = {} /\ doc' = doc /\ SendIf(Visible(doc[k]) # {}, k, Update(doc[k], FALSE))
        <5>1. doc' = [doc EXCEPT ![k] = doc[k] \cup H \cup {}]
          BY <4>3, <1>b
        <5>2. doc[k] \in SUBSET Edit
          BY <1>b
        <5>3. CASE Send(k, Update(doc[k], FALSE))
          BY <3>1, <3>2, <5>1, <5>2, <5>3
        <5>4. CASE up' = up
          BY <3>1, <3>2, <5>1, <5>4
        <5>5. QED  BY <4>3, <5>3, <5>4 DEF SendIf
      <4>4. QED  BY <3>4, <4>1, <4>2, <4>3 DEF ReceiveState, StartsAfresh
    <3>5. QED  BY <1>3, <3>3, <3>4
  <2>4. PICK X \in SUBSET Edit, Y \in SUBSET Edit, b \in BOOLEAN :
          /\ doc' = [doc EXCEPT ![k] = doc[k] \cup H \cup X] /\ X \subseteq Y
          /\ Y \subseteq doc[k] \cup H \cup X
          /\ Send(k, Update(Y, b)) \/ (Y = {} /\ up' = up)
    BY <2>3
  <2>5. Steady(c) /\ LogOf(c) /\ page[c] = "open"
    BY <2>1, <1>g DEF Watching
  <2>6. \A e \in Edit : Delayed(c, e)' <=> Delayed(c, e)
    BY <2>1, DelayedFrame
  <2>7. Update(Y, b) \in Message /\ Update(Y, b).kind = "update" /\ Update(Y, b).edits = Y
    BY MessageTypes DEF Update
  <2>8. Send(k, Update(Y, b)) => up' = [up EXCEPT ![k] = Append(up[k], Update(Y, b))]
    BY <2>7, <1>a, SendType
  <2>9. CASE k # c
    <3>1. up'[c] = up[c] /\ doc'[c] = doc[c] /\ down'[c] = down[c]
      BY <2>1, <2>4, <2>8, <2>9, <1>b
    <3>2. QED  BY <2>1, <2>5, <2>6, <3>1, <1>b, LogFrame
  <2>10. CASE k = c
    <3>1. doc'[c] = doc[c] \cup H \cup X /\ down'[c] = Tail(down[c])
      BY <2>1, <2>4, <2>10, <1>b
    <3>2. \A e : Has(down[c], e) <=> Has(down'[c], e) \/ e \in H
      BY <2>1, <2>10, <3>1, <1>h, HasEvent
    <3>3. ~Joins(up[c])
      BY <2>1, <2>10, <1>f
    <3>4. /\ \A e : Has(up'[c], e) <=> Has(up[c], e) \/ e \in Y
          /\ Joins(up'[c]) <=> Joins(up[c])
      <4>1. CASE Y = {} /\ up' = up
        BY <4>1
      <4>2. CASE Send(k, Update(Y, b))
        <5>1. up'[c] = Append(up[c], Update(Y, b))
          BY <2>8, <2>10, <4>2, <1>b
        <5>2. \A e : Has(up'[c], e) <=> Has(up[c], e) \/ e \in Y
          BY <2>7, <5>1, <1>h, HasSent
        <5>3. QED  BY <2>7, <5>1, <5>2, <1>h, JoinsAppend
      <4>3. QED  BY <2>4, <4>1, <4>2
    <3>5. Y \subseteq doc'[c] /\ X \subseteq Y
      BY <2>4, <2>10, <3>1
    <3>6. QED  BY <2>1, <2>2, <2>5, <2>6, <3>1, <3>2, <3>3, <3>4, <3>5, <1>b, LogPage
  <2>11. QED  BY <2>9, <2>10
<1>4. ASSUME NEW k \in Client, Close(k) PROVE LogOf(c)'
  <2>1. /\ UNCHANGED <<log, handlers, torn, conn, online>> /\ SendIf(online[k], k, Leave)
        /\ page' = [page EXCEPT ![k] = "closed"] /\ down' = [down EXCEPT ![k] = <<>>]
        /\ doc' = [doc EXCEPT ![k] = {}]
    BY <1>4 DEF Close, server, ghosts
  <2>2. k # c
    BY <2>1, <1>b, <1>c
  <2>3. up'[c] = up[c]
    BY <2>1, <2>2, <1>a, <1>b, MessageTypes, SendType DEF SendIf
  <2>4. page'[c] = page[c] /\ down'[c] = down[c] /\ doc'[c] = doc[c]
    BY <2>1, <2>2, <1>b
  <2>5. \A e \in Edit : Delayed(c, e)' <=> Delayed(c, e)
    BY <2>1, DelayedFrame
  <2>6. QED  BY <2>1, <2>3, <2>4, <2>5, <1>b, <1>c, <1>d, LogFrame
<1>5. ASSUME NEW k \in Client, Drop(k) PROVE LogOf(c)'
  <2>1. /\ UNCHANGED <<log, handlers, torn, conn, page, doc>>
        /\ online' = [online EXCEPT ![k] = FALSE]
        /\ up' = [up EXCEPT ![k] = <<>>] /\ down' = [down EXCEPT ![k] = <<>>]
    BY <1>5 DEF Drop, server, ghosts
  <2>2. k # c
    BY <2>1, <1>b, <1>c
  <2>3. up'[c] = up[c] /\ down'[c] = down[c] /\ online'[c] = online[c]
    BY <2>1, <2>2, <1>b
  <2>4. \A e \in Edit : Delayed(c, e)' <=> Delayed(c, e)
    BY <2>1, DelayedFrame
  <2>5. QED  BY <2>1, <2>3, <2>4, <1>b, <1>c, <1>d, LogFrame
<1>6. ASSUME NEW k \in Client, NEW kind, Accept(k, kind)
      PROVE  /\ UNCHANGED <<page, conn, online, doc>> /\ Watching(c) /\ Steady(c) /\ LogOf(c)
             /\ online[k] /\ up[k] # <<>> /\ Head(up[k]).kind = kind
             /\ up'[k] = Tail(up[k]) /\ (c # k => up'[c] = up[c])
  BY <1>6, <1>b, <1>g DEF Accept, pages
<1>7. ASSUME NEW k \in Client, HandleJoin(k) PROVE LogOf(c)'
  <2>1. Accept(k, "join") /\ UNCHANGED <<log, handlers>>
    BY <1>7 DEF HandleJoin
  <2>2. /\ UNCHANGED <<page, conn, online, doc>> /\ Watching(c) /\ LogOf(c)
        /\ up[k] # <<>> /\ Head(up[k]).kind = "join"
        /\ up'[k] = Tail(up[k]) /\ (c # k => up'[c] = up[c])
    BY <2>1, <1>6
  <2>3. \A e \in Edit : Delayed(c, e)' <=> Delayed(c, e)
    BY <2>1, <2>2, DelayedFrame
  <2>4. PICK E \in {log, Visible(log)} :
          Emit({SidOf(k)}, [kind |-> "state", edits |-> E, alone |-> users' = {SidOf(k)}])
    BY <1>7 DEF HandleJoin
  <2>5. torn' = (torn \/ log # Visible(log))
    BY <1>7 DEF HandleJoin
  <2>6. CASE k # c
    <3>1. down'[c] = down[c]
      BY <2>4, <2>6, <1>e, EmitReach
    <3>2. \A e \in doc[c] : e \in Edit
      BY <1>b
    <3>3. CASE torn' = torn
      BY <2>1, <2>2, <2>3, <2>6, <3>1, <3>3, <1>b, LogFrame
    <3>4. CASE torn' # torn
      <4>1. torn'
        BY <2>5, <3>4, <1>a DEF TypeOK
      <4>2. QED  BY <2>1, <2>2, <2>3, <2>6, <3>1, <3>2, <4>1, LogParts, LogParts2
    <3>5. QED  BY <3>3, <3>4
  <2>7. CASE k = c
    <3> DEFINE ev == [kind |-> "state", edits |-> E, alone |-> users' = {SidOf(c)}]
    <3>1. Joins(up[c]) /\ up[c] # <<>> /\ Head(up[c]).edits = {}
      <4>1. Head(up[c]) = up[c][1] /\ 1 \in DOMAIN up[c]
        BY <2>2, <2>7, <1>b, TailFacts
      <4>2. QED  BY <2>2, <2>7, <4>1, <1>f DEF Joins, Queue
    <3>2. down[c] = <<>>
      BY <3>1, <1>f
    <3>3. E \subseteq log /\ (~torn' => E = log)
      BY <2>4, <2>5, VisibleType
    <3>4. ev \in Event /\ ev.edits = E
      BY <3>3, <1>b DEF Event
    <3>5. down'[c] = Append(down[c], ev)
      <4>1. SidOf(c) \in {SidOf(c)} /\ Emit({SidOf(c)}, ev)
        BY <2>4, <2>7
      <4>2. QED  BY <2>2, <4>1, EmitReach
    <3>6. \A e : Has(down'[c], e) <=> e \in E
      <4> HIDE DEF ev
      <4>1. \A e : Has(Append(down[c], ev), e) <=> Has(down[c], e) \/ e \in ev.edits
        BY <3>4, <1>h, HasEvent
      <4>2. \A e : ~Has(down[c], e)
        BY <3>2, HasNone
      <4>3. QED  BY <3>4, <3>5, <4>1, <4>2
    <3>7. ~Joins(up'[c])
      BY <2>2, <2>7, <3>1, <1>b, <1>f, QueueTail
    <3>8. \A e : Has(up'[c], e) <=> Has(up[c], e)
      BY <2>2, <2>7, <3>1, <1>h, HasSent
    <3>9. QED  BY <2>1, <2>2, <2>3, <2>5, <3>1, <3>3, <3>6, <3>7, <3>8, LogParts, LogParts2
  <2>8. QED  BY <2>6, <2>7
<1>8. ASSUME NEW k \in Client, HandleUpdate(k) PROVE LogOf(c)'
  <2> DEFINE M == Head(up[k]).edits
             b == Head(up[k]).data
  <2>1. Accept(k, "update")
    BY <1>8 DEF HandleUpdate
  <2>2. /\ UNCHANGED <<page, conn, online, doc>> /\ Watching(c) /\ LogOf(c)
        /\ online[k] /\ up[k] # <<>> /\ Head(up[k]).kind = "update"
        /\ up'[k] = Tail(up[k]) /\ (c # k => up'[c] = up[c])
    BY <2>1, <1>6
  <2>3. M \in SUBSET Edit /\ b \in BOOLEAN /\ SidOf(k) \in Sid
    BY <2>2, <1>a, HeadType, SidType DEF Message
  <2>4. k = c => /\ \A e : Has(up[c], e) <=> Has(up'[c], e) \/ e \in M
                 /\ ~Joins(up[c]) /\ ~Joins(up'[c])
    <3>1. ASSUME k = c PROVE \A e : Has(up[c], e) <=> Has(up'[c], e) \/ e \in M
      BY <2>2, <3>1, <1>h, HasSent
    <3>2. ASSUME k = c PROVE ~Joins(up[c]) /\ ~Joins(up'[c])
      <4>1. up'[c] = Tail(up[c]) /\ up[c] # <<>> /\ Head(up[c]).kind = "update"
        BY <2>2, <3>2
      <4>2. QED  BY <4>1, <1>f, <1>h, JoinsTail DEF Joins
    <3>3. QED  BY <3>1, <3>2
  <2>5. k = c => M \subseteq doc[c]
    BY <2>2, <2>3, <2>4, LogParts
  <2>6. CASE AppendUpdate(SidOf(k), M, b, handlers)
    <3>1. CASE k # c
      <4>1. /\ handlers \in SUBSET handlers /\ \A h \in handlers \ handlers : h.sid = SidOf(k)
            /\ SidOf(k) # SidOf(c) /\ doc'[c] = doc[c] /\ conn'[c] = conn[c] /\ up'[c] = up[c]
        BY <2>2, <3>1, <1>e
      <4> HIDE DEF M, b
      <4>2. QED  BY <2>2, <2>3, <2>6, <4>1, LogOthers
    <3>2. CASE k = c
      <4>1. \A e : Delayed(c, e)' <=> Delayed(c, e)
        <5>1. \A h \in handlers \cup handlers' :
                h.at = "stop" /\ h.sid = SidOf(c) => (h \in handlers <=> h \in handlers')
          BY <2>6 DEF AppendUpdate
        <5>2. QED  BY <2>2, <5>1, DelayedFrame
      <4>2. AppendUpdate(SidOf(c), M, b, handlers) /\ doc'[c] = doc[c]
        BY <2>2, <2>6, <3>2
      <4>3. /\ \A e : Has(up[c], e) => Has(up'[c], e) \/ e \in M
            /\ \A e : Has(up'[c], e) => Has(up[c], e)
            /\ (Joins(up'[c]) <=> Joins(up[c])) /\ (Joins(up[c]) => up'[c] = up[c])
            /\ M \subseteq doc[c]
        BY <2>4, <2>5, <3>2
      <4> HIDE DEF M, b
      <4>4. QED  BY <2>2, <2>3, <4>1, <4>2, <4>3, <1>b, LogOwn
    <3>3. QED  BY <3>1, <3>2
  <2>7. CASE /\ handlers' = handlers \cup {[sid |-> SidOf(k), at |-> "stop", edits |-> M, data |-> b]}
             /\ UNCHANGED <<log, users, ghosts, down>>
    <3>1. CASE k # c
      <4>1. \A e \in Edit : Delayed(c, e)' <=> Delayed(c, e)
        <5>1. \A h \in handlers \cup handlers' :
                h.at = "stop" /\ h.sid = SidOf(c) => (h \in handlers <=> h \in handlers')
          BY <2>7, <3>1, <1>e
        <5>2. QED  BY <2>2, <5>1, DelayedFrame
      <4>2. QED  BY <2>2, <2>7, <3>1, <4>1, <1>b, LogFrame DEF ghosts
    <3>2. CASE k = c
      <4>1. \A e : Delayed(c, e)' <=> Delayed(c, e) \/ e \in M
        <5>1. SidOf(c)' = SidOf(c)
          BY <2>2 DEF SidOf
        <5> DEFINE g == [sid |-> SidOf(k), at |-> "stop", edits |-> M, data |-> b]
        <5>2. g.sid = SidOf(c) /\ g.at = "stop" /\ g.edits = M /\ handlers' = handlers \cup {g}
          BY <2>7, <3>2
        <5> HIDE DEF g, M
        <5>3. QED  BY <5>1, <5>2 DEF Delayed
      <4>2. torn' = torn /\ log' = log /\ down'[c] = down[c] /\ doc'[c] = doc[c]
        BY <2>2, <2>7 DEF ghosts
      <4> HIDE DEF M, b
      <4>3. QED  BY <2>4, <2>5, <3>2, <4>1, <4>2, <2>2, LogParts, LogParts2
    <3>3. QED  BY <3>1, <3>2
  <2>8. QED  BY <1>8, <2>6, <2>7 DEF HandleUpdate
<1>9. ASSUME Joins(up[c]) \/ SidOf(c) \notin users, Watching(c) PROVE Joins(up[c]) /\ down[c] = <<>>
  BY <1>9, <1>a, UpParts DEF Watching
<1>10. ASSUME NEW k \in Client, HandleLeave(k) PROVE LogOf(c)'
  <2>1. Accept(k, "leave") /\ users' = users \ {SidOf(k)} /\ UNCHANGED <<torn, down>>
    BY <1>10 DEF HandleLeave, ghosts
  <2>2. /\ UNCHANGED <<page, conn, online, doc>> /\ Watching(c) /\ LogOf(c)
        /\ up[k] # <<>> /\ Head(up[k]).kind = "leave"
        /\ up'[k] = Tail(up[k]) /\ (c # k => up'[c] = up[c])
    BY <2>1, <1>6
  <2>3. c # k
    BY <2>2, <1>b, <1>f, QueueTail DEF Watching
  <2>4. log' = log \/ users' = {}
    BY <1>10 DEF HandleLeave, ClearIfUnused
  <2>5. users' = {} => SidOf(c) \notin users
    BY <2>1, <2>3, <1>e
  <2>6. \A e \in Edit : Delayed(c, e)' <=> Delayed(c, e)
    <3>1. \A h \in handlers \cup handlers' :
            h.at = "stop" /\ h.sid = SidOf(c) => (h \in handlers <=> h \in handlers')
      BY <1>10 DEF HandleLeave
    <3>2. QED  BY <2>2, <3>1, DelayedFrame
  <2>7. QED  BY <2>1, <2>2, <2>3, <2>4, <2>5, <2>6, <1>9, <1>b, LogFrame
<1>11. ASSUME NEW h \in handlers, SavesStopped(h) PROVE LogOf(c)'
  <2>1. /\ h.at = "stop" /\ AppendUpdate(h.sid, h.edits, h.data, handlers \ {h})
        /\ UNCHANGED <<page, conn, online, doc, up>>
    BY <1>11 DEF SavesStopped, pages
  <2>2. Watching(c) /\ LogOf(c)
    BY <2>1, <1>g
  <2>3. h.sid \in Sid /\ h.edits \in SUBSET Edit /\ h.data \in BOOLEAN
    BY <1>a DEF TypeOK, Handler
  <2>4. CASE h.sid # SidOf(c)
    <3>1. /\ handlers \ {h} \in SUBSET handlers
          /\ \A g \in handlers \ (handlers \ {h}) : g.sid = h.sid
      OBVIOUS
    <3>2. QED  BY <2>1, <2>2, <2>3, <2>4, <3>1, LogOthers
  <2>5. CASE h.sid = SidOf(c)
    <3>1. SidOf(c)' = SidOf(c)
      BY <2>1 DEF SidOf
    <3>2. \A e : Delayed(c, e) => Delayed(c, e)' \/ e \in h.edits
      BY <2>1, <3>1 DEF Delayed, AppendUpdate
    <3>3. \A e : Delayed(c, e)' => Delayed(c, e)
      BY <2>1, <3>1 DEF Delayed, AppendUpdate
    <3>4. h.edits \subseteq doc[c]
      <4>1. \A e \in h.edits : Delayed(c, e)
        BY <2>1, <2>5 DEF Delayed
      <4>2. QED  BY <2>2, <2>3, <4>1, LogParts
    <3>5. /\ \A e : Has(up[c], e) => Has(up'[c], e) \/ e \in h.edits
          /\ \A e : Has(up'[c], e) => Has(up[c], e)
          /\ (Joins(up'[c]) <=> Joins(up[c])) /\ (Joins(up[c]) => up'[c] = up[c])
      BY <2>1
    <3>6. AppendUpdate(SidOf(c), h.edits, h.data, handlers \ {h}) /\ doc'[c] = doc[c]
      BY <2>1, <2>5
    <3>7. QED  BY <2>2, <2>3, <3>2, <3>3, <3>4, <3>5, <3>6, <1>b, LogOwn
  <2>6. QED  BY <2>4, <2>5
<1>12. ASSUME UNCHANGED <<page, conn, online, doc, up, down, torn>>,
              log' = log \/ (users' = {} /\ \A s \in users : s \in lost),
              \A h \in handlers \cup handlers' :
                h.at = "stop" /\ h.sid = SidOf(c) => (h \in handlers <=> h \in handlers')
       PROVE  LogOf(c)'
  <2>1. Watching(c) /\ LogOf(c)
    BY <1>12, <1>g
  <2>2. \A e \in Edit : Delayed(c, e)' <=> Delayed(c, e)
    BY <1>12, DelayedFrame
  <2>3. (\A s \in users : s \in lost) => SidOf(c) \notin users
    BY <2>1, <1>a DEF SessionsOK, Current, SidOf, Watching
  <2>4. QED  BY <2>1, <2>2, <2>3, <1>9, <1>12, <1>b, LogFrame
<1>13. ASSUME NEW h \in handlers, CreateSave(h) \/ Left(h) PROVE LogOf(c)'
  <2>1. UNCHANGED <<page, conn, online, doc, up, down, torn>>
    BY <1>13 DEF CreateSave, Left, pages, ghosts
  <2>2. log' = log \/ (users' = {} /\ \A s \in users : s \in lost)
    BY <1>13 DEF CreateSave, Left, ClearIfUnused
  <2>3. h.at # "stop" /\ handlers' = handlers \ {h}
    BY <1>13 DEF CreateSave, Left
  <2>4. \A g \in handlers \cup handlers' :
          g.at = "stop" /\ g.sid = SidOf(c) => (g \in handlers <=> g \in handlers')
    BY <2>3
  <2>5. QED  BY <2>1, <2>2, <2>4, <1>12
<1>14. ASSUME NEW s \in lost, Disconnect(s) PROVE LogOf(c)'
  <2>1. UNCHANGED <<page, conn, online, doc, up, down, torn, handlers>> /\ users' = users \ {s}
    BY <1>14 DEF Disconnect, ghosts
  <2>2. log' = log \/ (users' = {} /\ \A k \in users : k \in lost)
    BY <1>14 DEF Disconnect, ClearIfUnused
  <2>3. QED  BY <2>1, <2>2, <1>12
<1>15. CASE SaveEnds \/ UNCHANGED vars
  <2>1. UNCHANGED <<page, conn, online, doc, up, down, torn, handlers, log>>
    BY <1>15 DEF SaveEnds, vars, server, ghosts, pages
  <2>2. QED  BY <2>1, <1>12
<1>16. CASE Crash
  <2>1. ~online'[c]
    BY <1>16 DEF Crash
  <2>2. QED  BY <2>1, <1>c
<1>17. QED
  BY <1>1, <1>2, <1>3, <1>4, <1>5, <1>7, <1>8, <1>10, <1>11, <1>13, <1>14, <1>15, <1>16
     DEF Next, ServerStep, PageStep

LEMMA InitLog == Init => LogOK
BY DEF Init, LogOK, Steady, Watching

LEMMA NextLog == WatchInv /\ LogOK /\ [Next]_vars => LogOK'
<1> SUFFICES ASSUME WatchInv, LogOK, [Next]_vars, NEW c \in Client, Steady(c)' PROVE LogOf(c)'
  BY DEF LogOK
<1>1. WatchInv'
  BY NextWatch
<1>2. QED  BY <1>1, NextLogOf

LEMMA LogUses == WatchInv /\ LogOK => SteadyConverged /\ LogComplete
<1> SUFFICES ASSUME WatchInv, LogOK, Quiet
             PROVE  /\ \A c \in Client : Steady(c) => Visible(doc[c]) \subseteq log
                    /\ ~torn => \A c, d \in Client : Steady(c) /\ Steady(d) =>
                                  Visible(doc[c]) = Visible(doc[d])
  BY DEF SteadyConverged, LogComplete
<1>1. ASSUME NEW c \in Client, Steady(c) PROVE doc[c] \subseteq log /\ (~torn => log \subseteq doc[c])
  <2>1. LogOf(c) /\ up[c] = <<>> /\ down[c] = <<>> /\ ~Joins(up[c]) /\ \A e : ~Delayed(c, e)
    BY <1>1 DEF LogOK, Quiet, Joins, Delayed
  <2>2. QED  BY <2>1, LogParts, HasNone
<1>2. QED  BY <1>1, VisibleType

(* Every page that has kept its first connection finds all it shows in the *)
(* log, and all such pages show the same, when what was sent has arrived.  *)
(* Handlers overlap, the log is cleared, other pages come, go and return.  *)
THEOREM SteadyPagesConverge == Spec => []SteadyConverged
BY InitWatch, NextWatch, InitLog, NextLog, LogUses, PTL DEF Spec

(* And the log has it all: a page that opens the note now misses nothing.  *)
THEOREM NothingCleared == Spec => []LogComplete
BY InitWatch, NextWatch, InitLog, NextLog, LogUses, PTL DEF Spec

-----------------------------------------------------------------------------
(* The content of the database *)

States(q) == \A i \in DOMAIN q : q[i].kind = "state" => i = 1

LEMMA StatesTail ==
  ASSUME NEW q \in Seq(Event), q # <<>>, States(q)
  PROVE  States(Tail(q)) /\ ~Starts(Tail(q)) /\ (Head(q).kind = "state" /\ Head(q).alone => Starts(q))
<1>1. /\ Len(q) \in Nat /\ Len(q) > 0 /\ DOMAIN q = 1..Len(q)
      /\ DOMAIN Tail(q) = 1..(Len(q) - 1)
      /\ \A i \in 1..(Len(q) - 1) : Tail(q)[i] = q[i + 1]
      /\ Head(q) = q[1]
  BY TailFacts
<1>2. ASSUME NEW i \in 1..(Len(q) - 1) PROVE Tail(q)[i].kind # "state"
  <2>1. i + 1 \in DOMAIN q /\ i + 1 # 1 /\ Tail(q)[i] = q[i + 1]
    BY <1>1
  <2>2. QED  BY <2>1 DEF States
<1>3. QED  BY <1>1, <1>2 DEF States, Starts

LEMMA StatesUpdate ==
  ASSUME NEW q \in Seq(Event), NEW ev \in Event, ev.kind = "update", States(q)
  PROVE  States(Append(q, ev)) /\ (Starts(Append(q, ev)) => Starts(q))
<1>1. /\ Len(q) \in Nat /\ DOMAIN q = 1..Len(q) /\ DOMAIN Append(q, ev) = 1..(Len(q) + 1)
      /\ \A i \in 1..Len(q) : Append(q, ev)[i] = q[i]
      /\ Append(q, ev)[Len(q) + 1] = ev
  BY AppendFacts
<1>2. ASSUME NEW i \in 1..(Len(q) + 1), Append(q, ev)[i].kind = "state"
      PROVE  i \in 1..Len(q) /\ Append(q, ev)[i] = q[i]
  BY <1>1, <1>2
<1>3. QED  BY <1>1, <1>2 DEF States, Starts

LEMMA StatesFirst ==
  ASSUME NEW ev \in Event
  PROVE  States(Append(<<>>, ev)) /\ (Starts(Append(<<>>, ev)) => ev.kind = "state" /\ ev.alone)
<1>1. Append(<<>>, ev) = <<ev>>
  OBVIOUS
<1>2. QED  BY <1>1 DEF States, Starts

LEMMA StatesNone == States(<<>>) /\ ~Starts(<<>>)
BY DEF States, Starts

LEMMA AliveParts ==
  ASSUME NEW e
  PROVE  Alive(e) <=>
    \/ e \in log
    \/ \E h \in handlers : h.at = "stop" /\ h.sid \in users /\ e \in h.edits
    \/ \E c \in Client : (online[c] /\ e \in doc[c]) \/ Has(up[c], e) \/ Has(down[c], e)
BY DEF Alive, Sends, Gets

LEMMA AliveParts2 ==
  ASSUME NEW e
  PROVE  Alive(e)' <=>
    \/ e \in log'
    \/ \E h \in handlers' : h.at = "stop" /\ h.sid \in users' /\ e \in h.edits
    \/ \E c \in Client : (online'[c] /\ e \in doc'[c]) \/ Has(up'[c], e) \/ Has(down'[c], e)
BY DEF Alive, Sends, Gets, Has

LEMMA SingleParts ==
  Single <=>
    /\ users = {} => log = {}
    /\ \A c \in Client : States(down[c])
    /\ \A c \in Client : Joins(up[c]) => \A e \in Base : e \notin doc[c] /\ ~Has(up[c], e)
    /\ \A c \in Client : Joins(up[c]) => \A h \in handlers : h.sid # SidOf(c)
    /\ \A c \in Client : \A d, e \in Base \cap doc[c] : d = e
    /\ \A d, e \in Base : Alive(d) /\ Alive(e) => d = e
    /\ \A c \in Client : Starts(down[c]) =>
         (\A e \in Base : ~Alive(e)) /\ \A d \in Client : Starts(down[d]) => d = c
BY DEF Single, States, Joins, Joining, Sends

LEMMA SingleParts2 ==
  Single' <=>
    /\ users' = {} => log' = {}
    /\ \A c \in Client : States(down'[c])
    /\ \A c \in Client : Joins(up'[c]) => \A e \in Base : e \notin doc'[c] /\ ~Has(up'[c], e)
    /\ \A c \in Client : Joins(up'[c]) => \A h \in handlers' : h.sid # <<c, conn'[c]>>
    /\ \A c \in Client : \A d, e \in Base \cap doc'[c] : d = e
    /\ \A d, e \in Base : Alive(d)' /\ Alive(e)' => d = e
    /\ \A c \in Client : Starts(down'[c]) =>
         (\A e \in Base : ~Alive(e)') /\ \A d \in Client : Starts(down'[d]) => d = c
BY DEF Single, States, Starts, Joins, Joining, Sends, Has, SidOf

(* What a step must do to a page lest there be more to look for, but for   *)
(* pages that may start from the database.                                 *)
Calm(c) ==
  /\ States(down'[c])
  /\ Joins(up'[c]) => /\ \A e \in Base : e \notin doc'[c] /\ ~Has(up'[c], e)
                      /\ \A h \in handlers' : h.sid # <<c, conn'[c]>>
  /\ online'[c] \/ \A e \in Base : e \in doc'[c] => e \in doc[c]
  /\ \A e \in Base :
       (online'[c] /\ e \in doc'[c]) \/ Has(up'[c], e) \/ Has(down'[c], e) => Alive(e)

(* A step after which no content is alive that was not before.             *)
LEMMA SingleStep ==
  ASSUME Single, users' = {} => log' = {}, \A c \in Client : Calm(c),
         \A e \in Base : e \in log' => Alive(e),
         \A e \in Base : \A h \in handlers' :
           h.at = "stop" /\ h.sid \in users' /\ e \in h.edits => Alive(e),
         \/ \A c \in Client : Starts(down'[c]) => Starts(down[c])
         \/ /\ \A e \in Base : ~Alive(e)
            /\ \A c, d \in Client : Starts(down'[c]) /\ Starts(down'[d]) => c = d
  PROVE  Single'
<1>1. \A e \in Base : Alive(e)' => Alive(e)
  BY AliveParts2 DEF Calm
<1>2. \A d, e \in Base : Alive(d)' /\ Alive(e)' => d = e
  BY <1>1, SingleParts
<1>3. \A c \in Client : States(down'[c])
  BY DEF Calm
<1>4. \A c \in Client : Joins(up'[c]) => \A e \in Base : e \notin doc'[c] /\ ~Has(up'[c], e)
  BY DEF Calm
<1>5. \A c \in Client : Joins(up'[c]) => \A h \in handlers' : h.sid # <<c, conn'[c]>>
  BY DEF Calm
<1>6. ASSUME NEW c \in Client, NEW d \in Base \cap doc'[c], NEW e \in Base \cap doc'[c] PROVE d = e
  <2>1. CASE online'[c]
    <3>1. Alive(d) /\ Alive(e)
      BY <2>1 DEF Calm
    <3>2. QED  BY <3>1, SingleParts
  <2>2. CASE ~online'[c]
    <3>1. d \in doc[c] /\ e \in doc[c]
      BY <2>2 DEF Calm
    <3>2. QED  BY <3>1, SingleParts
  <2>3. QED  BY <2>1, <2>2
<1>7. \A c \in Client : Starts(down'[c]) =>
        (\A e \in Base : ~Alive(e)') /\ \A d \in Client : Starts(down'[d]) => d = c
  BY <1>1, SingleParts
<1>8. QED
  BY <1>2, <1>3, <1>4, <1>5, <1>6, <1>7, SingleParts2

LEMMA AliveHere ==
  ASSUME NEW e, NEW c \in Client, (online[c] /\ e \in doc[c]) \/ Has(up[c], e) \/ Has(down[c], e)
  PROVE  Alive(e)
BY AliveParts

(* A page that the step does not touch, but perhaps with a broadcast.      *)
LEMMA CalmFrame ==
  ASSUME Single, NEW c \in Client, doc'[c] = doc[c], up'[c] = up[c], conn'[c] = conn[c],
         online'[c] => online[c],
         States(down'[c]), \A e \in Base : Has(down'[c], e) => Alive(e),
         Joins(up[c]) => \A h \in handlers' : h.sid = SidOf(c) => \E g \in handlers : g.sid = h.sid
  PROVE  Calm(c)
<1>1. Joins(up[c]) => \A h \in handlers' : h.sid # <<c, conn'[c]>>
  BY SingleParts DEF SidOf
<1>2. \A e \in Base : (online'[c] /\ e \in doc'[c]) \/ Has(up'[c], e) => Alive(e)
  BY AliveHere
<1>3. QED  BY <1>1, <1>2, SingleParts DEF Calm

LEMMA CalmSame ==
  ASSUME Single, NEW c \in Client, doc'[c] = doc[c], up'[c] = up[c], conn'[c] = conn[c],
         online'[c] => online[c], down'[c] = down[c],
         Joins(up[c]) => \A h \in handlers' : h.sid = SidOf(c) => \E g \in handlers : g.sid = h.sid
  PROVE  Calm(c)
<1>1. States(down'[c])
  BY SingleParts
<1>2. \A e \in Base : Has(down'[c], e) => Alive(e)
  BY AliveHere
<1>3. QED  BY <1>1, <1>2, CalmFrame

(* An update whose edits are alive is appended and broadcast.              *)
Spread(s) ==
  /\ users' = {} => log' = {}
  /\ \A e \in Base : e \in log' => Alive(e)
  /\ \A e \in Base : \A h \in handlers' :
       h.at = "stop" /\ h.sid \in users' /\ e \in h.edits => Alive(e)
  /\ \A c \in Client : /\ States(down'[c]) /\ (Starts(down'[c]) => Starts(down[c]))
                       /\ \A e \in Base : Has(down'[c], e) => Alive(e)
  /\ \A h \in handlers' : h.sid = s \/ h \in handlers

LEMMA SingleAppend ==
  ASSUME WatchInv, Single, NEW s \in users, NEW E \in SUBSET Edit, NEW b \in BOOLEAN,
         NEW rest \in SUBSET handlers, AppendUpdate(s, E, b, rest),
         \A e \in Base : e \in E => Alive(e)
  PROVE  Spread(s)
<1>1. /\ users' = users /\ log' = log \cup E
      /\ \A h \in handlers' : h \in handlers \/ (h.sid = s /\ h.at = "save")
  BY DEF AppendUpdate, Appended
<1>2. ASSUME NEW e \in Base, e \in log PROVE Alive(e)
  BY <1>2, AliveParts
<1>3. ASSUME NEW e \in Base, NEW h \in handlers', h.at = "stop", h.sid \in users', e \in h.edits
      PROVE  Alive(e)
  <2>1. h \in handlers /\ h.sid \in users
    BY <1>1, <1>3
  <2>2. QED  BY <1>3, <2>1, AliveParts
<1>4. ASSUME NEW c \in Client
      PROVE  /\ States(down'[c]) /\ (Starts(down'[c]) => Starts(down[c]))
             /\ \A e \in Base : Has(down'[c], e) => Alive(e)
  <2> DEFINE ev == [kind |-> "update", edits |-> E, alone |-> FALSE]
  <2>1. ev \in Event /\ ev.kind = "update" /\ ev.edits = E /\ Emit(users \ {s}, ev)
    BY DEF Event, AppendUpdate
  <2>2. States(down[c]) /\ \A e \in Base : Has(down[c], e) => Alive(e)
    BY SingleParts, AliveHere
  <2>3. down[c] \in Seq(Event)
    BY DEF WatchInv, TypeOK
  <2> HIDE DEF ev
  <2>4. CASE down'[c] = down[c]
    BY <2>2, <2>4
  <2>5. CASE down'[c] = Append(down[c], ev)
    <3>1. States(Append(down[c], ev)) /\ (Starts(Append(down[c], ev)) => Starts(down[c]))
      BY <2>1, <2>2, <2>3, StatesUpdate
    <3>2. \A e : Has(Append(down[c], ev), e) <=> Has(down[c], e) \/ e \in ev.edits
      BY <2>1, <2>3, HasEvent
    <3>3. QED  BY <2>1, <2>2, <2>5, <3>1, <3>2
  <2>6. QED  BY <2>1, <2>4, <2>5, EmitReach
<1>5. QED  BY <1>1, <1>2, <1>3, <1>4 DEF Spread

(* The page receives the edits H and sends Y, all of them alive.           *)
LEMMA CalmReceives ==
  ASSUME Single, NEW c \in Client, NEW H, NEW Y,
         online[c], States(down'[c]), ~Joins(up'[c]),
         \A e \in Base : e \in doc'[c] => e \in doc[c] \/ e \in H,
         \A e : Has(down'[c], e) => Has(down[c], e),
         \A e : Has(up'[c], e) => Has(up[c], e) \/ e \in Y,
         \A e \in Base : e \in H => Alive(e), \A e \in Base : e \in Y => Alive(e),
         online'[c]
  PROVE  Calm(c)
<1>1. \A e \in Base : (online'[c] /\ e \in doc'[c]) \/ Has(up'[c], e) \/ Has(down'[c], e) => Alive(e)
  BY AliveHere
<1>2. QED  BY <1>1 DEF Calm

First == ~late /\ \A c \in Client : conn[c] <= 1

LEMMA NextSingle ==
  ASSUME WatchInv, WatchInv', Single, [Next]_vars, First'
  PROVE  Single'
<1>a. TypeOK /\ Pages /\ SessionsOK /\ \A c \in Client : UpOK(c) /\ PageOK(c)
  BY DEF WatchInv, Pages
<1>b. /\ page \in [Client -> {"new", "open", "closed"}] /\ online \in [Client -> BOOLEAN]
      /\ conn \in [Client -> 0..MaxConn] /\ MaxConn \in Nat
      /\ up \in [Client -> Seq(Message)] /\ down \in [Client -> Seq(Event)]
      /\ doc \in [Client -> SUBSET Edit] /\ log \subseteq Edit
  BY <1>a DEF TypeOK, MaxConn
<1>c. \A c \in Client : up[c] \in Seq(Message) /\ down[c] \in Seq(Event) /\ doc[c] \subseteq Edit
  BY <1>b
<1>d. /\ users = {} => log = {}
      /\ \A c \in Client : States(down[c])
      /\ \A c \in Client : Joins(up[c]) => \A e \in Base : e \notin doc[c] /\ ~Has(up[c], e)
      /\ \A c \in Client : Joins(up[c]) => \A h \in handlers : h.sid # SidOf(c)
  BY SingleParts
<1>e. \A c, d \in Client : SidOf(c) = SidOf(d) => c = d
  BY DEF SidOf
<1>f. \A e \in Base : e \in log => Alive(e)
  BY AliveParts
<1>g. \A e \in Base : \A h \in handlers :
        h.at = "stop" /\ h.sid \in users /\ e \in h.edits => Alive(e)
  BY AliveParts
<1>h. \A c \in Client : (Joins(up[c]) \/ page[c] # "open" => down[c] = <<>>) /\ Queue(up[c], page[c])
  BY <1>a, UpParts
<1>i. ASSUME UNCHANGED <<log, users, handlers>>, \A c \in Client : Calm(c),
             \A c \in Client : Starts(down'[c]) => Starts(down[c])
      PROVE  Single'
  BY <1>d, <1>f, <1>g, <1>i, SingleStep
<1>1. ASSUME NEW k \in Client, Open(k) \/ Reconnect(k) PROVE Single'
  <2>1. /\ UNCHANGED <<log, users, handlers, doc, down>> /\ conn' = [conn EXCEPT ![k] = conn[k] + 1]
        /\ online' = [online EXCEPT ![k] = TRUE] /\ Send(k, Join)
    BY <1>1 DEF Open, Reconnect, Connect, server
  <2>2. up' = [up EXCEPT ![k] = Append(up[k], Join)]
    BY <2>1, <1>a, SendType, MessageTypes
  <2>3. conn[k] = 0 /\ conn'[k] = 1
    <3>1. conn'[k] = conn[k] + 1 /\ conn'[k] <= 1 /\ conn[k] \in Nat
      BY <2>1, <1>b DEF First
    <3>2. QED  BY <3>1
  <2>4. page[k] = "new" /\ doc[k] = {} /\ ~online[k]
    <3>1. PageOK(k)
      BY <1>a
    <3>2. page[k] = "new"
      BY <2>3, <3>1 DEF PageOK
    <3>3. QED  BY <3>1, <3>2 DEF PageOK
  <2>5. up[k] = <<>> /\ down[k] = <<>>
    BY <2>4, <1>a DEF UpOK
  <2>6. ASSUME NEW c \in Client, c # k PROVE Calm(c)
    <3>1. up'[c] = up[c] /\ conn'[c] = conn[c] /\ online'[c] = online[c] /\ down'[c] = down[c]
          /\ doc'[c] = doc[c]
      BY <2>1, <2>2, <2>6, <1>b
    <3>2. \A h \in handlers' : \E g \in handlers : g.sid = h.sid
      BY <2>1
    <3>3. QED  BY <3>1, <3>2, CalmSame
  <2>7. Calm(k)
    <3>1. up'[k] = Append(up[k], Join) /\ Join \in Message /\ Join.edits = {}
      BY <2>2, <1>b, MessageTypes DEF Join
    <3>2. \A e : ~Has(up'[k], e)
      <4>1. \A e : Has(Append(up[k], Join), e) <=> Has(up[k], e) \/ e \in Join.edits
        BY <3>1, <1>c, HasSent
      <4>2. QED  BY <2>5, <3>1, <4>1, HasNone
    <3>3. \A h \in handlers' : h.sid # <<k, conn'[k]>>
      <4>1. \A h \in handlers : h.sid[2] <= conn[h.sid[1]]
        BY <1>a DEF SessionsOK, Past
      <4>2. QED  BY <2>1, <2>3, <4>1
    <3>4. doc'[k] = {} /\ down'[k] = <<>>
      BY <2>1, <2>4, <2>5
    <3>5. QED  BY <3>2, <3>3, <3>4, HasNone, StatesNone DEF Calm
  <2>8. QED  BY <2>1, <2>6, <2>7, <1>i
<1>2. ASSUME NEW k \in Client, Type(k) PROVE Single'
  <2> DEFINE x == <<k, typed[k] + 1>>
  <2>1. /\ UNCHANGED <<log, users, handlers, page, conn, online, down>>
        /\ doc' = [doc EXCEPT ![k] = doc[k] \cup {x}]
        /\ SendIf(online[k], k, Update({x}, TRUE))
    BY <1>2 DEF Type, server
  <2>2. {x} \in SUBSET Edit /\ Update({x}, TRUE) \in Message /\ x \notin Base
    <3>1. x \in Edit /\ typed[k] + 1 # 0
      BY <1>2, <1>a DEF Type, Happens, Pages, PageOK, TypeOK, Edit
    <3>2. x \notin Base
      BY <3>1 DEF Base
    <3>3. QED  BY <3>1, <3>2, MessageTypes
  <2>3. Update({x}, TRUE).edits = {x} /\ Update({x}, TRUE).kind = "update"
    BY DEF Update
  <2>4. ASSUME NEW c \in Client PROVE Calm(c)
    <3>1. \A e \in Base : e \in doc'[c] <=> e \in doc[c]
      BY <2>1, <2>2, <1>b
    <3>2. \/ up'[c] = up[c]
          \/ up'[c] = Append(up[c], Update({x}, TRUE))
      <4>1. CASE up' = up
        BY <4>1
      <4>2. CASE Send(k, Update({x}, TRUE))
        <5>1. up' = [up EXCEPT ![k] = Append(up[k], Update({x}, TRUE))]
          BY <2>2, <4>2, <1>a, SendType
        <5>2. CASE c = k
          BY <5>1, <5>2, <1>b
        <5>3. CASE c # k
          BY <5>1, <5>3, <1>b
        <5>4. QED  BY <5>2, <5>3
      <4>3. QED  BY <2>1, <4>1, <4>2 DEF SendIf
    <3>3. (\A e \in Base : Has(up'[c], e) <=> Has(up[c], e)) /\ (Joins(up'[c]) <=> Joins(up[c]))
      <4>1. CASE up'[c] = up[c]
        BY <4>1
      <4>2. CASE up'[c] = Append(up[c], Update({x}, TRUE))
        <5> DEFINE m == Update({x}, TRUE)
        <5>1. m \in Message /\ m.kind # "join" /\ (\A e \in Base : e \notin m.edits)
              /\ up'[c] = Append(up[c], m)
          BY <2>2, <2>3, <4>2
        <5> HIDE DEF m
        <5>2. Joins(up'[c]) <=> Joins(up[c])
          BY <5>1, <1>c, JoinsAppend
        <5>3. \A e : Has(Append(up[c], m), e) <=> Has(up[c], e) \/ e \in m.edits
          BY <5>1, <1>c, HasSent
        <5>4. QED  BY <5>1, <5>2, <5>3
      <4>3. QED  BY <3>2, <4>1, <4>2
    <3>4. \A e \in Base : (online'[c] /\ e \in doc'[c]) \/ Has(up'[c], e) \/ Has(down'[c], e) => Alive(e)
      BY <2>1, <3>1, <3>3, AliveHere
    <3>5. Joins(up'[c]) => \A h \in handlers' : h.sid # <<c, conn'[c]>>
      BY <2>1, <3>3, <1>d DEF SidOf
    <3>6. States(down'[c])
      BY <2>1, <1>d
    <3>7. QED  BY <3>1, <3>3, <3>4, <3>5, <3>6, <1>d DEF Calm
  <2>5. QED  BY <2>1, <2>4, <1>i
<1>j. ASSUME NEW k \in Client, NEW c \in Client, c # k, UNCHANGED <<conn, handlers>>,
             online'[c] = online[c], doc'[c] = doc[c], up'[c] = up[c], down'[c] = down[c]
      PROVE  Calm(c)
  <2>1. conn'[c] = conn[c] /\ \A h \in handlers' : \E g \in handlers : g.sid = h.sid
    BY <1>j
  <2>2. QED  BY <1>j, <2>1, CalmSame
<1>3. ASSUME NEW k \in Client, Take(k, "update") \/ Take(k, "state")
      PROVE  /\ UNCHANGED <<log, users, handlers, page, conn, online>> /\ Watching(k) /\ online[k]
             /\ down[k] # <<>> /\ down'[k] = Tail(down[k]) /\ ~Joins(up[k])
             /\ \A c \in Client : c # k => down'[c] = down[c]
             /\ States(down'[k]) /\ ~Starts(down'[k])
             /\ \A e : Has(down[k], e) <=> Has(down'[k], e) \/ e \in Head(down[k]).edits
             /\ Head(down[k]).edits \in SUBSET Edit
             /\ \A e : e \in Head(down[k]).edits => Alive(e)
  <2>1. /\ UNCHANGED <<log, users, handlers, page, conn, online>> /\ Watching(k) /\ online[k]
        /\ down[k] # <<>> /\ down' = [down EXCEPT ![k] = Tail(down[k])]
    BY <1>3 DEF Take, server, Watching
  <2>2. down'[k] = Tail(down[k]) /\ \A c \in Client : c # k => down'[c] = down[c]
    BY <2>1, <1>b
  <2>3. ~Joins(up[k])
    BY <2>1, <1>h
  <2>4. States(Tail(down[k])) /\ ~Starts(Tail(down[k]))
    BY <2>1, <1>c, <1>d, StatesTail
  <2>5. \A e : Has(down[k], e) <=> Has(Tail(down[k]), e) \/ e \in Head(down[k]).edits
    BY <2>1, <1>c, HasEvent
  <2>6. Head(down[k]).edits \in SUBSET Edit
    BY <2>1, <1>a, HeadType DEF Event
  <2>7. \A e : e \in Head(down[k]).edits => Alive(e)
    BY <2>5, AliveHere
  <2>8. QED  BY <2>1, <2>2, <2>3, <2>4, <2>5, <2>6, <2>7
<1>4. ASSUME NEW k \in Client, Take(k, "update") \/ Take(k, "state"),
             NEW Y \in SUBSET Edit, NEW b \in BOOLEAN,
             \A e \in Base : e \in Y => Alive(e),
             Send(k, Update(Y, b)) \/ up' = up,
             \/ doc' = doc
             \/ doc' = [doc EXCEPT ![k] = doc[k] \cup Head(down[k]).edits]
      PROVE  Single'
  <2>1. /\ UNCHANGED <<log, users, handlers, page, conn, online>> /\ Watching(k) /\ online[k]
        /\ ~Joins(up[k]) /\ \A c \in Client : c # k => down'[c] = down[c]
        /\ States(down'[k]) /\ ~Starts(down'[k])
        /\ \A e : Has(down[k], e) <=> Has(down'[k], e) \/ e \in Head(down[k]).edits
        /\ \A e : e \in Head(down[k]).edits => Alive(e)
    BY <1>3, <1>4
  <2> DEFINE m == Update(Y, b)
  <2>2. m \in Message /\ m.kind # "join" /\ m.edits = Y
    BY MessageTypes DEF Update
  <2>3. Send(k, m) \/ up' = up
    BY <1>4
  <2> HIDE DEF m
  <2>4. up' = [up EXCEPT ![k] = Append(up[k], m)] \/ up' = up
    BY <2>2, <2>3, <1>a, SendType
  <2>5. ASSUME NEW c \in Client, c # k PROVE Calm(c)
    <3>1. up'[c] = up[c] /\ doc'[c] = doc[c] /\ down'[c] = down[c] /\ online'[c] = online[c]
      BY <2>1, <2>4, <2>5, <1>4, <1>b
    <3>2. UNCHANGED <<conn, handlers>>
      BY <2>1
    <3>3. QED  BY <2>5, <3>1, <3>2, <1>j
  <2>6. /\ \A e : Has(up'[k], e) => Has(up[k], e) \/ e \in Y
        /\ ~Joins(up'[k])
    <3>1. CASE up' = up
      BY <2>1, <3>1
    <3>2. CASE up' = [up EXCEPT ![k] = Append(up[k], m)]
      <4>1. up'[k] = Append(up[k], m)
        BY <3>2, <1>b
      <4>2. \A e : Has(Append(up[k], m), e) <=> Has(up[k], e) \/ e \in m.edits
        BY <2>2, <1>c, HasSent
      <4>3. Joins(Append(up[k], m)) <=> Joins(up[k])
        BY <2>2, <1>c, JoinsAppend
      <4>4. QED  BY <2>1, <2>2, <4>1, <4>2, <4>3
    <3>3. QED  BY <2>4, <3>1, <3>2
  <2>7. \A e \in Base : e \in doc'[k] => e \in doc[k] \/ e \in Head(down[k]).edits
    BY <1>4, <1>b
  <2>8. \A e : Has(down'[k], e) => Has(down[k], e)
    BY <2>1
  <2>9. Calm(k)
    <3> DEFINE H == Head(down[k]).edits
    <3>1. /\ online[k] /\ online'[k] /\ States(down'[k]) /\ ~Joins(up'[k])
          /\ \A e \in Base : e \in H => Alive(e)
          /\ \A e \in Base : e \in Y => Alive(e)
          /\ \A e \in Base : e \in doc'[k] => e \in doc[k] \/ e \in H
      BY <2>1, <2>6, <2>7, <1>4
    <3> HIDE DEF H
    <3>2. QED  BY <2>6, <2>8, <3>1, CalmReceives
  <2>10. QED  BY <2>1, <2>5, <2>9, <1>i
<1>5. ASSUME NEW k \in Client, ReceiveUpdate(k) PROVE Single'
  <2> DEFINE H == Head(down[k]).edits
             delta == Visible(doc[k] \cup H) \ Visible(doc[k])
  <2>1. Take(k, "update") /\ SendIf(delta # {}, k, Update(delta, TRUE))
        /\ doc' = [doc EXCEPT ![k] = doc[k] \cup H]
    BY <1>5 DEF ReceiveUpdate
  <2>2. online[k] /\ H \in SUBSET Edit /\ \A e : e \in H => Alive(e)
    BY <2>1, <1>3
  <2>3. delta \subseteq doc[k] \cup H
    BY VisibleType
  <2>4. delta \in SUBSET Edit
    BY <2>2, <2>3, <1>c
  <2>5. \A e \in Base : e \in delta => Alive(e)
    BY <2>2, <2>3, AliveHere
  <2>6. Send(k, Update(delta, TRUE)) \/ up' = up
    BY <2>1 DEF SendIf
  <2>7. doc' = [doc EXCEPT ![k] = doc[k] \cup Head(down[k]).edits] /\ TRUE \in BOOLEAN
    BY <2>1
  <2> HIDE DEF delta
  <2>8. QED  BY <2>1, <2>4, <2>5, <2>6, <2>7, <1>4
<1>6. ASSUME NEW k \in Client, ReceiveState(k) PROVE Single'
  <2> DEFINE H == Head(down[k]).edits
  <2>1. Take(k, "state") /\ Head(down[k]).kind = "state"
    BY <1>6 DEF ReceiveState, Take
  <2>2. {} \in SUBSET Edit /\ TRUE \in BOOLEAN /\ FALSE \in BOOLEAN /\ \A e \in Base : e \in {} => Alive(e)
    OBVIOUS
  <2>3. CASE doc' = [doc EXCEPT ![k] = doc[k] \cup H] /\ up' = up
    BY <2>1, <2>2, <2>3, <1>4
  <2>4. CASE doc' = doc /\ SendIf(Visible(doc[k]) # {}, k, Update(doc[k], FALSE))
    <3>1. doc[k] \in SUBSET Edit /\ online[k]
      BY <2>1, <1>3, <1>c
    <3>2. \A e \in Base : e \in doc[k] => Alive(e)
      BY <3>1, AliveHere
    <3>3. Send(k, Update(doc[k], FALSE)) \/ up' = up
      BY <2>4 DEF SendIf
    <3>4. QED  BY <2>1, <2>2, <2>4, <3>1, <3>2, <3>3, <1>4
  <2>5. CASE /\ Head(down[k]).alone
             /\ doc' = [doc EXCEPT ![k] = doc[k] \cup {<<k, 0>>}]
             /\ Send(k, Update({<<k, 0>>}, TRUE))
    <3> DEFINE x == <<k, 0>>
               m == Update({x}, TRUE)
    <3>1. /\ UNCHANGED <<log, users, handlers, page, conn, online>> /\ Watching(k) /\ online[k]
          /\ down[k] # <<>> /\ ~Joins(up[k]) /\ down'[k] = Tail(down[k])
          /\ \A c \in Client : c # k => down'[c] = down[c]
          /\ States(down'[k]) /\ ~Starts(down'[k])
          /\ \A e : Has(down[k], e) <=> Has(down'[k], e) \/ e \in Head(down[k]).edits
      BY <2>1, <1>3
    <3>2. Starts(down[k])
      BY <2>1, <2>5, <3>1, <1>c, <1>d, StatesTail
    <3>3. (\A e \in Base : ~Alive(e)) /\ \A d \in Client : Starts(down[d]) => d = k
      BY <3>2, SingleParts
    <3>4. \A c \in Client : ~Starts(down'[c])
      BY <3>1, <3>3
    <3>5. m \in Message /\ m.kind # "join" /\ m.edits = {x} /\ x \in Base /\ Send(k, m)
      <4>1. {x} \in SUBSET Edit
        BY DEF Edit
      <4>2. QED  BY <2>5, <4>1, MessageTypes DEF Update, Base
    <3>6. doc' = [doc EXCEPT ![k] = doc[k] \cup {x}]
      BY <2>5
    <3> HIDE DEF m, x
    <3>7. up' = [up EXCEPT ![k] = Append(up[k], m)]
      BY <3>5, <1>a, SendType
    <3>8. \A c \in Client : \A e \in Base : e \in doc'[c] => e \in doc[c] \/ (c = k /\ e = x)
      BY <3>6, <1>b
    <3>9. \A c \in Client : \A e : Has(up'[c], e) => Has(up[c], e) \/ (c = k /\ e = x)
      <4>1. \A e : Has(Append(up[k], m), e) <=> Has(up[k], e) \/ e \in m.edits
        BY <3>5, <1>c, HasSent
      <4>2. up'[k] = Append(up[k], m) /\ \A c \in Client : c # k => up'[c] = up[c]
        BY <3>7, <1>b
      <4>3. QED  BY <3>5, <4>1, <4>2
    <3>10. ~Joins(up'[k]) /\ \A c \in Client : c # k => up'[c] = up[c]
      <4>1. Joins(Append(up[k], m)) <=> Joins(up[k])
        BY <3>5, <1>c, JoinsAppend
      <4>2. up'[k] = Append(up[k], m) /\ \A c \in Client : c # k => up'[c] = up[c]
        BY <3>7, <1>b
      <4>3. QED  BY <3>1, <4>1, <4>2
    <3>11. \A c \in Client : \A e : Has(down'[c], e) => Has(down[c], e)
      BY <3>1
    <3>12. ASSUME NEW e \in Base, Alive(e)' PROVE e = x
      <4>1. \/ e \in log
            \/ \E h \in handlers : h.at = "stop" /\ h.sid \in users /\ e \in h.edits
            \/ \E c \in Client : (online[c] /\ e \in doc'[c]) \/ Has(up'[c], e) \/ Has(down'[c], e)
        BY <3>1, <3>12, AliveParts2
      <4>2. ~Alive(e)
        BY <3>3
      <4>3. PICK c \in Client : (online[c] /\ e \in doc'[c]) \/ Has(up'[c], e) \/ Has(down'[c], e)
        BY <4>1, <4>2, AliveParts
      <4>4. ~((online[c] /\ e \in doc[c]) \/ Has(up[c], e) \/ Has(down[c], e))
        BY <4>2, AliveHere
      <4>5. QED  BY <3>8, <3>9, <3>11, <4>3, <4>4
    <3>13. \A c \in Client : \A d, e \in Base \cap doc'[c] : d = e
      <4>1. ASSUME NEW c \in Client, c # k, NEW d \in Base \cap doc'[c], NEW e \in Base \cap doc'[c]
            PROVE  d = e
        BY <3>8, <4>1, SingleParts
      <4>2. \A e \in Base \cap doc'[k] : e = x
        BY <3>1, <3>3, <3>8, AliveHere
      <4>3. QED  BY <4>1, <4>2
    <3>14. \A c \in Client : Joins(up'[c]) =>
             /\ \A e \in Base : e \notin doc'[c] /\ ~Has(up'[c], e)
             /\ \A h \in handlers' : h.sid # <<c, conn'[c]>>
      <4> SUFFICES ASSUME NEW c \in Client, Joins(up'[c])
                   PROVE  /\ \A e \in Base : e \notin doc'[c] /\ ~Has(up'[c], e)
                          /\ \A h \in handlers' : h.sid # <<c, conn'[c]>>
        OBVIOUS
      <4>1. c # k /\ up'[c] = up[c] /\ Joins(up[c])
        BY <3>10
      <4>2. \A h \in handlers' : h.sid # <<c, conn'[c]>>
        BY <3>1, <4>1, <1>d DEF SidOf
      <4>3. QED  BY <3>8, <3>9, <4>1, <4>2, <1>d
    <3>15. \A c \in Client : States(down'[c])
      BY <3>1, <1>d
    <3>16. users' = {} => log' = {}
      BY <3>1, <1>d
    <3>17. QED  BY <3>4, <3>12, <3>13, <3>14, <3>15, <3>16, SingleParts2
  <2>6. QED
    BY <1>6, <2>3, <2>4, <2>5 DEF ReceiveState, StartsAfresh
<1>7. ASSUME NEW k \in Client, Close(k) \/ Drop(k) PROVE Single'
  <2>1. /\ UNCHANGED <<log, users, handlers, conn>> /\ down' = [down EXCEPT ![k] = <<>>]
        /\ doc' = doc \/ doc' = [doc EXCEPT ![k] = {}]
        /\ Close(k) => doc' = [doc EXCEPT ![k] = {}]
    BY <1>7 DEF Close, Drop, server
  <2>2. online' = online \/ (online' = [online EXCEPT ![k] = FALSE] /\ Drop(k))
    BY <1>7 DEF Close, Drop
  <2>3. \/ up' = up
        \/ up' = [up EXCEPT ![k] = <<>>]
        \/ up' = [up EXCEPT ![k] = Append(up[k], Leave)]
    <3>1. up' = up \/ up' = [up EXCEPT ![k] = <<>>] \/ Send(k, Leave)
      BY <1>7 DEF Close, Drop, SendIf
    <3>2. QED  BY <3>1, <1>a, SendType, MessageTypes
  <2>4. ASSUME NEW c \in Client, c # k PROVE Calm(c)
    <3>1. up'[c] = up[c] /\ doc'[c] = doc[c] /\ down'[c] = down[c] /\ online'[c] = online[c]
      BY <2>1, <2>2, <2>3, <2>4, <1>b
    <3>2. UNCHANGED <<conn, handlers>>
      BY <2>1
    <3>3. QED  BY <2>4, <3>1, <3>2, <1>j
  <2>5. down'[k] = <<>> /\ (online'[k] => online[k]) /\ \A e : e \in doc'[k] => e \in doc[k]
    BY <2>1, <2>2, <1>b
  <2>6. (\A e : Has(up'[k], e) => Has(up[k], e)) /\ (Joins(up'[k]) => Joins(up[k]))
    <3>1. CASE up' = up
      BY <3>1
    <3>2. CASE up' = [up EXCEPT ![k] = <<>>]
      <4>1. up'[k] = <<>>
        BY <3>2, <1>b
      <4>2. QED  BY <4>1, HasNone DEF Joins
    <3>3. CASE up' = [up EXCEPT ![k] = Append(up[k], Leave)]
      <4>1. up'[k] = Append(up[k], Leave)
        BY <3>3, <1>b
      <4>2. Leave \in Message /\ Leave.kind # "join" /\ Leave.edits = {}
        BY MessageTypes DEF Leave
      <4>3. \A e : Has(Append(up[k], Leave), e) <=> Has(up[k], e) \/ e \in Leave.edits
        BY <4>2, <1>c, HasSent
      <4>4. Joins(Append(up[k], Leave)) <=> Joins(up[k])
        BY <4>2, <1>c, JoinsAppend
      <4>5. QED  BY <4>1, <4>2, <4>3, <4>4
    <3>4. QED  BY <2>3, <3>1, <3>2, <3>3
  <2>7. Joins(up'[k]) => \A h \in handlers' : h.sid # <<k, conn'[k]>>
    BY <2>1, <2>6, <1>d DEF SidOf
  <2>8. \A e \in Base : (online'[k] /\ e \in doc'[k]) \/ Has(up'[k], e) \/ Has(down'[k], e) => Alive(e)
    BY <2>5, <2>6, HasNone, AliveHere
  <2>9. Calm(k)
    BY <2>5, <2>6, <2>7, <2>8, <1>d, StatesNone DEF Calm
  <2>10. \A c \in Client : Starts(down'[c]) => Starts(down[c])
    <3>1. \A c \in Client : c # k => down'[c] = down[c]
      BY <2>1, <1>b
    <3>2. QED  BY <2>5, <3>1, StatesNone
  <2>11. QED  BY <2>1, <2>4, <2>9, <2>10, <1>i
<1>8. ASSUME NEW k \in Client, NEW kind, Accept(k, kind)
      PROVE  /\ UNCHANGED <<page, conn, online, doc>> /\ online[k] /\ up'[k] = Tail(up[k])
             /\ up[k] # <<>> /\ Head(up[k]).kind = kind /\ ~Joins(up'[k])
             /\ \A c \in Client : c # k => up'[c] = up[c]
             /\ \A e : Has(up[k], e) <=> Has(up'[k], e) \/ e \in Head(up[k]).edits
  <2>1. /\ UNCHANGED <<page, conn, online, doc>> /\ online[k] /\ up[k] # <<>>
        /\ Head(up[k]).kind = kind /\ up' = [up EXCEPT ![k] = Tail(up[k])]
    BY <1>8 DEF Accept, pages
  <2>2. up'[k] = Tail(up[k]) /\ \A c \in Client : c # k => up'[c] = up[c]
    BY <2>1, <1>b
  <2>3. ~Joins(Tail(up[k]))
    BY <2>1, <1>c, <1>h, JoinsTail
  <2>4. \A e : Has(up[k], e) <=> Has(Tail(up[k]), e) \/ e \in Head(up[k]).edits
    BY <2>1, <1>c, HasSent
  <2>5. QED  BY <2>1, <2>2, <2>3, <2>4
(* The page whose message is handled.                                      *)
<1>9. ASSUME NEW k \in Client, NEW kind, Accept(k, kind), States(down'[k]),
             \A e \in Base : Has(down'[k], e) => Alive(e)
      PROVE  Calm(k)
  <2>1. /\ online'[k] = online[k] /\ doc'[k] = doc[k] /\ ~Joins(up'[k]) /\ online[k]
        /\ \A e : Has(up'[k], e) => Has(up[k], e)
    BY <1>8, <1>9
  <2>2. \A e \in Base : (online'[k] /\ e \in doc'[k]) \/ Has(up'[k], e) => Alive(e)
    BY <2>1, AliveHere
  <2>3. QED  BY <1>9, <2>1, <2>2 DEF Calm
<1>10. ASSUME NEW k \in Client, HandleJoin(k) PROVE Single'
  <2>1. Accept(k, "join") /\ UNCHANGED <<log, handlers>> /\ users' = users \cup {SidOf(k)}
    BY <1>10 DEF HandleJoin, Entered
  <2>2. /\ UNCHANGED <<page, conn, online, doc>> /\ online[k] /\ up'[k] = Tail(up[k])
        /\ Joins(up[k]) /\ ~Joins(up'[k])
        /\ \A c \in Client : c # k => up'[c] = up[c]
    BY <2>1, <1>8 DEF Joins
  <2>3. PICK E \in {log, Visible(log)} :
          Emit({SidOf(k)}, [kind |-> "state", edits |-> E, alone |-> users' = {SidOf(k)}])
    BY <1>10 DEF HandleJoin
  <2> DEFINE ev == [kind |-> "state", edits |-> E, alone |-> users' = {SidOf(k)}]
  <2>4. E \subseteq log
    BY <2>3, VisibleType
  <2>5. ev \in Event /\ ev.edits = E /\ ev.alone = (users' = {SidOf(k)}) /\ Emit({SidOf(k)}, ev)
    BY <2>3, <2>4, <1>b DEF Event
  <2> HIDE DEF ev
  <2>6. down[k] = <<>>
    BY <2>2, <1>h
  <2>7. down'[k] = <<>> \/ down'[k] = Append(<<>>, ev)
    BY <2>5, <2>6, EmitReach
  <2>8. \A c \in Client : c # k => down'[c] = down[c]
    BY <2>5, <1>e, EmitReach
  <2>9. States(down'[k]) /\ (Starts(down'[k]) => users' = {SidOf(k)})
    BY <2>5, <2>7, StatesFirst, StatesNone
  <2>10. \A e \in Base : Has(down'[k], e) => Alive(e)
    <3>1. <<>> \in Seq(Event)
      OBVIOUS
    <3>2. \A e : Has(Append(<<>>, ev), e) <=> Has(<<>>, e) \/ e \in ev.edits
      BY <2>5, <3>1, HasEvent
    <3>3. QED  BY <2>4, <2>5, <2>7, <3>2, HasNone, <1>f
  <2>11. Calm(k)
    BY <2>1, <2>9, <2>10, <1>9
  <2>12. ASSUME NEW c \in Client, c # k PROVE Calm(c)
    <3>1. /\ conn' = conn /\ handlers' = handlers /\ online'[c] = online[c] /\ doc'[c] = doc[c]
          /\ up'[c] = up[c] /\ down'[c] = down[c]
      BY <2>1, <2>2, <2>8, <2>12
    <3>2. QED  BY <2>12, <3>1, <1>j
  <2>13. \A e \in Base : \A h \in handlers' :
           h.at = "stop" /\ h.sid \in users' /\ e \in h.edits => Alive(e)
    BY <2>1, <2>2, <1>d, <1>g
  <2>14. \/ \A c \in Client : Starts(down'[c]) => Starts(down[c])
         \/ /\ \A e \in Base : ~Alive(e)
            /\ \A c, d \in Client : Starts(down'[c]) /\ Starts(down'[d]) => c = d
    <3>1. CASE ~Starts(down'[k])
      BY <2>8, <3>1
    <3>2. CASE Starts(down'[k])
      <4>1. SidOf(k) \notin users
        BY <2>2, <1>a, UpParts
      <4>2. users = {}
        BY <2>1, <2>9, <3>2, <4>1
      <4>3. \A c \in Client : online[c] =>
              Joins(up[c]) \/ (page[c] # "open" /\ up[c] = <<>>)
        BY <4>2, <1>a, UpParts
      <4>4. \A c \in Client : down[c] = <<>>
        <5>1. \A c \in Client : ~online[c] => down[c] = <<>>
          BY <1>a, UpParts
        <5>2. QED  BY <4>3, <5>1, <1>h
      <4>5. \A c \in Client : \A e \in Base : ~Has(up[c], e)
        <5>1. \A c \in Client : ~online[c] => up[c] = <<>>
          BY <1>a, UpParts
        <5>2. QED  BY <4>3, <5>1, <1>d, HasNone
      <4>6. \A c \in Client : \A e \in Base : ~(online[c] /\ e \in doc[c])
        <5>1. \A c \in Client : page[c] # "open" => doc[c] = {}
          BY <1>a DEF PageOK
        <5>2. QED  BY <4>3, <5>1, <1>d
      <4>7. \A e \in Base : ~Alive(e)
        BY <4>2, <4>4, <4>5, <4>6, <1>d, HasNone, AliveParts
      <4>8. \A c \in Client : Starts(down'[c]) => c = k
        BY <2>8, <4>4, StatesNone
      <4>9. QED  BY <4>7, <4>8
    <3>3. QED  BY <3>1, <3>2
  <2>15. users' # {}
    BY <2>1
  <2>16. \A c \in Client : Calm(c)
    BY <2>11, <2>12
  <2>17. \A e \in Base : e \in log' => Alive(e)
    BY <2>1, <1>f
  <2>18. QED  BY <2>13, <2>14, <2>15, <2>16, <2>17, SingleStep
<1>k. \A s, E, b, rest : AppendUpdate(s, E, b, rest) => s \in users
  BY DEF AppendUpdate, First
<1>11. ASSUME NEW k \in Client, HandleUpdate(k) PROVE Single'
  <2> DEFINE M == Head(up[k]).edits
             b == Head(up[k]).data
  <2>1. Accept(k, "update")
    BY <1>11 DEF HandleUpdate
  <2>2. /\ UNCHANGED <<page, conn, online, doc>> /\ online[k] /\ up[k] # <<>>
        /\ \A c \in Client : c # k => up'[c] = up[c]
        /\ \A e : Has(up[k], e) <=> Has(up'[k], e) \/ e \in M
    BY <2>1, <1>8
  <2>3. M \in SUBSET Edit /\ b \in BOOLEAN
    BY <2>2, <1>a, HeadType DEF Message
  <2>4. \A e \in Base : e \in M => Alive(e)
    BY <2>2, AliveHere
  <2>5. CASE AppendUpdate(SidOf(k), M, b, handlers)
    <3> HIDE DEF M, b
    <3>1. SidOf(k) \in users /\ handlers \in SUBSET handlers
      BY <2>5, <1>k
    <3>2. /\ users' = {} => log' = {}
          /\ \A e \in Base : e \in log' => Alive(e)
          /\ \A e \in Base : \A h \in handlers' :
               h.at = "stop" /\ h.sid \in users' /\ e \in h.edits => Alive(e)
          /\ \A c \in Client : /\ States(down'[c]) /\ (Starts(down'[c]) => Starts(down[c]))
                               /\ \A e \in Base : Has(down'[c], e) => Alive(e)
          /\ \A h \in handlers' : h.sid = SidOf(k) \/ h \in handlers
      <4>1. Spread(SidOf(k))
        BY <2>3, <2>4, <2>5, <3>1, SingleAppend
      <4>2. QED  BY <4>1 DEF Spread
    <3>3. Calm(k)
      BY <2>1, <3>2, <1>9
    <3>4. ASSUME NEW c \in Client, c # k PROVE Calm(c)
      <4>1. /\ doc'[c] = doc[c] /\ up'[c] = up[c] /\ conn'[c] = conn[c] /\ (online'[c] => online[c])
            /\ States(down'[c]) /\ \A e \in Base : Has(down'[c], e) => Alive(e)
        BY <2>2, <3>2, <3>4
      <4>2. \A h \in handlers' : h.sid = SidOf(c) => \E g \in handlers : g.sid = h.sid
        BY <3>2, <3>4, <1>e
      <4>3. QED  BY <4>1, <4>2, CalmFrame
    <3>5. \A c \in Client : Calm(c)
      BY <3>3, <3>4
    <3>6. QED  BY <3>2, <3>5, SingleStep
  <2>6. CASE /\ handlers' = handlers \cup {[sid |-> SidOf(k), at |-> "stop", edits |-> M, data |-> b]}
             /\ UNCHANGED <<log, users, ghosts, down>>
    <3> DEFINE g == [sid |-> SidOf(k), at |-> "stop", edits |-> M, data |-> b]
    <3>1. g.sid = SidOf(k) /\ g.edits = M /\ handlers' = handlers \cup {g}
          /\ UNCHANGED <<log, users, down>>
      BY <2>6
    <3> HIDE DEF g, M, b
    <3>2. \A c \in Client : States(down'[c]) /\ \A e \in Base : Has(down'[c], e) => Alive(e)
      BY <3>1, <1>d, AliveHere
    <3>3. Calm(k)
      BY <2>1, <3>2, <1>9
    <3>4. ASSUME NEW c \in Client, c # k PROVE Calm(c)
      <4>1. /\ doc'[c] = doc[c] /\ up'[c] = up[c] /\ conn'[c] = conn[c] /\ (online'[c] => online[c])
            /\ down'[c] = down[c]
        BY <2>2, <3>1, <3>4
      <4>2. \A h \in handlers' : h.sid = SidOf(c) => \E f \in handlers : f.sid = h.sid
        BY <3>1, <3>4, <1>e
      <4>3. QED  BY <4>1, <4>2, CalmSame
    <3>5. \A c \in Client : Calm(c)
      BY <3>3, <3>4
    <3>6. \A e \in Base : \A h \in handlers' :
            h.at = "stop" /\ h.sid \in users' /\ e \in h.edits => Alive(e)
      BY <2>4, <3>1, <1>g
    <3>7. /\ users' = {} => log' = {}
          /\ \A e \in Base : e \in log' => Alive(e)
          /\ \A c \in Client : Starts(down'[c]) => Starts(down[c])
      BY <3>1, <1>d, <1>f
    <3>8. QED  BY <3>5, <3>6, <3>7, SingleStep
  <2>7. QED  BY <1>11, <2>5, <2>6 DEF HandleUpdate
<1>12. ASSUME NEW h \in handlers, SavesStopped(h) PROVE Single'
  <2>1. /\ h.at = "stop" /\ AppendUpdate(h.sid, h.edits, h.data, handlers \ {h})
        /\ UNCHANGED <<conn, online, doc, up>>
    BY <1>12 DEF SavesStopped, pages
  <2>2. h.sid \in users /\ h.edits \in SUBSET Edit /\ h.data \in BOOLEAN
        /\ handlers \ {h} \in SUBSET handlers
    BY <2>1, <1>a, <1>k DEF TypeOK, Handler
  <2>3. \A e \in Base : e \in h.edits => Alive(e)
    BY <2>1, <2>2, <1>g
  <2>4. /\ users' = {} => log' = {}
        /\ \A e \in Base : e \in log' => Alive(e)
        /\ \A e \in Base : \A g \in handlers' :
             g.at = "stop" /\ g.sid \in users' /\ e \in g.edits => Alive(e)
        /\ \A c \in Client : /\ States(down'[c]) /\ (Starts(down'[c]) => Starts(down[c]))
                             /\ \A e \in Base : Has(down'[c], e) => Alive(e)
        /\ \A g \in handlers' : g.sid = h.sid \/ g \in handlers
    <3>1. Spread(h.sid)
      BY <2>1, <2>2, <2>3, SingleAppend
    <3>2. QED  BY <3>1 DEF Spread
  <2>5. ASSUME NEW c \in Client PROVE Calm(c)
    <3>1. /\ doc'[c] = doc[c] /\ up'[c] = up[c] /\ conn'[c] = conn[c] /\ (online'[c] => online[c])
          /\ States(down'[c]) /\ \A e \in Base : Has(down'[c], e) => Alive(e)
      BY <2>1, <2>4
    <3>2. \A g \in handlers' : \E f \in handlers : f.sid = g.sid
      BY <2>4
    <3>3. QED  BY <3>1, <3>2, CalmFrame
  <2>6. QED  BY <2>4, <2>5, SingleStep
<1>l. ASSUME UNCHANGED <<conn, online, doc, up, down>>, users' \subseteq users,
             log' \subseteq log, users' = {} => log' = {}, handlers' \subseteq handlers
      PROVE  Single'
  <2>1. ASSUME NEW c \in Client PROVE Calm(c)
    <3>1. /\ doc'[c] = doc[c] /\ up'[c] = up[c] /\ conn'[c] = conn[c] /\ (online'[c] => online[c])
          /\ down'[c] = down[c]
      BY <1>l
    <3>2. \A g \in handlers' : \E f \in handlers : f.sid = g.sid
      BY <1>l
    <3>3. QED  BY <3>1, <3>2, CalmSame
  <2>2. \A e \in Base : e \in log' => Alive(e)
    BY <1>l, <1>f
  <2>3. \A e \in Base : \A h \in handlers' :
          h.at = "stop" /\ h.sid \in users' /\ e \in h.edits => Alive(e)
    BY <1>l, <1>g
  <2>4. \A c \in Client : Starts(down'[c]) => Starts(down[c])
    BY <1>l
  <2>5. QED  BY <1>l, <2>1, <2>2, <2>3, <2>4, SingleStep
<1>13. ASSUME NEW k \in Client, HandleLeave(k) PROVE Single'
  <2>1. Accept(k, "leave") /\ users' = users \ {SidOf(k)} /\ down' = down
        /\ log' \subseteq log /\ (users' = {} => log' = {})
        /\ \A h \in handlers' : h \in handlers \/ (h.sid = SidOf(k) /\ h.at = "left")
    BY <1>13 DEF HandleLeave, ClearIfUnused
  <2>2. /\ UNCHANGED <<conn, online, doc>> /\ \A c \in Client : c # k => up'[c] = up[c]
    BY <2>1, <1>8
  <2>3. Calm(k)
    <3>1. States(down'[k]) /\ \A e \in Base : Has(down'[k], e) => Alive(e)
      BY <2>1, <1>d, AliveHere
    <3>2. QED  BY <2>1, <3>1, <1>9
  <2>4. ASSUME NEW c \in Client, c # k PROVE Calm(c)
    <3>1. /\ doc'[c] = doc[c] /\ up'[c] = up[c] /\ conn'[c] = conn[c] /\ (online'[c] => online[c])
          /\ down'[c] = down[c]
      BY <2>1, <2>2, <2>4
    <3>2. \A h \in handlers' : h.sid = SidOf(c) => \E f \in handlers : f.sid = h.sid
      BY <2>1, <2>4, <1>e
    <3>3. QED  BY <3>1, <3>2, CalmSame
  <2>5. \A c \in Client : Calm(c)
    BY <2>3, <2>4
  <2>6. \A e \in Base : e \in log' => Alive(e)
    BY <2>1, <1>f
  <2>7. \A e \in Base : \A h \in handlers' :
          h.at = "stop" /\ h.sid \in users' /\ e \in h.edits => Alive(e)
    BY <2>1, <1>g
  <2>8. \A c \in Client : Starts(down'[c]) => Starts(down[c])
    BY <2>1
  <2>9. QED  BY <2>1, <2>5, <2>6, <2>7, <2>8, SingleStep
<1>14. ASSUME NEW h \in handlers, CreateSave(h) \/ Left(h) PROVE Single'
  <2>1. UNCHANGED <<conn, online, doc, up, down, users>> /\ handlers' \subseteq handlers
    BY <1>14 DEF CreateSave, Left, pages
  <2>2. log' \subseteq log /\ (users' = {} => log' = {})
    BY <1>14, <1>d DEF CreateSave, Left, ClearIfUnused
  <2>3. users' \subseteq users
    BY <2>1
  <2>4. QED  BY <2>1, <2>2, <2>3, <1>l
<1>15. ASSUME NEW s \in lost, Disconnect(s) PROVE Single'
  <2>1. /\ UNCHANGED <<conn, online, doc, up, down, handlers>> /\ users' = users \ {s}
        /\ log' \subseteq log /\ (users' = {} => log' = {})
    BY <1>15, <1>d DEF Disconnect, ClearIfUnused
  <2>2. users' \subseteq users /\ handlers' \subseteq handlers
    BY <2>1
  <2>3. QED  BY <2>1, <2>2, <1>l
<1>16. CASE SaveEnds \/ UNCHANGED vars
  <2>1. UNCHANGED <<conn, online, doc, up, down, handlers, log, users>>
    BY <1>16 DEF SaveEnds, vars, server, pages
  <2>2. users' \subseteq users /\ handlers' \subseteq handlers
        /\ log' \subseteq log /\ (users' = {} => log' = {})
    BY <2>1, <1>d
  <2>3. QED  BY <2>1, <2>2, <1>l
<1>17. CASE Crash
  <2>1. /\ log' = {} /\ handlers' = {} /\ doc' = doc
        /\ \A c \in Client : up'[c] = <<>> /\ down'[c] = <<>> /\ ~online'[c]
    BY <1>17 DEF Crash
  <2>2. \A c \in Client : Calm(c)
    BY <2>1, HasNone, StatesNone DEF Calm, Joins
  <2>3. \A c \in Client : Starts(down'[c]) => Starts(down[c])
    BY <2>1, StatesNone
  <2>4. QED  BY <2>1, <2>2, <2>3, SingleStep
<1>18. QED
  BY <1>1, <1>2, <1>5, <1>6, <1>7, <1>10, <1>11, <1>12, <1>13, <1>14, <1>15, <1>16, <1>17
     DEF Next, ServerStep, PageStep

LEMMA InitBase == Init => BaseOK
<1> SUFFICES ASSUME Init PROVE Single
  BY DEF BaseOK
<1>1. /\ users = {} /\ log = {} /\ handlers = {}
      /\ \A c \in Client : /\ up[c] = <<>> /\ down[c] = <<>> /\ doc[c] = {}
                           /\ ~Joins(up[c])
  BY DEF Init, Joins
<1>2. \A e : ~Alive(e)
  BY <1>1, HasNone, AliveParts
<1>3. QED  BY <1>1, <1>2, StatesNone, SingleParts

LEMMA NextBase == WatchInv /\ BaseOK /\ [Next]_vars => BaseOK'
<1> SUFFICES ASSUME WatchInv, BaseOK, [Next]_vars, First' PROVE Single'
  BY DEF BaseOK, First
<1>1. TypeOK /\ TypeOK' /\ WatchInv'
  BY NextWatch DEF WatchInv
<1>2. late => late'
  BY DEF Next, vars, server, pages, ghosts, PageStep, ServerStep, Open, Reconnect, Connect, Type,
         ReceiveUpdate, ReceiveState, Take, Close, Drop, HandleJoin, HandleUpdate, HandleLeave,
         SavesStopped, CreateSave, Left, Disconnect, SaveEnds, Crash, AppendUpdate
<1>3. \A c \in Client : conn'[c] <= 1 => conn[c] <= 1
  <2>1. conn' = conn \/ \E k \in Client : conn' = [conn EXCEPT ![k] = @ + 1]
    BY DEF Next, vars, server, pages, PageStep, ServerStep, Open, Reconnect, Connect, Type,
           ReceiveUpdate, ReceiveState, Take, Close, Drop, HandleJoin, HandleUpdate, HandleLeave,
           SavesStopped, CreateSave, Left, Disconnect, SaveEnds, Crash, Accept
  <2>2. conn \in [Client -> 0..MaxConn] /\ MaxConn \in Nat
    BY <1>1 DEF TypeOK, MaxConn
  <2>3. QED  BY <2>1, <2>2
<1>4. Single
  BY <1>2, <1>3 DEF BaseOK, First
<1>5. QED  BY <1>1, <1>4, NextSingle

LEMMA BaseUses == BaseOK => OneBase
<1> SUFFICES ASSUME Single, NEW c \in Client PROVE Cardinality(doc[c] \cap Base) <= 1
  BY DEF BaseOK, OneBase
<1>1. \A d, e \in doc[c] \cap Base : d = e
  BY SingleParts
<1>2. CASE doc[c] \cap Base = {}
  BY <1>2, FS_EmptySet
<1>3. ASSUME NEW d \in doc[c] \cap Base PROVE Cardinality(doc[c] \cap Base) <= 1
  <2>1. doc[c] \cap Base = {d}
    BY <1>1
  <2>2. QED  BY <2>1, FS_Singleton
<1>4. QED  BY <1>2, <1>3

(* The content of the database is in no document twice, whoever joins,     *)
(* leaves and asks first, as long as nobody reconnects and no update waits *)
(* for a save while its page leaves.                                       *)
THEOREM ContentOnce == Spec => []OneBase
BY InitWatch, NextWatch, InitBase, NextBase, BaseUses, PTL DEF Spec
=============================================================================
