----------------------------- MODULE CollabDoc -----------------------------
(***************************************************************************)
(* Editing a note together on one server process: the ydoc handlers of     *)
(* backend/open_webui/socket/main.py, YdocManager of socket/utils.py in    *)
(* memory, and the page's side of it                                       *)
(* (src/lib/components/common/RichTextInput/Collaboration.ts).             *)
(*                                                                         *)
(* The server keeps a log of Yjs updates per document and the sessions     *)
(* that have it open; when the last one goes the log is cleared, and the   *)
(* next page to open the note starts from the content in the database.     *)
(*                                                                         *)
(* A Yjs document is a set of edits that grows and whose order does not    *)
(* matter.  An edit can only be integrated after the ones it was made on   *)
(* top of; until then it is pending and invisible.  Deleting is left out.  *)
(*                                                                         *)
(* In memory, YdocManager does not suspend its caller: a handler suspends  *)
(* only while it waits for saves it stops, and while a broadcast that has  *)
(* recipients is sent.  Socket.IO starts the handlers of a session in      *)
(* order and lets them overlap.                                            *)
(***************************************************************************)
EXTENDS Naturals, Sequences, FiniteSets

CONSTANTS
  Client,      \* pages; each opens the note once
  MaxEvent     \* bound on the edits, broken connections and crashes in all

ASSUME CollabAssumption == MaxEvent \in Nat

(* A session id; the edit 0 of a page is the content of the database as    *)
(* this page has put it into the document.                                 *)
MaxConn == MaxEvent + 1
Sid == Client \X (1..MaxConn)
Edit == Client \X (0..MaxEvent)
Base == Client \X {0}

Message == [kind : {"join", "leave", "update"}, edits : SUBSET Edit, data : BOOLEAN]
Event == [kind : {"state", "update"}, edits : SUBSET Edit, alone : BOOLEAN]

(* A handler that is suspended: before it appends its update, before it    *)
(* creates its save, or after it has told the others that its user left.   *)
Handler == [sid : Sid, at : {"stop", "save", "left"}, edits : SUBSET Edit, data : BOOLEAN]

VARIABLES
  log,       \* YDOC_MANAGER: the updates of the document, without repetitions
  users,     \* YDOC_MANAGER: its sessions; also the sessions of its room
  handlers,  \* handlers that are suspended
  pending,   \* a debounced save sleeps and is not cancelled
  page,      \* new, open, closed
  conn,      \* of a page: the number of its current connection
  online,    \* it has one
  lost,      \* sessions whose connection is lost and whose server has not noticed
  doc,       \* of a page: the edits it has received or made
  up, down,  \* what is on its way to the server, and to the page
  dep,       \* of an edit: the edits it was made on top of
  typed,     \* of a page: number of edits made by its user
  torn,      \* history: a page joined while the log had a gap
  late,      \* history: an update was appended after its session had left
  events     \* edits, connections broken and crashes

ghosts == <<torn, late>>
server == <<log, users, handlers, pending, ghosts>>
pages == <<page, conn, online, lost, doc, dep, typed>>
vars == <<server, pages, up, down, events>>

TypeOK ==
  /\ log \subseteq Edit /\ users \subseteq Sid
  /\ handlers \subseteq Handler /\ pending \in BOOLEAN
  /\ torn \in BOOLEAN /\ late \in BOOLEAN
  /\ page \in [Client -> {"new", "open", "closed"}]
  /\ conn \in [Client -> 0..MaxConn] /\ online \in [Client -> BOOLEAN]
  /\ lost \subseteq Sid /\ doc \in [Client -> SUBSET Edit]
  /\ up \in [Client -> Seq(Message)] /\ down \in [Client -> Seq(Event)]
  /\ dep \in [Edit -> SUBSET Edit] /\ typed \in [Client -> 0..MaxEvent]
  /\ events \in 0..MaxEvent

Init ==
  /\ log = {} /\ users = {} /\ handlers = {} /\ pending = FALSE
  /\ torn = FALSE /\ late = FALSE
  /\ page = [c \in Client |-> "new"]
  /\ conn = [c \in Client |-> 0] /\ online = [c \in Client |-> FALSE] /\ lost = {}
  /\ doc = [c \in Client |-> {}]
  /\ up = [c \in Client |-> <<>>] /\ down = [c \in Client |-> <<>>]
  /\ dep = [e \in Edit |-> {}] /\ typed = [c \in Client |-> 0]
  /\ events = 0

Visible(R) == {e \in R : dep[e] \subseteq R}
SidOf(c) == <<c, conn[c]>>
Watching(c) == page[c] = "open" /\ online[c]
Happens == events < MaxEvent /\ events' = events + 1

-----------------------------------------------------------------------------
(* The page.                                                               *)

Join == [kind |-> "join", edits |-> {}, data |-> FALSE]
Leave == [kind |-> "leave", edits |-> {}, data |-> FALSE]
Update(E, d) == [kind |-> "update", edits |-> E, data |-> d]

Send(c, msg) == up' = [up EXCEPT ![c] = Append(@, msg)]
SendIf(p, c, msg) == (p /\ Send(c, msg)) \/ (~p /\ UNCHANGED up)

Connect(c) ==
  /\ conn' = [conn EXCEPT ![c] = @ + 1]
  /\ online' = [online EXCEPT ![c] = TRUE]
  /\ Send(c, Join)
  /\ UNCHANGED <<server, lost, doc, dep, typed, down, events>>

Open(c) ==
  /\ page[c] = "new"
  /\ page' = [page EXCEPT ![c] = "open"]
  /\ Connect(c)

Reconnect(c) ==
  /\ page[c] = "open" /\ ~online[c]
  /\ Connect(c)
  /\ UNCHANGED page

(* The user types, before or after the state of the document has arrived.  *)
(* The listener of the document's "update" event sends the edit, and the   *)
(* content with it, if there is a connection.                              *)
Type(c) ==
  LET e == <<c, typed[c] + 1>>
  IN /\ page[c] = "open" /\ Happens
     /\ typed' = [typed EXCEPT ![c] = @ + 1]
     /\ dep' = [dep EXCEPT ![e] = Visible(doc[c])]
     /\ doc' = [doc EXCEPT ![c] = @ \cup {e}]
     /\ SendIf(online[c], c, Update({e}, TRUE))
     /\ UNCHANGED <<server, page, conn, online, lost, down>>

Take(c, kind) ==
  /\ Watching(c) /\ down[c] # <<>> /\ Head(down[c]).kind = kind
  /\ down' = [down EXCEPT ![c] = Tail(@)]
  /\ UNCHANGED <<server, page, conn, online, lost, dep, typed, events>>

(* ydoc:document:update.  What becomes visible raises "update" as well,    *)
(* and is sent back: Y.applyUpdate is not told that it is the server's.    *)
ReceiveUpdate(c) ==
  LET all == doc[c] \cup Head(down[c]).edits
      delta == Visible(all) \ Visible(doc[c])
  IN /\ Take(c, "update")
     /\ doc' = [doc EXCEPT ![c] = all]
     /\ SendIf(delta # {}, c, Update(delta, TRUE))

\* Mutant: without asking whether others have the document open
StartsAmongOthers(ev, empty) == ev.edits = {} /\ empty
StartsAfresh(ev, empty) == ev.edits = {} /\ empty /\ ev.alone

(* ydoc:document:state.  The state of an empty document makes a page that  *)
(* is empty and alone start from the content of the database, and a page   *)
(* that is not empty send what it has.                                     *)
ReceiveState(c) ==
  LET ev == Head(down[c])
      empty == Visible(doc[c]) = {}
  IN /\ Take(c, "state")
     /\ \/ /\ ev.edits # {}
           /\ doc' = [doc EXCEPT ![c] = @ \cup ev.edits]
           /\ UNCHANGED up
        \/ /\ StartsAfresh(ev, empty)
           /\ doc' = [doc EXCEPT ![c] = @ \cup {<<c, 0>>}]
           /\ Send(c, Update({<<c, 0>>}, TRUE))
        \/ /\ ev.edits = {} /\ ~StartsAfresh(ev, empty)
           /\ SendIf(~empty, c, Update(doc[c], FALSE))
           /\ UNCHANGED doc

(* The user leaves the note; the session stays.                            *)
Close(c) ==
  /\ page[c] = "open"
  /\ page' = [page EXCEPT ![c] = "closed"]
  /\ SendIf(online[c], c, Leave)
  /\ doc' = [doc EXCEPT ![c] = {}]
  /\ down' = [down EXCEPT ![c] = <<>>]
  /\ UNCHANGED <<server, conn, online, lost, dep, typed, events>>

(* The connection breaks, or the page is closed as a whole.  What is under *)
(* way is lost, and the server may not notice at once.                     *)
Drop(c) ==
  /\ online[c] /\ Happens
  /\ online' = [online EXCEPT ![c] = FALSE]
  /\ lost' = lost \cup {SidOf(c)}
  /\ up' = [up EXCEPT ![c] = <<>>]
  /\ down' = [down EXCEPT ![c] = <<>>]
  /\ UNCHANGED <<server, page, conn, doc, dep, typed>>

-----------------------------------------------------------------------------
(* The server's handlers.                                                  *)

Emit(S, ev) ==
  down' = [c \in Client |->
    IF Watching(c) /\ SidOf(c) \in S THEN Append(down[c], ev) ELSE down[c]]

Accept(c, kind) ==
  /\ online[c] /\ up[c] # <<>> /\ Head(up[c]).kind = kind
  /\ up' = [up EXCEPT ![c] = Tail(@)]
  /\ UNCHANGED <<pages, events>>

Entered(c) == users \cup {SidOf(c)}

(* ydoc:document:join.  The state that is sent may or may not have the     *)
(* updates of the log that cannot be integrated yet: this is the library's *)
(* choice, and history remembers that there were some.                     *)
HandleJoin(c) ==
  /\ Accept(c, "join")
  /\ users' = Entered(c)
  /\ \E E \in {log, Visible(log)} :
       Emit({SidOf(c)}, [kind |-> "state", edits |-> E, alone |-> users' = {SidOf(c)}])
  /\ torn' = (torn \/ log # Visible(log))
  /\ UNCHANGED <<log, handlers, pending, late>>

\* Mutant: an update replaces the log
Replaced(E) == E
Appended(E) == log \cup E

(* append_to_updates and the broadcast; a save is created at once if there *)
(* is nobody to tell.                                                      *)
AppendUpdate(s, E, data, rest) ==
  LET others == users \ {s}
  IN /\ log' = Appended(E)
     /\ Emit(others, [kind |-> "update", edits |-> E, alone |-> FALSE])
     /\ \/ /\ others = {}
           /\ handlers' = rest /\ pending' = (pending \/ data)
        \/ /\ others # {}
           /\ handlers' = rest \cup {[sid |-> s, at |-> "save", edits |-> E, data |-> data]}
           /\ UNCHANGED pending
     /\ late' = (late \/ s \notin users)
     /\ UNCHANGED <<users, torn>>

(* ydoc:document:update.  stop_item_tasks cancels the saves and waits, and *)
(* returns at once if there are none or another handler has cancelled them.*)
HandleUpdate(c) ==
  LET msg == Head(up[c])
  IN /\ Accept(c, "update")
     /\ \/ /\ ~pending
           /\ AppendUpdate(SidOf(c), msg.edits, msg.data, handlers)
        \/ /\ pending /\ pending' = FALSE
           /\ handlers' = handlers \cup
                {[sid |-> SidOf(c), at |-> "stop", edits |-> msg.edits, data |-> msg.data]}
           /\ UNCHANGED <<log, users, ghosts, down>>

SavesStopped(h) ==
  /\ h.at = "stop"
  /\ AppendUpdate(h.sid, h.edits, h.data, handlers \ {h})
  /\ UNCHANGED <<pages, up, events>>

CreateSave(h) ==
  /\ h.at = "save"
  /\ pending' = (pending \/ h.data)
  /\ handlers' = handlers \ {h}
  /\ UNCHANGED <<log, users, ghosts, pages, up, down, events>>

(* debounced_save has slept and written the content.                       *)
SaveEnds ==
  /\ pending /\ pending' = FALSE
  /\ UNCHANGED <<log, users, handlers, ghosts, pages, up, down, events>>

\* Mutant: without asking whether others have the document open
ClearAnyway == log' = {}

(* clear_document, if nobody has the document open                         *)
ClearIfUnused == log' = IF users' = {} THEN {} ELSE log

(* ydoc:document:leave: remove_user, leave_room, and a broadcast that      *)
(* suspends if there is anybody to tell                                    *)
HandleLeave(c) ==
  /\ Accept(c, "leave")
  /\ users' = users \ {SidOf(c)}
  /\ \/ /\ users' = {}
        /\ ClearIfUnused
        /\ UNCHANGED handlers
     \/ /\ users' # {}
        /\ handlers' = handlers \cup
             {[sid |-> SidOf(c), at |-> "left", edits |-> {}, data |-> FALSE]}
        /\ UNCHANGED log
  /\ UNCHANGED <<pending, ghosts, down>>

Left(h) ==
  /\ h.at = "left"
  /\ handlers' = handlers \ {h}
  /\ UNCHANGED users
  /\ ClearIfUnused
  /\ UNCHANGED <<pending, ghosts, pages, up, down, events>>

\* Mutant: the session stays in the document
DisconnectFromRoomOnly(s) ==
  /\ lost' = lost \ {s}
  /\ UNCHANGED <<server, page, conn, online, doc, dep, typed, up, down, events>>

(* disconnect: remove_user_from_all_documents                              *)
Disconnect(s) ==
  /\ lost' = lost \ {s}
  /\ users' = users \ {s}
  /\ \/ s \in users /\ ClearIfUnused
     \/ s \notin users /\ UNCHANGED log
  /\ UNCHANGED <<handlers, pending, ghosts, page, conn, online, doc, dep, typed, up, down, events>>

(* The server dies and is started again; the pages lose their connections. *)
Crash ==
  /\ Happens
  /\ log' = {} /\ users' = {} /\ handlers' = {} /\ pending' = FALSE /\ lost' = {}
  /\ online' = [c \in Client |-> FALSE]
  /\ up' = [c \in Client |-> <<>>] /\ down' = [c \in Client |-> <<>>]
  /\ UNCHANGED <<ghosts, page, conn, doc, dep, typed>>

PageStep(c) ==
  \/ Open(c) \/ Reconnect(c) \/ Type(c) \/ ReceiveUpdate(c) \/ ReceiveState(c)
  \/ Close(c) \/ Drop(c)

ServerStep ==
  \/ \E c \in Client : HandleJoin(c) \/ HandleUpdate(c) \/ HandleLeave(c)
  \/ \E h \in handlers : SavesStopped(h) \/ CreateSave(h) \/ Left(h)
  \/ \E s \in lost : Disconnect(s)
  \/ SaveEnds
  \/ Crash

Next == ServerStep \/ \E c \in Client : PageStep(c)

Spec == Init /\ [][Next]_vars

-----------------------------------------------------------------------------
(* Properties.                                                             *)

(* Everything that was sent has arrived and been handled.                  *)
Quiet ==
  /\ handlers = {} /\ lost = {}
  /\ \A c \in Client : up[c] = <<>> /\ down[c] = <<>>

Steady(c) == Watching(c) /\ conn[c] = 1

(* "multiple users can edit a note in real-time": when everything that was *)
(* sent has arrived, pages that have kept their first connection, whatever *)
(* happened to the others, show the same document, as long as no page      *)
(* joined a log with a gap.                                                *)
SteadyConverged ==
  Quiet /\ ~torn => \A c, d \in Client :
    Steady(c) /\ Steady(d) => Visible(doc[c]) = Visible(doc[d])

(* A page that opens the note now is sent all that such a page shows: the  *)
(* log is neither cleared under its users nor misses what they broadcast.  *)
LogComplete ==
  Quiet => \A c \in Client : Steady(c) => Visible(doc[c]) \subseteq log

(* As long as no page has reconnected, and no update has been appended     *)
(* after its session had left, the content of the database is in a         *)
(* document once: two pages that both put it there double the note.        *)
OneBase ==
  ~late /\ (\A c \in Client : conn[c] <= 1) =>
    \A c \in Client : Cardinality(doc[c] \cap Base) <= 1

(* No session stays in a document after its page is gone, and none that    *)
(* watches is missing: broadcasts, clearing and `alone` rest on this.      *)
UsersWatch == Quiet => users = {SidOf(c) : c \in {d \in Client : Watching(d)}}
=============================================================================
