------------------------------ MODULE Library ------------------------------
(***************************************************************************)
(* The chats of the users, in folders, with tags, archived and shared:     *)
(* routers/chats.py and routers/folders.py over models/chats.py,           *)
(* models/folders.py and models/tags.py.                                   *)
(*                                                                         *)
(* No foreign key ties the tables together: that a chat's folder exists,   *)
(* that its tags have rows, that unused tags have none, and that a shared  *)
(* chat has a copy is kept up by the handlers, one commit after the other. *)
(* One server process handles a request at a time, because its handlers    *)
(* never await between two commits, except create_folder, which runs in a  *)
(* thread.  The process may be killed between two commits.                 *)
(*                                                                         *)
(* A handler that commits once is one action.  One that commits several    *)
(* times leaves what it has still to do in todo; a query is a step         *)
(* together with the commit it decides.                                    *)
(***************************************************************************)
EXTENDS Naturals, SequencesExt

CONSTANTS
  User, Name, Tag,
  Chat, Folder,    \* ids; none is used twice
  MaxRequests,     \* bound: requests handled
  None,            \* no folder
  Null, Gone       \* of an id: no row yet, row deleted

ChatRow == [user : User, folder : Folder \cup {None}, tags : SUBSET Tag, archived : BOOLEAN, shared : BOOLEAN]
FolderRow == [user : User, parent : Folder \cup {None}, name : Name]
CopyRow == [folder : Folder \cup {None}, tags : SUBSET Tag]

ASSUME LibraryAssumption ==
  /\ MaxRequests \in Nat
  /\ IsFiniteSet(Chat) /\ IsFiniteSet(Folder) /\ IsFiniteSet(Tag)
  /\ None \notin Folder \cup {Null, Gone} /\ Null # Gone
  /\ {Null, Gone} \cap (ChatRow \cup FolderRow \cup CopyRow) = {}

VARIABLES
  chat,      \* rows by id: [user, folder, tags, archived, shared (has a share_id)]
  copy,      \* of a chat: its shared copy, a row [folder, tags], or Null
  folder,    \* rows by id: [user, parent, name]
  tag,       \* rows: <<user, tag>>
  todo,      \* what the handler has still to do
  op,        \* the handler that started last
  who,       \* whose request that is
  creating,  \* create_folder: requests that found no folder of their name
  requests,
  slips      \* history: what happened that no handler repairs

vars == <<chat, copy, folder, tag, todo, op, who, creating, requests, slips>>

Chats == {c \in Chat : chat[c] \notin {Null, Gone}}
Folders == {f \in Folder : folder[f] \notin {Null, Gone}}
ChatsOf(u) == {c \in Chats : chat[c].user = u}
FoldersOf(u) == {f \in Folders : folder[f].user = u}

Siblings(u, p) == {f \in FoldersOf(u) : folder[f].parent = p}
Named(u, p, n) == {f \in Siblings(u, p) : folder[f].name = n}

(* count_chats_by_tag_name_and_user_id does not count archived chats.      *)
Holders(u, t) == {c \in ChatsOf(u) : ~chat[c].archived /\ t \in chat[c].tags}
HasRow(u, t) == <<u, t>> \in tag

(* f is p or below p.                                                      *)
Below(f, p) ==
  \A S \in SUBSET Folders :
    f \in S /\ (\A g \in S : folder[g].parent \in Folders => folder[g].parent \in S) => p \in S

Slip(cond, name) == slips' = IF cond THEN slips \cup {name} ELSE slips

-----------------------------------------------------------------------------
(* Requests.  One that names a folder the page still shows, though it has  *)
(* been deleted or moved elsewhere, is stale.                              *)

Request(name, u) ==
  /\ todo = <<>> /\ requests < MaxRequests
  /\ requests' = requests + 1
  /\ op' = name /\ who' = u

Shown(u) == {None} \cup FoldersOf(u) \cup {f \in Folder : folder[f] = Gone}
Stale(f) == f # None /\ f \notin Folders

All(kind, S) == {[i \in DOMAIN o |-> <<kind, o[i]>>] : o \in SetToSeqs(S)}

(* The page creates a chat, a user clones one or imports one from a file.  *)
Insert(u, c, f, ts) ==
  /\ chat[c] = Null
  /\ chat' = [chat EXCEPT ![c] =
                [user |-> u, folder |-> f, tags |-> ts, archived |-> FALSE, shared |-> FALSE]]

CreateNewChat(u, c, f) ==
  /\ Request("new", u)
  /\ f \in Shown(u) /\ Insert(u, c, f, {})
  /\ Slip(Stale(f), "stale")
  /\ UNCHANGED <<copy, folder, tag, todo, creating>>

ImportChat(u, c, f, ts) ==
  /\ Request("import", u)
  /\ f \in Shown(u) /\ Insert(u, c, f, ts)
  /\ todo' \in All("insertTag", ts)
  /\ Slip(Stale(f), "stale")
  /\ UNCHANGED <<copy, folder, tag, creating>>

Clone(u, c, row) ==
  /\ Request("clone", u)
  /\ Insert(u, c, row.folder, row.tags)
  /\ Slip(row.folder \notin FoldersOf(u) \cup {None} \/ \E t \in row.tags : <<u, t>> \notin tag, "foreign")
  /\ UNCHANGED <<copy, folder, tag, todo, creating>>

CloneChat(c, new) == c \in Chats /\ Clone(chat[c].user, new, chat[c])

(* Any user who has the link clones the copy of a chat.                    *)
CloneSharedChat(u, c, new) ==
  /\ c \in Chats /\ chat[c].shared /\ copy[c] # Null
  /\ Clone(u, new, copy[c])

MoveChat(c, f) ==
  /\ c \in Chats /\ Request("move", chat[c].user)
  /\ f \in Shown(chat[c].user) \ {chat[c].folder}
  /\ chat' = [chat EXCEPT ![c].folder = f]
  /\ Slip(Stale(f), "stale")
  /\ UNCHANGED <<copy, folder, tag, todo, creating>>

-----------------------------------------------------------------------------
(* Folders *)

(* Another folder is on its way, found none of its name and will not look  *)
(* again.                                                                  *)
Race(others) == Slip(others # {}, "raced")

AskFolder(u, f, n) ==  \* create_folder, in a thread
  /\ requests < MaxRequests /\ requests' = requests + 1
  /\ folder[f] = Null /\ \A k \in creating : k.id # f
  /\ Named(u, None, n) = {}
  /\ creating' = creating \cup {[id |-> f, user |-> u, name |-> n]}
  /\ UNCHANGED <<chat, copy, folder, tag, todo, op, who, slips>>

CreateFolder(k) ==
  /\ k \in creating /\ creating' = creating \ {k}
  /\ folder' = [folder EXCEPT ![k.id] = [user |-> k.user, parent |-> None, name |-> k.name]]
  /\ Race(creating')
  /\ UNCHANGED <<chat, copy, tag, todo, op, who, requests>>

RenameFolder(f, n) ==
  /\ f \in Folders /\ Request("rename", folder[f].user)
  /\ Named(folder[f].user, folder[f].parent, n) \subseteq {f}
  /\ folder' = [folder EXCEPT ![f].name = n]
  /\ Race(creating)
  /\ UNCHANGED <<chat, copy, tag, todo, creating>>

(* Mutant: only the folders at the root are looked at, as create_folder does. *)
MoveFolderLooksAtRoot(f, p) ==
  /\ f \in Folders /\ Request("moveFolder", folder[f].user)
  /\ p \in Shown(folder[f].user) \ {f}
  /\ Named(folder[f].user, None, folder[f].name) \subseteq {f}
  /\ folder' = [folder EXCEPT ![f].parent = p]
  /\ slips' = slips \cup (IF creating # {} THEN {"raced"} ELSE {})
                    \cup (IF p # None /\ (Stale(p) \/ Below(p, f)) THEN {"stale"} ELSE {})
  /\ UNCHANGED <<chat, copy, tag, todo, creating>>

(* A page whose tree is old offers folders below f, or deleted ones.       *)
MoveFolder(f, p) ==
  /\ f \in Folders /\ Request("moveFolder", folder[f].user)
  /\ p \in Shown(folder[f].user) \ {f}
  /\ Named(folder[f].user, p, folder[f].name) = {}
  /\ folder' = [folder EXCEPT ![f].parent = p]
  /\ slips' = slips \cup (IF creating # {} THEN {"raced"} ELSE {})
                    \cup (IF p # None /\ (Stale(p) \/ Below(p, f)) THEN {"stale"} ELSE {})
  /\ UNCHANGED <<chat, copy, tag, todo, creating>>

(* Its children, and theirs, are deleted first, then the folder, and then  *)
(* the chats that were in them.                                            *)
DeleteFolder(f) ==
  /\ f \in Folders /\ Request("deleteFolder", folder[f].user)
  /\ todo' = <<<<"children", f, {}>>, <<"empty", f>>>>
  /\ UNCHANGED <<chat, copy, folder, tag, creating, slips>>

-----------------------------------------------------------------------------
(* Tags, archived chats and shared chats *)

AddTag(c, t) ==
  /\ c \in Chats /\ Request("add", chat[c].user)
  /\ t \notin chat[c].tags
  /\ todo' = <<<<"addTag", c, t>>>>
  /\ Slip(chat[c].archived, "hidden")
  /\ UNCHANGED <<chat, copy, folder, tag, creating>>

(* Each tag in turn is deleted if k unarchived chats have it.              *)
Prunes(S, k) == {[i \in DOMAIN o |-> <<"prune", o[i], k>>] : o \in SetToSeqs(S)}

RemoveTag(c, t) ==
  /\ c \in Chats /\ Request("untag", chat[c].user)
  /\ t \in chat[c].tags
  /\ chat' = [chat EXCEPT ![c].tags = @ \ {t}]
  /\ todo' \in Prunes({t}, 0)
  /\ UNCHANGED <<copy, folder, tag, creating, slips>>

DeleteAllTags(c) ==
  /\ c \in Chats /\ Request("untag", chat[c].user)
  /\ chat' = [chat EXCEPT ![c].tags = {}]
  /\ todo' \in Prunes(chat[c].tags, 0)
  /\ UNCHANGED <<copy, folder, tag, creating, slips>>

(* The tags that were generated for an answer replace those of the chat.   *)
UpdateTags(c, ts) ==
  /\ c \in Chats /\ Request("update", chat[c].user)
  /\ chat' = [chat EXCEPT ![c].tags = {}]
  /\ \E old \in Prunes(chat[c].tags, 0), new \in SetToSeqs(ts) :
       todo' = old \o [i \in DOMAIN new |-> <<"addTag", c, new[i]>>]
  /\ Slip(chat[c].archived, "hidden")
  /\ UNCHANGED <<copy, folder, tag, creating>>

(* Mutant: tags that went with the last unarchived chat do not come back.  *)
ArchiveChatOnly(c) ==
  /\ c \in Chats /\ Request("archive", chat[c].user)
  /\ chat' = [chat EXCEPT ![c].archived = ~@]
  /\ todo' \in IF chat'[c].archived THEN Prunes(chat[c].tags, 0) ELSE {<<>>}
  /\ UNCHANGED <<copy, folder, tag, creating, slips>>

ArchiveChat(c) ==
  /\ c \in Chats /\ Request("archive", chat[c].user)
  /\ chat' = [chat EXCEPT ![c].archived = ~@]
  /\ todo' \in IF chat'[c].archived THEN Prunes(chat[c].tags, 0) ELSE All("insertTag", chat[c].tags)
  /\ UNCHANGED <<copy, folder, tag, creating, slips>>

ArchiveAll(u) ==
  /\ Request("archiveAll", u)
  /\ chat' = [c \in Chat |-> IF c \in ChatsOf(u) THEN [chat[c] EXCEPT !.archived = TRUE] ELSE chat[c]]
  /\ Slip(\E c \in ChatsOf(u) : chat[c].tags # {}, "bulk")
  /\ UNCHANGED <<copy, folder, tag, todo, creating>>

(* Mutant: the copy stays.                                                 *)
DeleteChatOnly(c) ==
  /\ c \in Chats /\ Request("delete", chat[c].user)
  /\ \E p \in Prunes(chat[c].tags, 1) : todo' = p \o <<<<"delete", c>>>>
  /\ Slip(chat[c].archived /\ \E t \in chat[c].tags : Cardinality(Holders(chat[c].user, t)) = 1, "twin")
  /\ UNCHANGED <<chat, copy, folder, tag, creating>>

(* A tag goes if one unarchived chat has it, which need not be this one.   *)
DeleteChat(c) ==
  /\ c \in Chats /\ Request("delete", chat[c].user)
  /\ \E p \in Prunes(chat[c].tags, 1) : todo' = p \o <<<<"delete", c>>, <<"uncopy", {c}>>>>
  /\ Slip(chat[c].archived /\ \E t \in chat[c].tags : Cardinality(Holders(chat[c].user, t)) = 1, "twin")
  /\ UNCHANGED <<chat, copy, folder, tag, creating>>

DeleteAllChats(u) ==
  /\ Request("deleteAll", u)
  /\ todo' = <<<<"uncopy", ChatsOf(u)>>, <<"deleteAll", u>>>>
  /\ Slip(\E c \in ChatsOf(u) : chat[c].tags # {}, "bulk")
  /\ UNCHANGED <<chat, copy, folder, tag, creating>>

CopyOf(c) == [folder |-> chat[c].folder, tags |-> chat[c].tags]

ShareChat(c) ==
  /\ c \in Chats /\ Request("share", chat[c].user)
  /\ ~chat[c].shared
  /\ copy' = [copy EXCEPT ![c] = CopyOf(c)]
  /\ todo' = <<<<"link", c, TRUE>>>>
  /\ UNCHANGED <<chat, folder, tag, creating, slips>>

ShareAgain(c) ==
  /\ c \in Chats /\ Request("share", chat[c].user)
  /\ chat[c].shared /\ copy[c] # Null
  /\ copy' = [copy EXCEPT ![c] = CopyOf(c)]
  /\ UNCHANGED <<chat, folder, tag, todo, creating, slips>>

UnshareChat(c) ==
  /\ c \in Chats /\ Request("unshare", chat[c].user)
  /\ chat[c].shared
  /\ todo' = <<<<"uncopy", {c}>>, <<"link", c, FALSE>>>>
  /\ UNCHANGED <<chat, copy, folder, tag, creating, slips>>

-----------------------------------------------------------------------------
(* The rest of a handler *)

Pending(kind) == todo # <<>> /\ Head(todo)[1] = kind
Arg == Head(todo)[2]
Arg2 == Head(todo)[3]
Done == todo' = Tail(todo)

(* add_chat_tag_by_id_and_user_id_and_tag_name: first the row.             *)
EnsureTag ==
  /\ Pending("addTag")
  /\ tag' = tag \cup {<<who, Arg2>>}
  /\ todo' = <<<<"tag", Arg, Arg2>>>> \o Tail(todo)
  /\ UNCHANGED <<chat, copy, folder, op, who, creating, requests, slips>>

InsertTag ==
  /\ Pending("insertTag") /\ Done
  /\ tag' = tag \cup {<<who, Arg>>}
  /\ UNCHANGED <<chat, copy, folder, op, who, creating, requests, slips>>

AddChatTag ==
  /\ Pending("tag") /\ Done
  /\ chat' = [chat EXCEPT ![Arg].tags = @ \cup {Arg2}]
  /\ UNCHANGED <<copy, folder, tag, op, who, creating, requests, slips>>

(* Mutant: archived chats are counted too.                                 *)
PruneCountsAll ==
  /\ Pending("prune") /\ Done
  /\ tag' = IF Cardinality({c \in ChatsOf(who) : Arg \in chat[c].tags}) = Arg2 THEN tag \ {<<who, Arg>>} ELSE tag
  /\ UNCHANGED <<chat, copy, folder, op, who, creating, requests, slips>>

Prune ==
  /\ Pending("prune") /\ Done
  /\ tag' = IF Cardinality(Holders(who, Arg)) = Arg2 THEN tag \ {<<who, Arg>>} ELSE tag
  /\ UNCHANGED <<chat, copy, folder, op, who, creating, requests, slips>>

DeleteRow ==
  /\ Pending("delete") /\ Done
  /\ chat' = [chat EXCEPT ![Arg] = Gone]
  /\ UNCHANGED <<copy, folder, tag, op, who, creating, requests, slips>>

DeleteRows ==
  /\ Pending("deleteAll") /\ Done
  /\ chat' = [c \in Chat |-> IF c \in ChatsOf(Arg) THEN Gone ELSE chat[c]]
  /\ UNCHANGED <<copy, folder, tag, op, who, creating, requests, slips>>

DeleteCopies ==
  /\ Pending("uncopy") /\ Done
  /\ copy' = [c \in Chat |-> IF c \in Arg THEN Null ELSE copy[c]]
  /\ UNCHANGED <<chat, folder, tag, op, who, creating, requests, slips>>

SetShareId ==
  /\ Pending("link") /\ Done
  /\ chat' = [chat EXCEPT ![Arg].shared = Arg2]
  /\ UNCHANGED <<copy, folder, tag, op, who, creating, requests, slips>>

(* delete_children, after which the folder goes.  A folder below itself    *)
(* ends in a RecursionError, which delete_folder_by_id_and_user_id catches *)
(* to return no folder.                                                    *)
GetChildren ==
  /\ Pending("children")
  /\ IF Arg \in Arg2
     THEN todo' = <<>>
     ELSE \E o \in SetToSeqs(Siblings(who, Arg)) :
            todo' = [i \in DOMAIN o |-> <<"children", o[i], Arg2 \cup {Arg}>>]
                      \o <<<<"remove", Arg>>>> \o Tail(todo)
  /\ UNCHANGED <<chat, copy, folder, tag, op, who, creating, requests, slips>>

(* Mutant: the chats of the folders below are forgotten.                   *)
RemoveFolderOnly ==
  /\ Pending("remove") /\ Done
  /\ folder' = [folder EXCEPT ![Arg] = Gone]
  /\ UNCHANGED <<chat, copy, tag, op, who, creating, requests, slips>>

RemoveFolder ==
  /\ Pending("remove")
  /\ folder' = [folder EXCEPT ![Arg] = Gone]
  /\ LET empties == <<"empty", Arg>>
     IN  todo' = Tail(todo) \o IF empties \in ToSet(todo) THEN <<>> ELSE <<empties>>
  /\ UNCHANGED <<chat, copy, tag, op, who, creating, requests, slips>>

EmptyFolder ==  \* delete_chats_by_user_id_and_folder_id
  LET S == {c \in ChatsOf(who) : chat[c].folder = Arg} IN
    /\ Pending("empty") /\ Done
    /\ chat' = [c \in Chat |-> IF c \in S THEN Gone ELSE chat[c]]
    /\ slips' = slips \cup (IF \E c \in S : chat[c].tags # {} THEN {"bulk"} ELSE {})
                      \cup (IF \E c \in S : chat[c].shared THEN {"left"} ELSE {})
    /\ UNCHANGED <<copy, folder, tag, op, who, creating, requests>>

(* The process is killed and starts again.                                 *)
Crash ==
  /\ todo # <<>> \/ creating # {}
  /\ todo' = <<>> /\ creating' = {}
  /\ Slip(todo # <<>>, op)
  /\ UNCHANGED <<chat, copy, folder, tag, op, who, requests>>

-----------------------------------------------------------------------------
Init ==
  /\ chat = [c \in Chat |-> Null] /\ copy = [c \in Chat |-> Null]
  /\ folder = [f \in Folder |-> Null] /\ tag = {}
  /\ todo = <<>> /\ op = "none" /\ who \in User
  /\ creating = {}
  /\ requests = 0 /\ slips = {}

ChatRequest(c) ==
  \/ DeleteAllTags(c) \/ ArchiveChat(c) \/ DeleteChat(c)
  \/ ShareChat(c) \/ ShareAgain(c) \/ UnshareChat(c)
  \/ \E f \in Folder \cup {None} : MoveChat(c, f)
  \/ \E t \in Tag : AddTag(c, t) \/ RemoveTag(c, t)
  \/ \E ts \in SUBSET Tag : UpdateTags(c, ts)
  \/ \E new \in Chat : CloneChat(c, new) \/ \E u \in User : CloneSharedChat(u, c, new)

UserRequest(u) ==
  \/ ArchiveAll(u) \/ DeleteAllChats(u)
  \/ \E f \in Folder, n \in Name : AskFolder(u, f, n)
  \/ \E c \in Chat, f \in Folder \cup {None} :
       CreateNewChat(u, c, f) \/ \E ts \in SUBSET Tag : ImportChat(u, c, f, ts)

FolderRequest(f) ==
  \/ \E n \in Name : RenameFolder(f, n)
  \/ \E p \in Folder \cup {None} : MoveFolder(f, p)
  \/ DeleteFolder(f)

Rest ==
  \/ \E k \in creating : CreateFolder(k)
  \/ EnsureTag \/ InsertTag \/ AddChatTag \/ Prune \/ DeleteRow \/ DeleteRows \/ DeleteCopies \/ SetShareId
  \/ GetChildren \/ RemoveFolder \/ EmptyFolder

Next ==
  \/ \E c \in Chat : ChatRequest(c)
  \/ \E u \in User : UserRequest(u)
  \/ \E f \in Folder : FolderRequest(f)
  \/ Rest \/ Crash

Spec == Init /\ [][Next]_vars

-----------------------------------------------------------------------------
(* Properties *)

TypeOK ==
  /\ chat \in [Chat -> ChatRow \cup {Null, Gone}]
  /\ copy \in [Chat -> CopyRow \cup {Null}]
  /\ folder \in [Folder -> FolderRow \cup {Null, Gone}]
  /\ tag \subseteq User \X Tag
  /\ who \in User /\ requests \in 0..MaxRequests
  /\ \A k \in creating : k.id \in Folder /\ k.user \in User /\ k.name \in Name

(* One of these has happened, or a handler that may do it is at work.      *)
Excused(S) == slips \cap S # {} \/ (todo # <<>> /\ op \in S)

Reachable(u, f) == f \in FoldersOf(u) /\ \E g \in Siblings(u, None) : Below(f, g)

(* The sidebar shows every folder, and every chat that is not archived, in *)
(* a folder of its user; whatever is deleted with a folder.  Not, once a   *)
(* page has used a folder it should not have offered, a clone has brought  *)
(* in the folder of another user, or a crash has cut a deletion short,     *)
(* which leaves chats but never folders.                                   *)
ChatsListed ==
  /\ "stale" \notin slips => \A f \in Folders : Reachable(folder[f].user, f)
  /\ ~Excused({"stale", "foreign", "deleteFolder"}) =>
       \A c \in Chats : chat[c].folder = None \/ Reachable(chat[c].user, chat[c].folder)

(* "Folder already exists": two folders in the same place have different   *)
(* names, unless one was put there while create_folder was between its     *)
(* query and its insertion.                                                *)
SiblingsDiffer ==
  "raced" \notin slips =>
    \A f, g \in Folders :
      folder[f].user = folder[g].user /\ folder[f].parent = folder[g].parent /\ f # g
        => folder[f].name # folder[g].name

(* The tags of a chat that is not archived have rows, so that they can be  *)
(* listed and searched: the handlers insert the row first and delete it    *)
(* last, but for those that delete a chat, import or unarchive one.        *)
TagsKnown ==
  ~Excused({"twin", "foreign", "delete", "import", "archive"}) =>
    \A c \in Chats : \A t \in chat[c].tags : chat[c].archived \/ HasRow(chat[c].user, t)

(* "Unused tags on the sidebar will now be deleted automatically": those   *)
(* with rows are in use, unless chats were deleted or archived in bulk, an *)
(* archived chat was given tags, or a handler was cut short.               *)
TagsUsed ==
  ~Excused({"bulk", "hidden", "add", "untag", "update", "archive"}) =>
    \A row \in tag : Holders(row[1], row[2]) # {}

(* A chat is shared exactly if there is a copy of it: not after a crash in *)
(* between, nor after its folder was deleted, which leaves the copy.       *)
CopiesMatch ==
  ~Excused({"share", "unshare", "delete", "deleteAll", "left"}) =>
    \A c \in Chat : copy[c] # Null <=> c \in Chats /\ chat[c].shared
=============================================================================
