----------------------------- MODULE MCLibrary -----------------------------
(* Small instances of Library.  A behaviour is about folders, about tags   *)
(* or about sharing: cast names the requests of its users.                 *)
EXTENDS Library

CONSTANTS a, b, c1, c2, f1, f2, f3, t1, t2, u1, u2

VARIABLE cast

FolderCast == [requests |-> {"new", "move", "rename", "moveFolder", "deleteFolder", "create"},
               users |-> {u1}, tags |-> {}, chats |-> {c1, c2}]
TagCast == [requests |-> {"new", "import", "clone", "add", "untag", "update", "archive", "archiveAll", "delete", "deleteAll"},
            users |-> {u1}, tags |-> {t1, t2}, chats |-> {c1, c2}]
ShareCast == [requests |-> {"import", "clone", "share", "unshare", "delete", "deleteAll", "deleteFolder", "create"},
              users |-> {u1, u2}, tags |-> {t1}, chats |-> {c1, c2}]

CastInit == Init /\ cast \in {FolderCast, TagCast, ShareCast}
(* Ids are taken in their order.                                           *)
CastNext ==
  /\ Next /\ UNCHANGED cast
  /\ requests' # requests /\ creating' = creating => op' \in cast.requests /\ who' \in cast.users
  /\ creating' # {} => "create" \in cast.requests
  /\ \A k \in creating' : k.user \in cast.users
  /\ \A c \in Chat : chat'[c] \notin {Null, Gone} => c \in cast.chats /\ chat'[c].tags \subseteq cast.tags
  /\ chat'[c2] # Null => chat'[c1] # Null
  /\ folder'[f2] # Null => folder'[f1] # Null
  /\ folder'[f3] # Null => folder'[f2] # Null
CastSpec == CastInit /\ [][CastNext]_<<vars, cast>>
=============================================================================
