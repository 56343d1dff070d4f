--------------------------- MODULE LibraryProofs ---------------------------
(***************************************************************************)
(* What Library promises, for every number of users, chats, folders, tags  *)
(* and requests: rows of the right kinds; folders in one place with        *)
(* different names; copies exactly of the chats that are shared; rows      *)
(* exactly for the tags in use; and every folder and chat to be found in   *)
(* the sidebar.  The last four follow from Work, which says what each      *)
(* handler has still to do, and from what it relies on until then.         *)
(***************************************************************************)
EXTENDS Library, FiniteSetTheorems, TLAPS

-----------------------------------------------------------------------------
(* Why the promises about tags and copies are kept: what each handler has  *)
(* still to do, and what it relies on until then.                          *)
InUse == {t \in Tag : Holders(who, t) # {}}
Tagged == {c \in ChatsOf(who) : "hidden" \in slips \/ ~chat[c].archived}
TagSteps == ({"prune"} \X Tag \X {0}) \cup ({"addTag"} \X Tagged \X Tag)

Inserting == op \in {"import", "archive"} /\ todo \in Seq({"insertTag"} \X InUse)
Pruning == op \in {"archive", "untag"} /\ todo \in Seq({"prune"} \X Tag \X {0})
Adding == op \in {"add", "update"} /\ todo \in Seq(TagSteps)
Linking ==
  /\ op \in {"add", "update"} /\ todo \in Seq(TagSteps \cup ({"tag"} \X Tagged \X Tag))
  /\ Tail(todo) \in Seq(TagSteps)
  /\ \E c \in Tagged, t \in Tag : Head(todo) = <<"tag", c, t>> /\ <<who, t>> \in tag

(* The tags that other chats have as well keep their rows.                 *)
DeletionSteps == ({"prune"} \X Tag \X {1}) \cup ({"delete"} \X Chat) \cup ({"uncopy"} \X SUBSET Chat)
DeletionWork(c) ==
  LET n == Len(todo) - 2 IN
    /\ op = "delete" /\ todo \in Seq(DeletionSteps) /\ todo # <<>>
    /\ todo[Len(todo)] = <<"uncopy", {c}>>
    /\ \/ n = -1 /\ c \notin Chats
       \/ /\ n >= 0 /\ c \in ChatsOf(who) /\ todo[n + 1] = <<"delete", c>>
          /\ \A i \in 1..n : todo[i] \in {"prune"} \X chat[c].tags \X {1}
          /\ chat[c].archived /\ "twin" \notin slips =>
               \A t \in chat[c].tags : Cardinality(Holders(who, t)) # 1
          /\ \A t \in chat[c].tags : <<who, t>> \in tag /\ ~chat[c].archived =>
               (\E i \in 1..n : todo[i] = <<"prune", t, 1>>) \/ Holders(who, t) # {c}

Sharing == op = "share" /\ \E c \in Chats : todo = <<<<"link", c, TRUE>>>> /\ copy[c] # Null
Unsharing ==
  /\ op = "unshare"
  /\ \E c \in Chats :
       \/ todo = <<<<"uncopy", {c}>>, <<"link", c, FALSE>>>>
       \/ todo = <<<<"link", c, FALSE>>>> /\ copy[c] = Null
DeletingAll ==
  /\ op = "deleteAll"
  /\ \/ todo = <<<<"uncopy", ChatsOf(who)>>, <<"deleteAll", who>>>>
     \/ todo = <<<<"deleteAll", who>>>> /\ \A c \in ChatsOf(who) : copy[c] = Null
  /\ "bulk" \notin slips => \A c \in ChatsOf(who) : chat[c].tags = {}

FolderSteps == ({"children"} \X Folder \X SUBSET Folder) \cup ({"remove", "empty"} \X Folder)
Emptying == op = "deleteFolder" /\ todo \in Seq(FolderSteps)

Work ==
  \/ todo = <<>> \/ Inserting \/ Pruning \/ Adding \/ Linking
  \/ \E c \in Chat : DeletionWork(c)
  \/ Sharing \/ Unsharing \/ DeletingAll \/ Emptying

Deleting(c) == todo # <<>> /\ op = "delete" /\ todo[Len(todo)] = <<"uncopy", {c}>>
Awaits(u, step) == u = who /\ step \in ToSet(todo)

KnownInv ==
  slips \cap {"twin", "foreign", "delete", "import", "archive"} = {} =>
    \A c \in Chats : \A t \in chat[c].tags :
      \/ chat[c].archived \/ <<chat[c].user, t>> \in tag
      \/ Awaits(chat[c].user, <<"insertTag", t>>) \/ Deleting(c)

UsedInv ==
  slips \cap {"bulk", "hidden", "add", "untag", "update", "archive"} = {} =>
    \A row \in tag :
      \/ Holders(row[1], row[2]) # {}
      \/ Awaits(row[1], <<"prune", row[2], 0>>) \/ \E c \in Chat : Awaits(row[1], <<"tag", c, row[2]>>)

(* Why every folder and chat can be found: a folder goes after those in it. *)
Parents == \A f \in Folders : folder[f].parent \in FoldersOf(folder[f].user) \cup {None}
NewIds == \A k, l \in creating : folder[k.id] = Null /\ (k.id = l.id => k = l)
Tree == NewIds /\ Parents /\ \A f \in Folders : Reachable(folder[f].user, f)
TreeInv == "stale" \notin slips => Tree

Handles(i, f) == todo[i][1] \in {"children", "remove"} /\ todo[i][2] = f
ItsOwn == \A i \in DOMAIN todo, f \in Folder : Handles(i, f) => folder[f] # Null /\ (f \in Folders => folder[f].user = who)
ChildrenFirst ==
  \A i \in DOMAIN todo : todo[i][1] = "remove" =>
    \A f \in Folders : folder[f].parent = todo[i][2] => \E j \in 1..(i - 1) : Handles(j, f)
Descends ==
  \E depth \in [Folder -> 0..Cardinality(Folder)] :
    /\ \A f \in Folders : folder[f].parent # None => depth[folder[f].parent] < depth[f]
    /\ \A i \in DOMAIN todo : todo[i][1] = "children" => \A g \in todo[i][3] : depth[g] < depth[todo[i][2]]
DeletionInv == "stale" \notin slips /\ todo # <<>> /\ Emptying => ItsOwn /\ ChildrenFirst /\ Descends

PlaceInv ==
  slips \cap {"stale", "foreign", "deleteFolder"} = {} =>
    \A c \in Chats :
      \/ chat[c].folder \in FoldersOf(chat[c].user) \cup {None}
      \/ Awaits(chat[c].user, <<"empty", chat[c].folder>>)

Matches(c) == copy[c] # Null <=> c \in Chats /\ chat[c].shared

Copied(c) ==
  \/ Matches(c)
  \/ \E b \in BOOLEAN : op \in {"share", "unshare"} /\ todo = <<<<"link", c, b>>>>
  \/ Deleting(c) /\ c \notin Chats
  \/ op = "deleteAll" /\ todo = <<<<"deleteAll", who>>>> /\ c \in ChatsOf(who)

CopyInv ==
  slips \cap {"share", "unshare", "delete", "deleteAll", "left"} = {} => \A c \in Chat : Copied(c)

Insertion == [id : Folder, user : User, name : Name]

FoldersTyped ==
  /\ folder \in [Folder -> FolderRow \cup {Null, Gone}]
  /\ creating \subseteq Insertion

(* What create_folder found still holds, as long as nothing was put beside *)
(* what it is going to insert.                                             *)
Found == \A k \in creating : Named(k.user, None, k.name) = {}

NamesInv == FoldersTyped /\ SiblingsDiffer /\ ("raced" \notin slips => Found)

LEMMA NamesInit == Init => NamesInv
  BY DEF Init, NamesInv, FoldersTyped, SiblingsDiffer, Found, Folders, Insertion

LEMMA Unmoved ==
  ASSUME NamesInv, UNCHANGED folder, creating' \subseteq creating, slips \subseteq slips'
  PROVE  NamesInv'
  BY DEF NamesInv, FoldersTyped, SiblingsDiffer, Found, Folders, Named, Siblings, FoldersOf

LEMMA NamesStep ==
  ASSUME NamesInv, [Next]_vars
  PROVE  NamesInv'
<1>1. CASE UNCHANGED vars
  BY <1>1, Unmoved DEF vars
<1>2. ASSUME NEW c \in Chat, ChatRequest(c)
      PROVE  NamesInv'
  <2>1. UNCHANGED <<folder, creating>> /\ slips \subseteq slips'
    <3>1. CASE DeleteAllTags(c) \/ ArchiveChat(c) \/ DeleteChat(c)
      BY <3>1 DEF DeleteAllTags, ArchiveChat, DeleteChat, Slip
    <3>2. CASE ShareChat(c) \/ ShareAgain(c) \/ UnshareChat(c)
      BY <3>2 DEF ShareChat, ShareAgain, UnshareChat
    <3>3. ASSUME NEW f \in Folder \cup {None}, MoveChat(c, f)
          PROVE  UNCHANGED <<folder, creating>> /\ slips \subseteq slips'
      BY <3>3 DEF MoveChat, Slip
    <3>4. ASSUME NEW t \in Tag, AddTag(c, t) \/ RemoveTag(c, t)
          PROVE  UNCHANGED <<folder, creating>> /\ slips \subseteq slips'
      BY <3>4 DEF AddTag, RemoveTag, Slip
    <3>5. ASSUME NEW ts \in SUBSET Tag, UpdateTags(c, ts)
          PROVE  UNCHANGED <<folder, creating>> /\ slips \subseteq slips'
      BY <3>5 DEF UpdateTags, Slip
    <3>6. ASSUME NEW new \in Chat, CloneChat(c, new) \/ \E u \in User : CloneSharedChat(u, c, new)
          PROVE  UNCHANGED <<folder, creating>> /\ slips \subseteq slips'
      BY <3>6 DEF CloneChat, CloneSharedChat, Clone, Slip
    <3> QED
      BY <1>2, <3>1, <3>2, <3>3, <3>4, <3>5, <3>6 DEF ChatRequest
  <2> QED
    BY <2>1, Unmoved
<1>3. ASSUME NEW u \in User, UserRequest(u)
      PROVE  NamesInv'
  <2>1. CASE ArchiveAll(u) \/ DeleteAllChats(u)
    BY <2>1, Unmoved DEF ArchiveAll, DeleteAllChats, Slip
  <2>2. ASSUME NEW c \in Chat, NEW f \in Folder \cup {None}, CreateNewChat(u, c, f)
        PROVE  NamesInv'
    BY <2>2, Unmoved DEF CreateNewChat, Slip
  <2>3. ASSUME NEW c \in Chat, NEW f \in Folder \cup {None}, NEW ts \in SUBSET Tag, ImportChat(u, c, f, ts)
        PROVE  NamesInv'
    BY <2>3, Unmoved DEF ImportChat, Slip
  <2>4. ASSUME NEW f \in Folder, NEW n \in Name, AskFolder(u, f, n)
        PROVE  NamesInv'
    <3>1. /\ creating' = creating \cup {[id |-> f, user |-> u, name |-> n]}
          /\ Named(u, None, n) = {} /\ UNCHANGED <<folder, slips>>
      BY <2>4 DEF AskFolder
    <3>2. FoldersTyped'
      BY <3>1 DEF NamesInv, FoldersTyped, Insertion
    <3>3. SiblingsDiffer'
      BY <3>1 DEF NamesInv, SiblingsDiffer, Folders
    <3>4. ("raced" \notin slips => Found)'
      BY <3>1 DEF NamesInv, Found, Named, Siblings, FoldersOf, Folders
    <3> QED
      BY <3>2, <3>3, <3>4 DEF NamesInv
  <2> QED
    BY <1>3, <2>1, <2>2, <2>3, <2>4 DEF UserRequest
<1>4. ASSUME NEW f \in Folder, FolderRequest(f)
      PROVE  NamesInv'
  <2>1. ASSUME NEW n \in Name, RenameFolder(f, n)
        PROVE  NamesInv'
    <3>1. /\ f \in Folders /\ folder' = [folder EXCEPT ![f].name = n]
          /\ Named(folder[f].user, folder[f].parent, n) \subseteq {f}
          /\ creating' = creating
          /\ slips' = IF creating # {} THEN slips \cup {"raced"} ELSE slips
      BY <2>1 DEF RenameFolder, Race, Slip
    <3>2. folder[f] \in FolderRow
      BY <3>1 DEF NamesInv, FoldersTyped, Folders
    <3>3. \A g \in Folder : folder'[g] = IF g = f THEN [folder[f] EXCEPT !.name = n] ELSE folder[g]
      BY <3>1 DEF NamesInv, FoldersTyped
    <3>4. FoldersTyped'
      <4>1. [folder[f] EXCEPT !.name = n] \in FolderRow
        BY <3>2 DEF FolderRow
      <4> QED
        BY <4>1, <3>1 DEF NamesInv, FoldersTyped
    <3>5. /\ folder'[f].name = n /\ folder'[f].user = folder[f].user /\ folder'[f].parent = folder[f].parent
      BY <3>2, <3>3 DEF FolderRow
    <3>6. Folders' \subseteq Folders
      BY <3>1, <3>3 DEF Folders
    <3>7. SiblingsDiffer'
      BY <3>1, <3>3, <3>5, <3>6 DEF NamesInv, SiblingsDiffer, Folders, Named, Siblings, FoldersOf
    <3>8. ("raced" \notin slips => Found)'
      BY <3>1 DEF Found
    <3> QED
      BY <3>4, <3>7, <3>8 DEF NamesInv
  <2>2. ASSUME NEW p \in Folder \cup {None}, MoveFolder(f, p)
        PROVE  NamesInv'
    <3>1. /\ f \in Folders /\ folder' = [folder EXCEPT ![f].parent = p]
          /\ Named(folder[f].user, p, folder[f].name) = {}
          /\ creating' = creating
          /\ slips \subseteq slips' /\ (creating # {} => "raced" \in slips')
      BY <2>2 DEF MoveFolder
    <3>2. folder[f] \in FolderRow
      BY <3>1 DEF NamesInv, FoldersTyped, Folders
    <3>3. \A g \in Folder : folder'[g] = IF g = f THEN [folder[f] EXCEPT !.parent = p] ELSE folder[g]
      BY <3>1 DEF NamesInv, FoldersTyped
    <3>4. FoldersTyped'
      <4>1. [folder[f] EXCEPT !.parent = p] \in FolderRow
        BY <3>2 DEF FolderRow
      <4> QED
        BY <4>1, <3>1 DEF NamesInv, FoldersTyped
    <3>5. folder'[f].parent = p /\ folder'[f].user = folder[f].user /\ folder'[f].name = folder[f].name
      BY <3>2, <3>3 DEF FolderRow
    <3>6. Folders' \subseteq Folders
      BY <3>1, <3>3 DEF Folders
    <3>7. SiblingsDiffer'
      BY <3>1, <3>3, <3>5, <3>6 DEF NamesInv, SiblingsDiffer, Folders, Named, Siblings, FoldersOf
    <3>8. ("raced" \notin slips => Found)'
      BY <3>1 DEF Found
    <3> QED
      BY <3>4, <3>7, <3>8 DEF NamesInv
  <2>3. CASE DeleteFolder(f)
    BY <2>3, Unmoved DEF DeleteFolder
  <2> QED
    BY <1>4, <2>1, <2>2, <2>3 DEF FolderRequest
<1>5. ASSUME NEW k \in creating, CreateFolder(k)
      PROVE  NamesInv'
  <2> DEFINE row == [user |-> k.user, parent |-> None, name |-> k.name]
  <2>1. /\ creating' = creating \ {k} /\ folder' = [folder EXCEPT ![k.id] = row]
        /\ slips' = IF creating' # {} THEN slips \cup {"raced"} ELSE slips
    BY <1>5 DEF CreateFolder, Race, Slip
  <2>2. k \in Insertion /\ k.id \in Folder /\ row \in FolderRow
    BY DEF NamesInv, FoldersTyped, Insertion, FolderRow
  <2>3. FoldersTyped'
    BY <2>1, <2>2 DEF NamesInv, FoldersTyped
  <2>4. \A g \in Folder : folder'[g] = IF g = k.id THEN row ELSE folder[g]
    BY <2>1 DEF NamesInv, FoldersTyped
  <2>5. Folders' \subseteq Folders \cup {k.id}
    BY <2>4 DEF Folders
  <2>6. SiblingsDiffer'
    BY <2>1, <2>2, <2>4, <2>5 DEF NamesInv, SiblingsDiffer, Found, Folders, Named, Siblings, FoldersOf
  <2>7. ("raced" \notin slips => Found)'
    BY <2>1 DEF Found
  <2> QED
    BY <2>3, <2>6, <2>7 DEF NamesInv
<1>6. CASE RemoveFolder
  <2>1. folder' = [folder EXCEPT ![Arg] = Gone] /\ UNCHANGED <<creating, slips>>
    BY <1>6 DEF RemoveFolder
  <2>2. FoldersTyped'
    BY <2>1 DEF NamesInv, FoldersTyped
  <2>3. \A g \in Folder : folder'[g] = IF g = Arg THEN Gone ELSE folder[g]
    BY <2>1 DEF NamesInv, FoldersTyped
  <2>4. Folders' = Folders \ {Arg} /\ \A g \in Folders' : folder'[g] = folder[g]
    BY <2>3 DEF Folders
  <2>5. SiblingsDiffer'
    BY <2>1, <2>4 DEF NamesInv, SiblingsDiffer
  <2>6. ("raced" \notin slips => Found)'
    BY <2>1, <2>4 DEF NamesInv, Found, Named, Siblings, FoldersOf
  <2> QED
    BY <2>2, <2>5, <2>6 DEF NamesInv
<1>7. CASE EnsureTag \/ InsertTag \/ AddChatTag \/ Prune \/ DeleteRow \/ DeleteRows \/ DeleteCopies \/ SetShareId
  BY <1>7, Unmoved DEF EnsureTag, InsertTag, AddChatTag, Prune, DeleteRow, DeleteRows, DeleteCopies, SetShareId
<1>8. CASE GetChildren \/ EmptyFolder
  BY <1>8, Unmoved DEF GetChildren, EmptyFolder
<1>9. CASE Crash
  BY <1>9, Unmoved DEF Crash, Slip
<1> QED
  BY <1>1, <1>2, <1>3, <1>4, <1>5, <1>6, <1>7, <1>8, <1>9 DEF Next, Rest

(* SiblingsDiffer: no request and no crash gives two folders of one user   *)
(* in one place the same name, unless one was put there while              *)
(* create_folder was between its query and its insertion.                  *)
THEOREM SiblingNames == Spec => []SiblingsDiffer
<1>1. NamesInv => SiblingsDiffer
  BY DEF NamesInv
<1> QED
  BY <1>1, NamesInit, NamesStep, PTL DEF Spec

-----------------------------------------------------------------------------
(* What is left of a handler, as a sequence.                               *)
LEMMA TailFacts ==
  ASSUME NEW S, NEW q \in Seq(S), q # <<>>
  PROVE  /\ Head(q) \in S /\ Head(q) = q[1] /\ Len(q) \in Nat /\ Len(q) >= 1
         /\ Tail(q) \in Seq(S) /\ Len(Tail(q)) = Len(q) - 1
         /\ \A i \in 1..Len(q) - 1 : Tail(q)[i] = q[i + 1]
  OBVIOUS

LEMMA OneLeft ==
  ASSUME NEW q, NEW x, q = <<x>>
  PROVE  q # <<>> /\ Head(q) = x /\ Tail(q) = <<>>
  OBVIOUS

LEMMA TwoLeft ==
  ASSUME NEW q, NEW x, NEW y, q = <<x, y>>
  PROVE  q # <<>> /\ Head(q) = x /\ Tail(q) = <<y>>
  OBVIOUS

LEMMA Triple ==
  ASSUME NEW q, NEW x, NEW y, NEW z, q = <<x, y, z>>
  PROVE  q[1] = x /\ q[2] = y /\ q[3] = z
  OBVIOUS

LEMMA NoneLeft ==
  ASSUME NEW S, NEW q \in Seq(S), Len(q) = 0
  PROVE  q = <<>>
  OBVIOUS

LEMMA ToSetTail ==
  ASSUME NEW S, NEW q \in Seq(S), q # <<>>, NEW x
  PROVE  x \in ToSet(q) <=> x = Head(q) \/ x \in ToSet(Tail(q))
<1>1. DOMAIN q = 1..Len(q) /\ DOMAIN Tail(q) = 1..Len(Tail(q))
  BY TailFacts
<1>2. ASSUME NEW i \in 1..Len(q), q[i] = x
      PROVE  x = Head(q) \/ x \in ToSet(Tail(q))
  <2>1. CASE i = 1
    BY <2>1, <1>2, TailFacts
  <2>2. CASE i # 1
    <3>1. i - 1 \in 1..Len(q) - 1 /\ (i - 1) + 1 = i
      BY <2>2, TailFacts
    <3>2. Tail(q)[i - 1] = x
      BY <3>1, <1>2, TailFacts
    <3> QED
      BY <3>1, <3>2, <1>1, TailFacts DEF ToSet
  <2> QED
    BY <2>1, <2>2
<1>3. ASSUME NEW i \in 1..Len(Tail(q)), Tail(q)[i] = x
      PROVE  x \in ToSet(q)
  <2>1. i + 1 \in 1..Len(q) /\ q[i + 1] = x
    BY <1>3, TailFacts
  <2> QED
    BY <2>1, <1>1 DEF ToSet
<1>4. Head(q) \in ToSet(q)
  <2>1. 1 \in 1..Len(q)
    BY TailFacts
  <2> QED
    BY <2>1, <1>1, TailFacts DEF ToSet
<1> QED
  BY <1>1, <1>2, <1>3, <1>4 DEF ToSet

(* The steps that a handler takes for each of some tags, in any order.     *)
LEMMA Orders ==
  ASSUME NEW S, IsFiniteSet(S), NEW o \in SetToSeqs(S)
  PROVE  /\ o \in Seq(S)
         /\ \A x \in S : \E i \in DOMAIN o : o[i] = x
<1> DEFINE D == 1..Cardinality(S)
<1>1. Cardinality(S) \in Nat
  BY FS_CardinalityType
<1>2. o \in [D -> S] /\ \A i, j \in D : i # j => o[i] # o[j]
  BY DEF SetToSeqs
<1>3. o \in Seq(S)
  BY <1>1, <1>2
<1>4. o \in Injection(D, S)
  BY <1>2 DEF Injection, IsInjective
<1>5. IsFiniteSet(D) /\ Cardinality(D) = Cardinality(S)
  BY <1>1, FS_Interval
<1>6. o \in Surjection(D, S)
  BY <1>4, <1>5, FS_Injection
<1> QED
  BY <1>2, <1>3, <1>6 DEF Surjection

LEMMA AllFacts ==
  ASSUME NEW kind, NEW S, IsFiniteSet(S), NEW q \in All(kind, S)
  PROVE  q \in Seq({kind} \X S) /\ \A x \in S : <<kind, x>> \in ToSet(q)
<1>1. PICK o \in SetToSeqs(S) : q = [i \in DOMAIN o |-> <<kind, o[i]>>]
  BY DEF All
<1>2. o \in Seq(S) /\ \A x \in S : \E i \in DOMAIN o : o[i] = x
  BY Orders
<1>3. q \in Seq({kind} \X S)
  BY <1>1, <1>2
<1> QED
  BY <1>1, <1>2, <1>3 DEF ToSet

LEMMA PruneFacts ==
  ASSUME NEW k, NEW S, IsFiniteSet(S), NEW q \in Prunes(S, k)
  PROVE  q \in Seq({"prune"} \X S \X {k}) /\ \A x \in S : <<"prune", x, k>> \in ToSet(q)
<1>1. PICK o \in SetToSeqs(S) : q = [i \in DOMAIN o |-> <<"prune", o[i], k>>]
  BY DEF Prunes
<1>2. o \in Seq(S) /\ \A x \in S : \E i \in DOMAIN o : o[i] = x
  BY Orders
<1>3. q \in Seq({"prune"} \X S \X {k})
  BY <1>1, <1>2
<1> QED
  BY <1>1, <1>2, <1>3 DEF ToSet

LEMMA HeadKinds ==
  ASSUME todo # <<>>
  PROVE  /\ Inserting => Head(todo) \in {"insertTag"} \X InUse
         /\ Pruning => Head(todo) \in {"prune"} \X Tag \X {0}
         /\ Adding => Head(todo) \in TagSteps
         /\ Linking => Head(todo)[1] = "tag"
         /\ Sharing => Head(todo)[1] = "link" /\ Tail(todo) = <<>>
         /\ Unsharing => Head(todo)[1] \in {"uncopy", "link"}
         /\ DeletingAll => Head(todo)[1] \in {"uncopy", "deleteAll"}
         /\ Emptying => Head(todo) \in FolderSteps
<1>1. Inserting => Head(todo) \in {"insertTag"} \X InUse
  BY TailFacts DEF Inserting
<1>2. Pruning => Head(todo) \in {"prune"} \X Tag \X {0}
  BY TailFacts DEF Pruning
<1>3. Adding => Head(todo) \in TagSteps
  BY TailFacts DEF Adding
<1>4. Linking => Head(todo)[1] = "tag"
  BY DEF Linking
<1>5. Sharing => Head(todo)[1] = "link" /\ Tail(todo) = <<>>
  BY DEF Sharing
<1>6. ASSUME Unsharing
      PROVE  Head(todo)[1] \in {"uncopy", "link"}
  <2>1. PICK c \in Chats : \/ todo = <<<<"uncopy", {c}>>, <<"link", c, FALSE>>>>
                          \/ todo = <<<<"link", c, FALSE>>>>
    BY <1>6 DEF Unsharing
  <2>2. CASE todo = <<<<"uncopy", {c}>>, <<"link", c, FALSE>>>>
    BY <2>2
  <2>3. CASE todo = <<<<"link", c, FALSE>>>>
    BY <2>3
  <2> QED
    BY <2>1, <2>2, <2>3
<1>7. DeletingAll => Head(todo)[1] \in {"uncopy", "deleteAll"}
  BY DEF DeletingAll
<1>8. Emptying => Head(todo) \in FolderSteps
  BY TailFacts DEF Emptying
<1> QED
  BY <1>1, <1>2, <1>3, <1>4, <1>5, <1>6, <1>7, <1>8

LEMMA DeletionHead ==
  ASSUME NEW c \in Chat, DeletionWork(c)
  PROVE  /\ Len(todo) \in Nat \ {0} /\ todo \in Seq(DeletionSteps) /\ todo # <<>>
         /\ Len(todo) = 1 => Head(todo) = <<"uncopy", {c}>> /\ Tail(todo) = <<>> /\ c \notin Chats
         /\ Len(todo) = 2 => Head(todo) = <<"delete", c>> /\ c \in ChatsOf(who)
         /\ Len(todo) > 2 => Head(todo) \in {"prune"} \X chat[c].tags \X {1} /\ c \in ChatsOf(who)
<1>1. /\ todo \in Seq(DeletionSteps) /\ todo # <<>>
      /\ Head(todo) = todo[1] /\ Len(todo) \in Nat /\ Len(todo) >= 1
      /\ Len(Tail(todo)) = Len(todo) - 1 /\ Tail(todo) \in Seq(DeletionSteps)
  BY TailFacts DEF DeletionWork
<1>2. CASE Len(todo) = 1
  <2>1. Head(todo) = <<"uncopy", {c}>> /\ c \notin Chats
    BY <1>1, <1>2 DEF DeletionWork
  <2>2. Len(Tail(todo)) = 0
    BY <1>1, <1>2
  <2>3. Tail(todo) = <<>>
    BY <1>1, <2>2, NoneLeft
  <2> QED
    BY <1>1, <1>2, <2>1, <2>3
<1>3. CASE Len(todo) = 2
  <2>1. Head(todo) = <<"delete", c>> /\ c \in ChatsOf(who)
    BY <1>1, <1>3 DEF DeletionWork
  <2> QED
    BY <1>1, <1>3, <2>1
<1>4. CASE Len(todo) > 2
  <2>1. 1 \in 1..Len(todo) - 2
    BY <1>1, <1>4
  <2>2. Head(todo) \in {"prune"} \X chat[c].tags \X {1} /\ c \in ChatsOf(who)
    BY <1>1, <1>4, <2>1 DEF DeletionWork
  <2> QED
    BY <1>1, <1>4, <2>2
<1> QED
  BY <1>1, <1>2, <1>3, <1>4

LEMMA Heads ==
  ASSUME Work
  PROVE  /\ Pending("insertTag") => Inserting /\ Head(todo) \in {"insertTag"} \X InUse
         /\ Pending("tag") => Linking
         /\ Pending("addTag") => Adding /\ Head(todo) \in {"addTag"} \X Tagged \X Tag
         /\ Pending("prune") =>
              \/ (Pruning \/ Adding) /\ Head(todo) \in {"prune"} \X Tag \X {0}
              \/ \E c \in Chat : DeletionWork(c) /\ Len(todo) > 2
         /\ Pending("delete") => \E c \in Chat : DeletionWork(c) /\ Len(todo) = 2
         /\ Pending("uncopy") =>
              (\E c \in Chat : DeletionWork(c) /\ Len(todo) = 1) \/ Unsharing \/ DeletingAll
         /\ Pending("link") => Sharing \/ Unsharing
         /\ Pending("deleteAll") => DeletingAll
         /\ Pending("children") => Emptying /\ Head(todo) \in {"children"} \X Folder \X SUBSET Folder
         /\ Pending("remove") => Emptying /\ Head(todo) \in {"remove"} \X Folder
         /\ Pending("empty") => Emptying /\ Head(todo) \in {"empty"} \X Folder
<1> SUFFICES ASSUME todo # <<>>
    PROVE  /\ Pending("insertTag") => Inserting /\ Head(todo) \in {"insertTag"} \X InUse
           /\ Pending("tag") => Linking
           /\ Pending("addTag") => Adding /\ Head(todo) \in {"addTag"} \X Tagged \X Tag
           /\ Pending("prune") =>
                \/ (Pruning \/ Adding) /\ Head(todo) \in {"prune"} \X Tag \X {0}
                \/ \E c \in Chat : DeletionWork(c) /\ Len(todo) > 2
           /\ Pending("delete") => \E c \in Chat : DeletionWork(c) /\ Len(todo) = 2
           /\ Pending("uncopy") =>
                (\E c \in Chat : DeletionWork(c) /\ Len(todo) = 1) \/ Unsharing \/ DeletingAll
           /\ Pending("link") => Sharing \/ Unsharing
           /\ Pending("deleteAll") => DeletingAll
           /\ Pending("children") => Emptying /\ Head(todo) \in {"children"} \X Folder \X SUBSET Folder
           /\ Pending("remove") => Emptying /\ Head(todo) \in {"remove"} \X Folder
           /\ Pending("empty") => Emptying /\ Head(todo) \in {"empty"} \X Folder
  BY DEF Pending
<1>1. CASE Inserting
  BY <1>1, HeadKinds DEF Pending
<1>2. CASE Pruning
  BY <1>2, HeadKinds DEF Pending
<1>3. CASE Adding
  <2>1. Head(todo) \in ({"prune"} \X Tag \X {0}) \cup ({"addTag"} \X Tagged \X Tag)
    BY <1>3, HeadKinds DEF TagSteps
  <2> QED
    BY <1>3, <2>1 DEF Pending
<1>4. CASE Linking
  BY <1>4, HeadKinds DEF Pending
<1>5. ASSUME NEW c \in Chat, DeletionWork(c)
      PROVE  /\ Pending("prune") => Len(todo) > 2
             /\ Pending("delete") => Len(todo) = 2
             /\ Pending("uncopy") => Len(todo) = 1
             /\ Head(todo)[1] \in {"prune", "delete", "uncopy"}
  <2>0. Len(todo) \in Nat \ {0}
    BY <1>5, DeletionHead
  <2>a. \A n \in Nat \ {0} : n = 1 \/ n = 2 \/ n > 2
    OBVIOUS
  <2>1. Len(todo) = 1 \/ Len(todo) = 2 \/ Len(todo) > 2
    BY <2>0, <2>a, Zenon
  <2> QED
    BY <1>5, <2>1, DeletionHead DEF Pending
<1>6. CASE Sharing
  BY <1>6, HeadKinds DEF Pending
<1>7. CASE Unsharing
  BY <1>7, HeadKinds DEF Pending
<1>8. CASE DeletingAll
  BY <1>8, HeadKinds DEF Pending
<1>9. CASE Emptying
  <2>1. Head(todo) \in ({"children"} \X Folder \X SUBSET Folder) \cup ({"remove", "empty"} \X Folder)
    BY <1>9, HeadKinds DEF FolderSteps
  <2> QED
    BY <1>9, <2>1 DEF Pending
<1> QED
  BY <1>1, <1>2, <1>3, <1>4, <1>5, <1>6, <1>7, <1>8, <1>9 DEF Work, Pending

-----------------------------------------------------------------------------
(* Types.                                                                  *)
LEMMA Rows ==
  ASSUME TypeOK
  PROVE  /\ \A r \in ChatRow : r # Null /\ r # Gone
         /\ \A r \in CopyRow : r # Null
         /\ \A c \in Chats :
              /\ c \in Chat /\ chat[c] \in ChatRow
              /\ chat[c].user \in User /\ chat[c].folder \in Folder \cup {None}
              /\ chat[c].tags \in SUBSET Tag /\ IsFiniteSet(chat[c].tags)
              /\ chat[c].archived \in BOOLEAN /\ chat[c].shared \in BOOLEAN
<1>1. /\ \A r \in ChatRow : r # Null /\ r # Gone
      /\ \A r \in CopyRow : r # Null
  BY LibraryAssumption
<1>2. ASSUME NEW c \in Chats
      PROVE  /\ c \in Chat /\ chat[c] \in ChatRow
             /\ chat[c].user \in User /\ chat[c].folder \in Folder \cup {None}
             /\ chat[c].tags \in SUBSET Tag
             /\ chat[c].archived \in BOOLEAN /\ chat[c].shared \in BOOLEAN
  <2>1. c \in Chat /\ chat[c] \in ChatRow
    BY DEF Chats, TypeOK
  <2> QED
    BY <2>1 DEF ChatRow
<1>3. \A S \in SUBSET Tag : IsFiniteSet(S)
  BY LibraryAssumption, FS_Subset
<1> QED
  BY <1>1, <1>2, <1>3

(* A step that inserts a chat, or changes some.                            *)
LEMMA TypeFrame ==
  ASSUME TypeOK, chat' \in [Chat -> ChatRow \cup {Null, Gone}], copy' \in [Chat -> CopyRow \cup {Null}],
         UNCHANGED <<folder, creating>>, tag' \subseteq User \X Tag,
         who' \in User, requests' \in 0..MaxRequests
  PROVE  TypeOK'
  BY DEF TypeOK

LEMMA RequestTyped ==
  ASSUME TypeOK, NEW name, NEW u \in User, Request(name, u)
  PROVE  who' \in User /\ requests' \in 0..MaxRequests
<1>1. requests \in 0..MaxRequests /\ MaxRequests \in Nat
  BY LibraryAssumption DEF TypeOK
<1> QED
  BY <1>1 DEF Request

LEMMA TypeStep ==
  ASSUME TypeOK, Work, [Next]_vars
  PROVE  TypeOK'
<1>0. /\ chat \in [Chat -> ChatRow \cup {Null, Gone}] /\ copy \in [Chat -> CopyRow \cup {Null}]
      /\ tag \subseteq User \X Tag /\ who \in User /\ requests \in 0..MaxRequests
  BY DEF TypeOK
<1>r. \A c \in Chats :
        /\ c \in Chat /\ chat[c] \in ChatRow /\ chat[c].user \in User
        /\ chat[c].folder \in Folder \cup {None} /\ chat[c].tags \in SUBSET Tag
  BY Rows
<1>s. \A c \in Chat : \A r \in ChatRow \cup {Null, Gone} :
        [chat EXCEPT ![c] = r] \in [Chat -> ChatRow \cup {Null, Gone}]
  BY <1>0
<1>c. \A c \in Chats :
        /\ \A f \in Folder \cup {None} : [chat EXCEPT ![c].folder = f] \in [Chat -> ChatRow \cup {Null, Gone}]
        /\ \A S \in SUBSET Tag : [chat EXCEPT ![c].tags = S] \in [Chat -> ChatRow \cup {Null, Gone}]
        /\ \A b \in BOOLEAN : [chat EXCEPT ![c].archived = b] \in [Chat -> ChatRow \cup {Null, Gone}]
        /\ \A b \in BOOLEAN : [chat EXCEPT ![c].shared = b] \in [Chat -> ChatRow \cup {Null, Gone}]
  <2> TAKE c \in Chats
  <2>1. c \in Chat /\ chat[c] \in ChatRow
    BY <1>r
  <2>2. /\ \A f \in Folder \cup {None} : [chat[c] EXCEPT !.folder = f] \in ChatRow
        /\ \A S \in SUBSET Tag : [chat[c] EXCEPT !.tags = S] \in ChatRow
        /\ \A b \in BOOLEAN : [chat[c] EXCEPT !.archived = b] \in ChatRow
        /\ \A b \in BOOLEAN : [chat[c] EXCEPT !.shared = b] \in ChatRow
    BY <2>1 DEF ChatRow
  <2> QED
    BY <2>1, <2>2, <1>0
<1>1. CASE UNCHANGED vars
  BY <1>1 DEF vars, TypeOK
<1>2. ASSUME NEW c \in Chat, ChatRequest(c)
      PROVE  TypeOK'
  <2>1. CASE DeleteAllTags(c)
    BY <2>1, <1>0, <1>r, <1>c, TypeFrame, RequestTyped DEF DeleteAllTags
  <2>2. CASE ArchiveChat(c)
    BY <2>2, <1>0, <1>r, <1>c, Rows, TypeFrame, RequestTyped DEF ArchiveChat
  <2>3. CASE DeleteChat(c)
    BY <2>3, <1>0, <1>r, TypeFrame, RequestTyped DEF DeleteChat
  <2>4. CASE ShareChat(c) \/ ShareAgain(c)
    <3>1. c \in Chats /\ copy' = [copy EXCEPT ![c] = CopyOf(c)] /\ UNCHANGED <<chat, folder, tag, creating>>
          /\ Request("share", chat[c].user)
      BY <2>4 DEF ShareChat, ShareAgain
    <3>2. CopyOf(c) \in CopyRow
      BY <3>1, <1>r DEF CopyOf, CopyRow
    <3>3. copy' \in [Chat -> CopyRow \cup {Null}]
      BY <3>1, <3>2, <1>0
    <3> QED
      BY <3>1, <3>3, <1>0, <1>r, TypeFrame, RequestTyped
  <2>5. CASE UnshareChat(c)
    BY <2>5, <1>0, <1>r, TypeFrame, RequestTyped DEF UnshareChat
  <2>6. ASSUME NEW f \in Folder \cup {None}, MoveChat(c, f)
        PROVE  TypeOK'
    BY <2>6, <1>0, <1>r, <1>c, TypeFrame, RequestTyped DEF MoveChat
  <2>7. ASSUME NEW t \in Tag, AddTag(c, t)
        PROVE  TypeOK'
    BY <2>7, <1>0, <1>r, TypeFrame, RequestTyped DEF AddTag
  <2>8. ASSUME NEW t \in Tag, RemoveTag(c, t)
        PROVE  TypeOK'
    <3>1. chat[c].tags \ {t} \in SUBSET Tag
      BY <2>8, <1>r DEF RemoveTag
    <3> QED
      BY <3>1, <2>8, <1>0, <1>r, <1>c, TypeFrame, RequestTyped DEF RemoveTag
  <2>9. ASSUME NEW ts \in SUBSET Tag, UpdateTags(c, ts)
        PROVE  TypeOK'
    BY <2>9, <1>0, <1>r, <1>c, TypeFrame, RequestTyped DEF UpdateTags
  <2>10. ASSUME NEW new \in Chat, NEW u \in User, NEW row, Clone(u, new, row),
                row.folder \in Folder \cup {None}, row.tags \in SUBSET Tag
         PROVE  TypeOK'
    <3>1. [user |-> u, folder |-> row.folder, tags |-> row.tags, archived |-> FALSE, shared |-> FALSE] \in ChatRow
      BY <2>10 DEF ChatRow
    <3> QED
      BY <3>1, <2>10, <1>0, <1>s, TypeFrame, RequestTyped DEF Clone, Insert
  <2>11. ASSUME NEW new \in Chat, CloneChat(c, new)
         PROVE  TypeOK'
    BY <2>11, <2>10, <1>r DEF CloneChat
  <2>12. ASSUME NEW new \in Chat, NEW u \in User, CloneSharedChat(u, c, new)
         PROVE  TypeOK'
    <3>1. copy[c] \in CopyRow
      BY <2>12, <1>0 DEF CloneSharedChat
    <3>2. copy[c].folder \in Folder \cup {None} /\ copy[c].tags \in SUBSET Tag
      BY <3>1 DEF CopyRow
    <3> QED
      BY <3>2, <2>12, <2>10 DEF CloneSharedChat
  <2> QED
    BY <1>2, <2>1, <2>2, <2>3, <2>4, <2>5, <2>6, <2>7, <2>8, <2>9, <2>11, <2>12 DEF ChatRequest
<1>3. ASSUME NEW u \in User, UserRequest(u)
      PROVE  TypeOK'
  <2>1. CASE ArchiveAll(u)
    <3>1. \A c \in ChatsOf(u) : [chat[c] EXCEPT !.archived = TRUE] \in ChatRow
      BY <1>r DEF ChatRow, ChatsOf
    <3>2. chat' \in [Chat -> ChatRow \cup {Null, Gone}]
      BY <2>1, <3>1, <1>0 DEF ArchiveAll
    <3> QED
      BY <2>1, <3>2, <1>0, TypeFrame, RequestTyped DEF ArchiveAll
  <2>2. CASE DeleteAllChats(u)
    BY <2>2, <1>0, TypeFrame, RequestTyped DEF DeleteAllChats
  <2>3. ASSUME NEW c \in Chat, NEW f \in Folder \cup {None}, NEW ts \in SUBSET Tag, NEW name,
               Insert(u, c, f, ts), Request(name, u), UNCHANGED <<copy, folder, tag, creating>>
        PROVE  TypeOK'
    <3>1. [user |-> u, folder |-> f, tags |-> ts, archived |-> FALSE, shared |-> FALSE] \in ChatRow
      BY DEF ChatRow
    <3> QED
      BY <3>1, <2>3, <1>0, <1>s, TypeFrame, RequestTyped DEF Insert
  <2>4. ASSUME NEW c \in Chat, NEW f \in Folder \cup {None}, CreateNewChat(u, c, f)
        PROVE  TypeOK'
    BY <2>4, <2>3 DEF CreateNewChat
  <2>5. ASSUME NEW c \in Chat, NEW f \in Folder \cup {None}, NEW ts \in SUBSET Tag, ImportChat(u, c, f, ts)
        PROVE  TypeOK'
    BY <2>5, <2>3 DEF ImportChat
  <2>6. ASSUME NEW f \in Folder, NEW n \in Name, AskFolder(u, f, n)
        PROVE  TypeOK'
    <3>1. requests' \in 0..MaxRequests
      BY <2>6, <1>0, LibraryAssumption DEF AskFolder
    <3> QED
      BY <2>6, <3>1 DEF AskFolder, TypeOK
  <2> QED
    BY <1>3, <2>1, <2>2, <2>4, <2>5, <2>6 DEF UserRequest
<1>4. ASSUME NEW f \in Folder, FolderRequest(f)
      PROVE  TypeOK'
  <2>0. f \in Folders => folder[f] \in FolderRow /\ folder[f].user \in User
    BY DEF Folders, TypeOK, FolderRow
  <2>1. ASSUME NEW n \in Name, RenameFolder(f, n)
        PROVE  TypeOK'
    <3>1. [folder[f] EXCEPT !.name = n] \in FolderRow
      BY <2>0, <2>1 DEF RenameFolder, FolderRow
    <3>2. who' \in User /\ requests' \in 0..MaxRequests
      BY <2>0, <2>1, RequestTyped DEF RenameFolder
    <3> QED
      BY <2>1, <3>1, <3>2 DEF RenameFolder, TypeOK
  <2>2. ASSUME NEW p \in Folder \cup {None}, MoveFolder(f, p)
        PROVE  TypeOK'
    <3>1. [folder[f] EXCEPT !.parent = p] \in FolderRow
      BY <2>0, <2>2 DEF MoveFolder, FolderRow
    <3>2. who' \in User /\ requests' \in 0..MaxRequests
      BY <2>0, <2>2, RequestTyped DEF MoveFolder
    <3> QED
      BY <2>2, <3>1, <3>2 DEF MoveFolder, TypeOK
  <2>3. CASE DeleteFolder(f)
    <3>1. who' \in User /\ requests' \in 0..MaxRequests
      BY <2>0, <2>3, RequestTyped DEF DeleteFolder
    <3> QED
      BY <2>3, <3>1, <1>0, TypeFrame DEF DeleteFolder
  <2> QED
    BY <1>4, <2>1, <2>2, <2>3 DEF FolderRequest
<1>5. ASSUME NEW k \in creating, CreateFolder(k)
      PROVE  TypeOK'
  <2>1. k.id \in Folder /\ [user |-> k.user, parent |-> None, name |-> k.name] \in FolderRow
    BY DEF TypeOK, FolderRow
  <2> QED
    BY <1>5, <2>1 DEF CreateFolder, TypeOK
<1>6. CASE InsertTag
  BY <1>6, <1>0, Heads, TypeFrame DEF InsertTag, Arg, InUse
<1>7. CASE EnsureTag
  BY <1>7, <1>0, Heads, TypeFrame DEF EnsureTag, Arg2
<1>8. CASE AddChatTag
  <2>1. Arg \in Chats /\ chat[Arg].tags \cup {Arg2} \in SUBSET Tag
    <3>1. Linking
      BY <1>8, Heads DEF AddChatTag
    <3>2. PICK c \in Tagged, t \in Tag : Head(todo) = <<"tag", c, t>>
      BY <3>1 DEF Linking
    <3>3. Arg = c /\ Arg2 = t /\ c \in Chats
      BY <3>2 DEF Arg, Arg2, Tagged, ChatsOf
    <3> QED
      BY <3>3, <1>r
  <2>2. chat' \in [Chat -> ChatRow \cup {Null, Gone}]
    BY <1>8, <2>1, <1>c DEF AddChatTag
  <2> QED
    BY <1>8, <2>2, <1>0, TypeFrame DEF AddChatTag
<1>9. CASE Prune
  <2>1. tag' \subseteq tag
    BY <1>9 DEF Prune
  <2> QED
    BY <1>9, <2>1, <1>0, TypeFrame DEF Prune
<1>10. CASE DeleteRow \/ DeleteRows \/ EmptyFolder
  <2>1. chat' \in [Chat -> ChatRow \cup {Null, Gone}]
    BY <1>10, <1>0 DEF DeleteRow, DeleteRows, EmptyFolder
  <2> QED
    BY <1>10, <2>1, <1>0, TypeFrame DEF DeleteRow, DeleteRows, EmptyFolder
<1>11. CASE DeleteCopies
  BY <1>11, <1>0, TypeFrame DEF DeleteCopies
<1>12. CASE SetShareId
  <2>1. Arg \in Chats /\ Arg2 \in BOOLEAN
    <3>1. Sharing \/ Unsharing
      BY <1>12, Heads DEF SetShareId
    <3>2. CASE Sharing
      <4>1. PICK c \in Chats : todo = <<<<"link", c, TRUE>>>>
        BY <3>2 DEF Sharing
      <4>2. Head(todo) = <<"link", c, TRUE>>
        BY <4>1, OneLeft
      <4>3. Arg = c /\ Arg2 = TRUE
        BY <4>2, Triple, Zenon DEF Arg, Arg2
      <4> QED
        BY <4>3, Zenon
    <3>3. CASE Unsharing
      <4>1. PICK c \in Chats : \/ todo = <<<<"uncopy", {c}>>, <<"link", c, FALSE>>>>
                              \/ todo = <<<<"link", c, FALSE>>>>
        BY <3>3 DEF Unsharing
      <4>2. CASE todo = <<<<"uncopy", {c}>>, <<"link", c, FALSE>>>>
        <5>1. Head(todo) = <<"uncopy", {c}>>
          BY <4>2, TwoLeft
        <5> QED
          BY <1>12, <5>1 DEF SetShareId, Pending
      <4>3. CASE todo = <<<<"link", c, FALSE>>>>
        <5>1. Head(todo) = <<"link", c, FALSE>>
          BY <4>3, OneLeft
        <5>2. Arg = c /\ Arg2 = FALSE
          BY <5>1, Triple, Zenon DEF Arg, Arg2
        <5> QED
          BY <5>2, Zenon
      <4> QED
        BY <4>1, <4>2, <4>3
    <3> QED
      BY <3>1, <3>2, <3>3
  <2> QED
    BY <1>12, <2>1, <1>0, <1>c, TypeFrame DEF SetShareId
<1>13. CASE GetChildren
  BY <1>13, <1>0, TypeFrame DEF GetChildren
<1>14. CASE RemoveFolder
  BY <1>14 DEF RemoveFolder, TypeOK
<1>15. CASE Crash
  BY <1>15 DEF Crash, TypeOK
<1> QED
  BY <1>1, <1>2, <1>3, <1>4, <1>5, <1>6, <1>7, <1>8, <1>9, <1>10, <1>11, <1>12, <1>13, <1>14, <1>15 DEF Next, Rest

-----------------------------------------------------------------------------
(* What a handler has left.                                                *)
LEMMA Wider ==
  ASSUME NEW S, NEW T, S \subseteq T, NEW q \in Seq(S)
  PROVE  q \in Seq(T)
  OBVIOUS

LEMMA AppendTwo ==
  ASSUME NEW S, NEW p \in Seq(S), NEW x \in S, NEW y \in S, NEW q, q = p \o <<x, y>>
  PROVE  /\ q \in Seq(S) /\ q # <<>> /\ Len(p) \in Nat
         /\ Len(q) = Len(p) + 2 /\ q[Len(p) + 1] = x /\ q[Len(p) + 2] = y
         /\ \A i \in 1..Len(p) : q[i] = p[i]
  OBVIOUS

LEMMA WorkFrame ==
  ASSUME Work, UNCHANGED <<chat, copy, tag, todo, op, who>>,
         \A s \in {"hidden", "twin", "bulk"} : s \in slips' <=> s \in slips
  PROVE  Work'
<1>1. /\ Inserting' = Inserting /\ Pruning' = Pruning
      /\ Adding' = Adding /\ Linking' = Linking
  BY DEF Inserting, Pruning, Adding, Linking, InUse, Tagged, TagSteps, Holders, ChatsOf, Chats
<1>2. ASSUME NEW c \in Chat, DeletionWork(c)
      PROVE  DeletionWork(c)'
  <2>1. /\ UNCHANGED <<chat, tag, todo, op>> /\ ("twin" \notin slips' => "twin" \notin slips)
        /\ Chats' = Chats /\ ChatsOf(who)' = ChatsOf(who) /\ DeletionSteps' = DeletionSteps
        /\ \A t : Holders(who, t)' = Holders(who, t)
    BY DEF DeletionSteps, Holders, ChatsOf, Chats
  <2>2. \A t : <<who', t>> = <<who, t>>
    OBVIOUS
  <2> QED
    BY <1>2, <2>1, <2>2 DEF DeletionWork
<1>3. Sharing' = Sharing /\ Unsharing' = Unsharing /\ DeletingAll' = DeletingAll /\ Emptying' = Emptying
  BY DEF Sharing, Unsharing, DeletingAll, Emptying, FolderSteps, ChatsOf, Chats
<1> QED
  BY <1>1, <1>2, <1>3 DEF Work

LEMMA RequestWork ==
  ASSUME TypeOK, NEW c \in Chat, ChatRequest(c)
  PROVE  Work'
<1>r. \A d \in Chats :
        /\ d \in Chat /\ chat[d] \in ChatRow /\ chat[d].user \in User
        /\ chat[d].tags \in SUBSET Tag /\ IsFiniteSet(chat[d].tags)
  BY Rows
<1>0. chat \in [Chat -> ChatRow \cup {Null, Gone}] /\ \A r \in ChatRow : r # Null /\ r # Gone
  BY Rows DEF TypeOK
<1>1. CASE DeleteAllTags(c)
  <2>1. c \in Chats /\ op' = "untag" /\ todo' \in Prunes(chat[c].tags, 0)
    BY <1>1 DEF DeleteAllTags, Request
  <2>2. todo' \in Seq({"prune"} \X chat[c].tags \X {0})
    BY <2>1, <1>r, PruneFacts
  <2>3. todo' \in Seq({"prune"} \X Tag \X {0})
    BY <2>2, <2>1, <1>r, Wider
  <2> QED
    BY <2>1, <2>3 DEF Work, Pruning
<1>2. ASSUME NEW t \in Tag, RemoveTag(c, t)
      PROVE  Work'
  <2>1. op' = "untag" /\ todo' \in Prunes({t}, 0) /\ IsFiniteSet({t})
    BY <1>2, FS_Singleton DEF RemoveTag, Request
  <2>2. todo' \in Seq({"prune"} \X {t} \X {0})
    BY <2>1, PruneFacts
  <2>3. todo' \in Seq({"prune"} \X Tag \X {0})
    BY <2>2, Wider
  <2> QED
    BY <2>1, <2>3 DEF Work, Pruning
<1>3. CASE ArchiveChat(c)
  <2>1. /\ c \in Chats /\ op' = "archive" /\ who' = chat[c].user
        /\ chat' = [chat EXCEPT ![c].archived = ~@]
        /\ todo' \in IF chat'[c].archived THEN Prunes(chat[c].tags, 0) ELSE All("insertTag", chat[c].tags)
    BY <1>3 DEF ArchiveChat, Request
  <2>2. CASE chat'[c].archived
    <3>1. todo' \in Seq({"prune"} \X chat[c].tags \X {0})
      BY <2>1, <2>2, <1>r, PruneFacts
    <3>2. todo' \in Seq({"prune"} \X Tag \X {0})
      BY <3>1, <2>1, <1>r, Wider
    <3> QED
      BY <2>1, <3>2 DEF Work, Pruning
  <2>3. CASE ~chat'[c].archived
    <3>1. todo' \in Seq({"insertTag"} \X chat[c].tags)
      BY <2>1, <2>3, <1>r, AllFacts
    <3>2. /\ chat'[c] = [chat[c] EXCEPT !.archived = ~@] /\ chat[c] \in ChatRow
          /\ chat'[c] \in ChatRow /\ chat'[c].user = chat[c].user /\ chat'[c].tags = chat[c].tags
      BY <2>1, <1>0, <1>r DEF ChatRow
    <3>3. chat[c].tags \subseteq InUse'
      BY <2>1, <2>3, <3>2, <1>0, <1>r DEF InUse, Holders, ChatsOf, Chats
    <3>4. todo' \in Seq({"insertTag"} \X InUse')
      BY <3>1, <3>3, Wider
    <3> QED
      BY <2>1, <3>4 DEF Work, Inserting
  <2> QED
    BY <2>2, <2>3
<1>4. ASSUME NEW t \in Tag, AddTag(c, t)
      PROVE  Work'
  <2>1. /\ c \in Chats /\ op' = "add" /\ who' = chat[c].user /\ chat' = chat
        /\ todo' = <<<<"addTag", c, t>>>> /\ (chat[c].archived => "hidden" \in slips')
    BY <1>4 DEF AddTag, Request, Slip
  <2>2. c \in Tagged'
    BY <2>1 DEF Tagged, ChatsOf, Chats
  <2>3. todo' \in Seq(TagSteps')
    BY <2>1, <2>2 DEF TagSteps
  <2> QED
    BY <2>1, <2>3 DEF Work, Adding
<1>5. ASSUME NEW ts \in SUBSET Tag, UpdateTags(c, ts)
      PROVE  Work'
  <2>1. PICK old \in Prunes(chat[c].tags, 0), new \in SetToSeqs(ts) :
          todo' = old \o [i \in DOMAIN new |-> <<"addTag", c, new[i]>>]
    BY <1>5 DEF UpdateTags
  <2>2. /\ c \in Chats /\ op' = "update" /\ who' = chat[c].user /\ chat' = [chat EXCEPT ![c].tags = {}]
        /\ (chat[c].archived => "hidden" \in slips')
    BY <1>5 DEF UpdateTags, Request, Slip
  <2>3. /\ chat'[c] = [chat[c] EXCEPT !.tags = {}] /\ chat[c] \in ChatRow
        /\ chat'[c] \in ChatRow /\ chat'[c].user = chat[c].user /\ chat'[c].archived = chat[c].archived
    BY <2>2, <1>0, <1>r DEF ChatRow
  <2>4. c \in Tagged'
    BY <2>2, <2>3, <1>0 DEF Tagged, ChatsOf, Chats
  <2>5. new \in Seq(Tag)
    <3>1. IsFiniteSet(ts)
      BY LibraryAssumption, FS_Subset
    <3> QED
      BY <3>1, Orders, Wider
  <2>6. [i \in DOMAIN new |-> <<"addTag", c, new[i]>>] \in Seq(TagSteps')
    <3>1. DOMAIN new = 1..Len(new) /\ Len(new) \in Nat /\ \A i \in 1..Len(new) : new[i] \in Tag
      BY <2>5
    <3>2. \A i \in 1..Len(new) : <<"addTag", c, new[i]>> \in TagSteps'
      BY <3>1, <2>4 DEF TagSteps
    <3> QED
      BY <3>1, <3>2
  <2>7. old \in Seq(TagSteps')
    <3>1. old \in Seq({"prune"} \X chat[c].tags \X {0})
      BY <2>2, <1>r, PruneFacts
    <3>2. {"prune"} \X chat[c].tags \X {0} \subseteq TagSteps'
      BY <2>2, <1>r DEF TagSteps
    <3> QED
      BY <3>1, <3>2, Wider
  <2>8. todo' \in Seq(TagSteps')
    BY <2>1, <2>6, <2>7
  <2> QED
    BY <2>2, <2>8 DEF Work, Adding
<1>6. CASE DeleteChat(c)
  <2>1. PICK p \in Prunes(chat[c].tags, 1) : todo' = p \o <<<<"delete", c>>, <<"uncopy", {c}>>>>
    BY <1>6 DEF DeleteChat
  <2>2. /\ c \in Chats /\ op' = "delete" /\ who' = chat[c].user /\ UNCHANGED <<chat, tag>>
        /\ chat[c].archived /\ "twin" \notin slips' => \A t \in chat[c].tags : Cardinality(Holders(chat[c].user, t)) # 1
    BY <1>6 DEF DeleteChat, Request, Slip
  <2>3. p \in Seq({"prune"} \X chat[c].tags \X {1}) /\ \A t \in chat[c].tags : <<"prune", t, 1>> \in ToSet(p)
    BY <2>2, <1>r, PruneFacts
  <2>4. p \in Seq(DeletionSteps)
    <3>1. {"prune"} \X chat[c].tags \X {1} \subseteq DeletionSteps
      BY <2>2, <1>r DEF DeletionSteps
    <3> QED
      BY <3>1, <2>3, Wider
  <2>5. <<"delete", c>> \in DeletionSteps /\ <<"uncopy", {c}>> \in DeletionSteps
    BY DEF DeletionSteps
  <2>6. /\ todo' \in Seq(DeletionSteps) /\ todo' # <<>> /\ Len(p) \in Nat
        /\ Len(todo') = Len(p) + 2 /\ todo'[Len(p) + 1] = <<"delete", c>> /\ todo'[Len(p) + 2] = <<"uncopy", {c}>>
        /\ \A i \in 1..Len(p) : todo'[i] = p[i]
    BY <2>1, <2>4, <2>5, AppendTwo
  <2>7. \A i \in 1..Len(p) : todo'[i] \in {"prune"} \X chat[c].tags \X {1}
    BY <2>3, <2>6
  <2>8. \A t \in chat[c].tags : \E i \in 1..Len(p) : todo'[i] = <<"prune", t, 1>>
    <3>1. DOMAIN p = 1..Len(p)
      BY <2>3
    <3> QED
      BY <3>1, <2>3, <2>6 DEF ToSet
  <2>9. Len(todo') - 2 = Len(p)
    BY <2>6
  <2>10. c \in ChatsOf(who)' /\ DeletionSteps' = DeletionSteps /\ \A t : Holders(who, t)' = Holders(chat[c].user, t)
    BY <2>2 DEF ChatsOf, Chats, DeletionSteps, Holders
  <2>11. DeletionWork(c)'
    BY <2>2, <2>6, <2>7, <2>8, <2>9, <2>10 DEF DeletionWork
  <2> QED
    BY <2>11 DEF Work
<1>7. CASE ShareChat(c)
  <2>1. c \in Chats' /\ op' = "share" /\ todo' = <<<<"link", c, TRUE>>>> /\ copy' = [copy EXCEPT ![c] = CopyOf(c)]
    BY <1>7 DEF ShareChat, Request, Chats
  <2>2. CopyOf(c) # Null
    BY <1>7, Rows DEF ShareChat, CopyOf, CopyRow
  <2>3. copy'[c] # Null
    BY <2>1, <2>2 DEF TypeOK
  <2> QED
    BY <2>1, <2>3 DEF Work, Sharing
<1>8. CASE UnshareChat(c)
  <2>1. c \in Chats' /\ op' = "unshare" /\ todo' = <<<<"uncopy", {c}>>, <<"link", c, FALSE>>>>
    BY <1>8 DEF UnshareChat, Request, Chats
  <2> QED
    BY <2>1 DEF Work, Unsharing
<1>9. CASE ShareAgain(c)
  BY <1>9 DEF ShareAgain, Request, Work
<1>10. ASSUME NEW f \in Folder \cup {None}, MoveChat(c, f)
       PROVE  Work'
  BY <1>10 DEF MoveChat, Request, Work
<1>11. ASSUME NEW new \in Chat, CloneChat(c, new) \/ \E u \in User : CloneSharedChat(u, c, new)
       PROVE  Work'
  BY <1>11 DEF CloneChat, CloneSharedChat, Clone, Request, Work
<1> QED
  BY <1>1, <1>2, <1>3, <1>4, <1>5, <1>6, <1>7, <1>8, <1>9, <1>10, <1>11 DEF ChatRequest

LEMMA RestWork ==
  ASSUME TypeOK, Work, todo # <<>>,
         InsertTag \/ EnsureTag \/ AddChatTag \/ Prune \/ DeleteRow \/ DeleteRows \/ DeleteCopies
           \/ SetShareId \/ GetChildren \/ RemoveFolder \/ EmptyFolder
  PROVE  Work'
<1>0. chat \in [Chat -> ChatRow \cup {Null, Gone}] /\ \A r \in ChatRow : r # Null /\ r # Gone
  BY Rows DEF TypeOK
<1>s. ASSUME UNCHANGED <<chat, op, who, slips>>
      PROVE  InUse' = InUse /\ Tagged' = Tagged /\ TagSteps' = TagSteps
  BY <1>s DEF InUse, Tagged, TagSteps, Holders, ChatsOf, Chats
<1>1. CASE InsertTag
  <2>1. Inserting /\ todo' = Tail(todo) /\ UNCHANGED <<chat, op, who, slips>>
    BY <1>1, Heads DEF InsertTag, Done
  <2>2. todo' \in Seq({"insertTag"} \X InUse)
    BY <2>1, TailFacts DEF Inserting
  <2>3. Inserting'
    BY <2>1, <2>2, <1>s DEF Inserting
  <2> QED
    BY <2>3 DEF Work
<1>2. CASE EnsureTag
  <2>1. /\ Adding /\ Head(todo) \in {"addTag"} \X Tagged \X Tag
        /\ tag' = tag \cup {<<who, Arg2>>} /\ todo' = <<<<"tag", Arg, Arg2>>>> \o Tail(todo)
        /\ UNCHANGED <<chat, op, who, slips>>
    BY <1>2, Heads DEF EnsureTag
  <2>2. Arg \in Tagged /\ Arg2 \in Tag
    BY <2>1 DEF Arg, Arg2
  <2>3. Tail(todo) \in Seq(TagSteps)
    BY <2>1, TailFacts DEF Adding
  <2> DEFINE All2 == TagSteps \cup ({"tag"} \X Tagged \X Tag)
  <2>4. <<"tag", Arg, Arg2>> \in All2 /\ Tail(todo) \in Seq(All2)
    BY <2>2, <2>3, Wider
  <2>5. todo' \in Seq(All2) /\ Head(todo') = <<"tag", Arg, Arg2>> /\ Tail(todo') = Tail(todo)
    <3> HIDE DEF All2
    <3> QED
      BY <2>1, <2>4
  <2>6. Linking'
    BY <2>1, <2>2, <2>3, <2>5, <1>s DEF Linking, Adding
  <2> QED
    BY <2>6 DEF Work
<1>3. CASE AddChatTag
  <2>1. Linking /\ todo' = Tail(todo) /\ chat' = [chat EXCEPT ![Arg].tags = @ \cup {Arg2}] /\ UNCHANGED <<op, who, slips>>
    BY <1>3, Heads DEF AddChatTag, Done
  <2>2. PICK c \in Tagged, t \in Tag : Head(todo) = <<"tag", c, t>>
    BY <2>1 DEF Linking
  <2>3. Arg = c /\ c \in Chats /\ c \in Chat /\ chat[c] \in ChatRow
    BY <2>2, Rows DEF Arg, Tagged, ChatsOf
  <2>4. /\ chat'[c] = [chat[c] EXCEPT !.tags = @ \cup {Arg2}] /\ \A d \in Chat : d # c => chat'[d] = chat[d]
    BY <2>1, <2>3, <1>0
  <2>5. chat'[c].user = chat[c].user /\ chat'[c].archived = chat[c].archived /\ chat'[c] # Null /\ chat'[c] # Gone
    <3>1. /\ [chat[c] EXCEPT !.tags = @ \cup {Arg2}].user = chat[c].user
          /\ [chat[c] EXCEPT !.tags = @ \cup {Arg2}].archived = chat[c].archived
      BY <2>3 DEF ChatRow
    <3>2. [chat[c] EXCEPT !.tags = @ \cup {Arg2}] \in ChatRow
      <4>1. Arg2 \in Tag
        BY <2>2 DEF Arg2
      <4> QED
        BY <4>1, <2>3 DEF ChatRow
    <3> QED
      BY <2>4, <3>1, <3>2, <1>0
  <2>6. Chats' = Chats
    BY <2>3, <2>4, <2>5 DEF Chats
  <2>7. Tagged' = Tagged
    BY <2>1, <2>4, <2>5, <2>6 DEF Tagged, ChatsOf, Chats
  <2>8. TagSteps' = TagSteps
    BY <2>7 DEF TagSteps
  <2>9. Adding'
    BY <2>1, <2>8 DEF Linking, Adding
  <2> QED
    BY <2>9 DEF Work
<1>4. CASE Prune
  <2>1. todo' = Tail(todo) /\ UNCHANGED <<chat, op, who, slips>> /\ Pending("prune")
    BY <1>4 DEF Prune, Done
  <2>2. CASE Pruning
    <3>1. Pruning'
      BY <2>1, <2>2, TailFacts DEF Pruning
    <3> QED
      BY <3>1 DEF Work
  <2>3. CASE Adding
    <3>1. todo' \in Seq(TagSteps)
      BY <2>1, <2>3, TailFacts DEF Adding
    <3>2. Adding'
      BY <2>1, <2>3, <3>1, <1>s DEF Adding
    <3> QED
      BY <3>2 DEF Work
  <2>4. ASSUME NEW c \in Chat, DeletionWork(c), Len(todo) > 2
        PROVE  Work'
    <3> DEFINE n == Len(todo) - 2
    <3>1. /\ todo \in Seq(DeletionSteps) /\ Len(todo) \in Nat /\ Head(todo) = todo[1]
          /\ Tail(todo) \in Seq(DeletionSteps) /\ Len(Tail(todo)) = Len(todo) - 1
          /\ \A i \in 1..Len(todo) - 1 : Tail(todo)[i] = todo[i + 1]
      BY <2>4, TailFacts DEF DeletionWork
    <3>2. /\ op = "delete" /\ todo[Len(todo)] = <<"uncopy", {c}>> /\ c \in ChatsOf(who) /\ todo[n + 1] = <<"delete", c>>
          /\ \A i \in 1..n : todo[i] \in {"prune"} \X chat[c].tags \X {1}
          /\ chat[c].archived /\ "twin" \notin slips =>
               \A t \in chat[c].tags : Cardinality(Holders(who, t)) # 1
          /\ \A t \in chat[c].tags : <<who, t>> \in tag /\ ~chat[c].archived =>
               (\E i \in 1..n : todo[i] = <<"prune", t, 1>>) \/ Holders(who, t) # {c}
      <4>1. ~(n = -1)
        BY <2>4, <3>1
      <4> HIDE DEF n
      <4> QED
        BY <2>4, <4>1 DEF DeletionWork, n
    <3>3. Len(todo') \in Nat /\ Len(todo') - 2 = n - 1 /\ n - 1 >= 0 /\ n \in Nat /\ n >= 1
      BY <2>1, <2>4, <3>1
    <3>4. todo' \in Seq(DeletionSteps) /\ todo' # <<>>
      <4>1. Len(todo') # 0
        BY <3>3
      <4> QED
        BY <2>1, <3>1, <4>1
    <3>5. todo'[Len(todo')] = <<"uncopy", {c}>> /\ todo'[(n - 1) + 1] = <<"delete", c>>
      <4>1. Len(todo') \in 1..Len(todo) - 1 /\ Len(todo') + 1 = Len(todo)
        BY <2>1, <3>1, <3>3
      <4>2. n \in 1..Len(todo) - 1 /\ (n - 1) + 1 = n
        BY <3>1, <3>3
      <4> QED
        BY <2>1, <3>1, <3>2, <4>1, <4>2
    <3>6. \A i \in 1..n - 1 : i + 1 \in 1..n /\ todo'[i] = todo[i + 1]
      BY <2>1, <3>1, <3>3
    <3>7. \A i \in 1..n - 1 : todo'[i] \in {"prune"} \X chat[c].tags \X {1}
      BY <3>2, <3>6
    <3>8. ASSUME NEW t \in chat[c].tags, <<who, t>> \in tag', ~chat[c].archived
          PROVE  (\E i \in 1..n - 1 : todo'[i] = <<"prune", t, 1>>) \/ Holders(who, t) # {c}
      <4>1. <<who, t>> \in tag
        BY <3>8, <1>4 DEF Prune, Done
      <4>2. CASE \E i \in 1..n : todo[i] = <<"prune", t, 1>>
        <5>1. PICK i \in 1..n : todo[i] = <<"prune", t, 1>>
          BY <4>2
        <5>2. CASE i = 1
          <6>1. Arg = t /\ Arg2 = 1
            BY <3>1, <5>1, <5>2 DEF Arg, Arg2
          <6>2. Cardinality(Holders(who, t)) # 1
            BY <1>4, <3>8, <6>1 DEF Prune, Done
          <6>3. Cardinality({c}) = 1
            BY FS_Singleton
          <6>4. Holders(who, t) # {c}
            BY <6>2, <6>3
          <6> QED
            BY <6>4
        <5>3. CASE i # 1
          <6>1. i - 1 \in 1..n - 1 /\ (i - 1) + 1 = i
            BY <5>3, <3>3
          <6>2. todo'[i - 1] = <<"prune", t, 1>>
            BY <5>1, <6>1, <3>6
          <6> QED
            BY <6>1, <6>2
        <5> QED
          BY <5>2, <5>3
      <4>3. CASE Holders(who, t) # {c}
        BY <4>3
      <4> QED
        BY <3>2, <3>8, <4>1, <4>2, <4>3
    <3>9. /\ ChatsOf(who)' = ChatsOf(who) /\ DeletionSteps' = DeletionSteps
          /\ \A t : Holders(who, t)' = Holders(who, t) /\ <<who', t>> = <<who, t>>
      BY <2>1 DEF ChatsOf, Chats, DeletionSteps, Holders
    <3>10. DeletionWork(c)'
      <4> HIDE DEF n
      <4> QED
        BY <2>1, <3>2, <3>3, <3>4, <3>5, <3>7, <3>8, <3>9 DEF DeletionWork
    <3> QED
      BY <3>10 DEF Work
  <2> QED
    BY <2>1, <2>2, <2>3, <2>4, Heads
<1>5. CASE DeleteRow
  <2>1. PICK c \in Chat : DeletionWork(c) /\ Len(todo) = 2
    BY <1>5, Heads DEF DeleteRow, Done
  <2>2. Head(todo) = <<"delete", c>> /\ todo[2] = <<"uncopy", {c}>> /\ op = "delete" /\ todo \in Seq(DeletionSteps)
    BY <2>1, DeletionHead DEF DeletionWork
  <2>3. todo' = Tail(todo) /\ chat' = [chat EXCEPT ![c] = Gone] /\ UNCHANGED <<op, who>>
    <3>1. Arg = c
      BY <2>2 DEF Arg
    <3> QED
      BY <1>5, <3>1 DEF DeleteRow, Done
  <2>4. /\ todo' \in Seq(DeletionSteps) /\ Len(todo') = 1 /\ todo' # <<>> /\ todo'[1] = <<"uncopy", {c}>>
    <3>1. todo' \in Seq(DeletionSteps) /\ Len(todo') = 2 - 1 /\ \A i \in 1..2 - 1 : todo'[i] = todo[i + 1]
      BY <2>1, <2>2, <2>3, TailFacts
    <3>2. 1 \in 1..2 - 1
      OBVIOUS
    <3>3. Len(todo') = 1 /\ todo'[1] = <<"uncopy", {c}>>
      BY <3>1, <3>2, <2>2
    <3> QED
      BY <3>1, <3>3
  <2>5. c \notin Chats' /\ DeletionSteps' = DeletionSteps
    BY <2>3, <1>0 DEF Chats, DeletionSteps
  <2>6. DeletionWork(c)'
    BY <2>2, <2>3, <2>4, <2>5 DEF DeletionWork
  <2> QED
    BY <2>6 DEF Work
<1>6. CASE DeleteRows
  <2>1. DeletingAll
    BY <1>6, Heads DEF DeleteRows, Done
  <2>2. CASE todo = <<<<"uncopy", ChatsOf(who)>>, <<"deleteAll", who>>>>
    <3>1. Head(todo) = <<"uncopy", ChatsOf(who)>>
      BY <2>2, TwoLeft
    <3> QED
      BY <1>6, <3>1 DEF DeleteRows, Done, Pending
  <2>3. CASE todo = <<<<"deleteAll", who>>>>
    <3>1. todo' = <<>>
      BY <1>6, <2>3, OneLeft DEF DeleteRows, Done
    <3> QED
      BY <3>1 DEF Work
  <2> QED
    BY <2>1, <2>2, <2>3 DEF DeletingAll
<1>7. CASE DeleteCopies
  <2>1. /\ todo' = Tail(todo) /\ UNCHANGED <<chat, op, who, slips>> /\ Pending("uncopy")
        /\ copy' = [c \in Chat |-> IF c \in Arg THEN Null ELSE copy[c]]
    BY <1>7 DEF DeleteCopies, Done
  <2>2. ASSUME NEW c \in Chat, DeletionWork(c), Len(todo) = 1
        PROVE  Work'
    BY <2>1, <2>2, DeletionHead DEF Work
  <2>3. CASE Unsharing
    <3>1. PICK c \in Chats : \/ todo = <<<<"uncopy", {c}>>, <<"link", c, FALSE>>>>
                            \/ todo = <<<<"link", c, FALSE>>>>
      BY <2>3 DEF Unsharing
    <3>2. CASE todo = <<<<"uncopy", {c}>>, <<"link", c, FALSE>>>>
      <4>1. Head(todo) = <<"uncopy", {c}>> /\ Tail(todo) = <<<<"link", c, FALSE>>>>
        BY <3>2, TwoLeft
      <4>2. Arg = {c} /\ c \in Chat
        BY <4>1 DEF Arg, Chats
      <4>3. copy'[c] = Null /\ c \in Chats'
        BY <2>1, <4>2 DEF Chats
      <4>4. Unsharing'
        BY <2>1, <2>3, <4>1, <4>3 DEF Unsharing
      <4> QED
        BY <4>4 DEF Work
    <3>3. CASE todo = <<<<"link", c, FALSE>>>>
      <4>1. Head(todo) = <<"link", c, FALSE>>
        BY <3>3, OneLeft
      <4> QED
        BY <2>1, <4>1 DEF Pending
    <3> QED
      BY <3>1, <3>2, <3>3
  <2>4. CASE DeletingAll
    <3>1. CASE todo = <<<<"uncopy", ChatsOf(who)>>, <<"deleteAll", who>>>>
      <4>1. Head(todo) = <<"uncopy", ChatsOf(who)>> /\ Tail(todo) = <<<<"deleteAll", who>>>>
        BY <3>1, TwoLeft
      <4>2. Arg = ChatsOf(who) /\ ChatsOf(who) \subseteq Chat /\ ChatsOf(who)' = ChatsOf(who)
        BY <4>1, <2>1 DEF Arg, ChatsOf, Chats
      <4>3. \A c \in ChatsOf(who) : copy'[c] = Null
        BY <2>1, <4>2
      <4>4. DeletingAll'
        BY <2>1, <2>4, <4>1, <4>2, <4>3 DEF DeletingAll
      <4> QED
        BY <4>4 DEF Work
    <3>2. CASE todo = <<<<"deleteAll", who>>>>
      <4>1. Head(todo) = <<"deleteAll", who>>
        BY <3>2, OneLeft
      <4> QED
        BY <2>1, <4>1 DEF Pending
    <3> QED
      BY <2>4, <3>1, <3>2 DEF DeletingAll
  <2> QED
    BY <2>1, <2>2, <2>3, <2>4, Heads
<1>8. CASE SetShareId
  <2>1. Pending("link") /\ todo' = Tail(todo)
    BY <1>8 DEF SetShareId, Done
  <2>2. CASE Sharing
    <3>1. todo' = <<>>
      BY <2>1, <2>2, HeadKinds
    <3> QED
      BY <3>1 DEF Work
  <2>3. CASE Unsharing
    <3>1. PICK c \in Chats : \/ todo = <<<<"uncopy", {c}>>, <<"link", c, FALSE>>>>
                            \/ todo = <<<<"link", c, FALSE>>>>
      BY <2>3 DEF Unsharing
    <3>2. CASE todo = <<<<"uncopy", {c}>>, <<"link", c, FALSE>>>>
      <4>1. Head(todo) = <<"uncopy", {c}>>
        BY <3>2, TwoLeft
      <4> QED
        BY <2>1, <4>1 DEF Pending
    <3>3. CASE todo = <<<<"link", c, FALSE>>>>
      <4>1. todo' = <<>>
        BY <2>1, <3>3, OneLeft
      <4> QED
        BY <4>1 DEF Work
    <3> QED
      BY <3>1, <3>2, <3>3
  <2> QED
    BY <2>1, <2>2, <2>3, Heads
<1>9. CASE GetChildren
  <2>1. Emptying /\ Head(todo) \in {"children"} \X Folder \X SUBSET Folder /\ op' = op
    BY <1>9, Heads DEF GetChildren
  <2>2. Arg \in Folder /\ Arg2 \in SUBSET Folder
    BY <2>1 DEF Arg, Arg2
  <2>3. Tail(todo) \in Seq(FolderSteps)
    BY <2>1, TailFacts DEF Emptying
  <2>4. CASE todo' = <<>>
    BY <2>4 DEF Work
  <2>5. ASSUME NEW o \in SetToSeqs(Siblings(who, Arg)),
               todo' = [i \in DOMAIN o |-> <<"children", o[i], Arg2 \cup {Arg}>>] \o <<<<"remove", Arg>>>> \o Tail(todo)
        PROVE  Work'
    <3>1. o \in Seq(Folder)
      <4>1. Siblings(who, Arg) \subseteq Folder /\ IsFiniteSet(Siblings(who, Arg))
        <5>1. Siblings(who, Arg) \in SUBSET Folder
          BY DEF Siblings, FoldersOf, Folders
        <5> QED
          BY <5>1, LibraryAssumption, FS_Subset
      <4> QED
        BY <4>1, Orders, Wider
    <3>2. [i \in DOMAIN o |-> <<"children", o[i], Arg2 \cup {Arg}>>] \in Seq(FolderSteps)
      <4>1. DOMAIN o = 1..Len(o) /\ Len(o) \in Nat /\ \A i \in 1..Len(o) : o[i] \in Folder
        BY <3>1
      <4>2. \A i \in 1..Len(o) : <<"children", o[i], Arg2 \cup {Arg}>> \in FolderSteps
        BY <4>1, <2>2 DEF FolderSteps
      <4> QED
        BY <4>1, <4>2
    <3>3. <<<<"remove", Arg>>>> \in Seq(FolderSteps)
      <4>1. <<"remove", Arg>> \in FolderSteps
        BY <2>2 DEF FolderSteps
      <4> QED
        BY <4>1
    <3>4. todo' \in Seq(FolderSteps)
      BY <2>3, <2>5, <3>2, <3>3
    <3>5. Emptying'
      BY <2>1, <3>4 DEF Emptying, FolderSteps
    <3> QED
      BY <3>5 DEF Work
  <2> QED
    BY <1>9, <2>4, <2>5 DEF GetChildren
<1>10. CASE RemoveFolder
  <2>1. Emptying /\ Head(todo) \in {"remove"} \X Folder /\ op' = op
    BY <1>10, Heads DEF RemoveFolder
  <2>2. Arg \in Folder
    BY <2>1 DEF Arg
  <2>3. Tail(todo) \in Seq(FolderSteps)
    BY <2>1, TailFacts DEF Emptying
  <2>4. <<"empty", Arg>> \in FolderSteps
    BY <2>2 DEF FolderSteps
  <2>5. todo' \in Seq(FolderSteps)
    <3>1. todo' = Tail(todo) \o <<>> \/ todo' = Tail(todo) \o <<<<"empty", Arg>>>>
      BY <1>10 DEF RemoveFolder
    <3>2. CASE todo' = Tail(todo) \o <<>>
      BY <2>3, <3>2
    <3>3. CASE todo' = Tail(todo) \o <<<<"empty", Arg>>>>
      <4>1. <<<<"empty", Arg>>>> \in Seq(FolderSteps)
        BY <2>4
      <4> QED
        BY <2>3, <3>3, <4>1
    <3> QED
      BY <3>1, <3>2, <3>3
  <2>6. Emptying'
    BY <2>1, <2>5 DEF Emptying, FolderSteps
  <2> QED
    BY <2>6 DEF Work
<1>11. CASE EmptyFolder
  <2>1. Emptying /\ todo' = Tail(todo) /\ op' = op
    BY <1>11, Heads DEF EmptyFolder, Done
  <2>2. todo' \in Seq(FolderSteps)
    BY <2>1, TailFacts DEF Emptying
  <2>3. Emptying'
    BY <2>1, <2>2 DEF Emptying, FolderSteps
  <2> QED
    BY <2>3 DEF Work
<1> QED
  BY <1>1, <1>2, <1>3, <1>4, <1>5, <1>6, <1>7, <1>8, <1>9, <1>10, <1>11

LEMMA UserWork ==
  ASSUME TypeOK, Work, NEW u \in User, UserRequest(u)
  PROVE  Work'
<1>1. CASE ArchiveAll(u)
  BY <1>1 DEF ArchiveAll, Request, Work
<1>2. CASE DeleteAllChats(u)
  <2>1. /\ op' = "deleteAll" /\ who' = u /\ todo' = <<<<"uncopy", ChatsOf(u)>>, <<"deleteAll", u>>>>
        /\ UNCHANGED chat
        /\ "bulk" \notin slips' => \A c \in ChatsOf(u) : chat[c].tags = {}
    BY <1>2 DEF DeleteAllChats, Request, Slip
  <2>2. ChatsOf(who)' = ChatsOf(u)
    BY <2>1 DEF ChatsOf, Chats
  <2>3. DeletingAll'
    BY <2>1, <2>2 DEF DeletingAll
  <2> QED
    BY <2>3 DEF Work
<1>3. ASSUME NEW c \in Chat, NEW f \in Folder \cup {None}, CreateNewChat(u, c, f)
      PROVE  Work'
  BY <1>3 DEF CreateNewChat, Request, Work
<1>4. ASSUME NEW c \in Chat, NEW f \in Folder \cup {None}, NEW ts \in SUBSET Tag, ImportChat(u, c, f, ts)
      PROVE  Work'
  <2> DEFINE row == [user |-> u, folder |-> f, tags |-> ts, archived |-> FALSE, shared |-> FALSE]
  <2>1. op' = "import" /\ who' = u /\ chat' = [chat EXCEPT ![c] = row] /\ todo' \in All("insertTag", ts)
    BY <1>4 DEF ImportChat, Request, Insert
  <2>2. IsFiniteSet(ts)
    BY LibraryAssumption, FS_Subset
  <2>3. todo' \in Seq({"insertTag"} \X ts)
    BY <2>1, <2>2, AllFacts
  <2>4. row \in ChatRow /\ row.user = u /\ row.tags = ts /\ row.archived = FALSE
    BY DEF ChatRow
  <2>5. chat'[c] = row
    BY <2>1 DEF TypeOK
  <2>6. c \in Chats'
    BY <2>4, <2>5, Rows DEF Chats
  <2>7. ts \subseteq InUse'
    <3> HIDE DEF row
    <3> QED
      BY <2>1, <2>4, <2>5, <2>6 DEF InUse, Holders, ChatsOf
  <2>8. todo' \in Seq({"insertTag"} \X InUse')
    BY <2>3, <2>7, Wider
  <2>9. Inserting'
    BY <2>1, <2>8 DEF Inserting
  <2> QED
    BY <2>9 DEF Work
<1>5. ASSUME NEW f \in Folder, NEW n \in Name, AskFolder(u, f, n)
      PROVE  Work'
  BY <1>5, WorkFrame DEF AskFolder
<1> QED
  BY <1>1, <1>2, <1>3, <1>4, <1>5 DEF UserRequest

Typed == TypeOK /\ Work

LEMMA TypedStep ==
  ASSUME Typed, [Next]_vars
  PROVE  Typed'
<1>1. TypeOK /\ Work /\ TypeOK'
  BY TypeStep DEF Typed
<1>2. CASE UNCHANGED vars
  BY <1>1, <1>2, WorkFrame DEF vars, Typed
<1>3. ASSUME NEW c \in Chat, ChatRequest(c)
      PROVE  Typed'
  BY <1>1, <1>3, RequestWork DEF Typed
<1>4. ASSUME NEW u \in User, UserRequest(u)
      PROVE  Typed'
  BY <1>1, <1>4, UserWork DEF Typed
<1>5. ASSUME NEW f \in Folder, FolderRequest(f)
      PROVE  Typed'
  <2>1. CASE DeleteFolder(f)
    <3>1. op' = "deleteFolder" /\ todo' = <<<<"children", f, {}>>, <<"empty", f>>>>
      BY <2>1 DEF DeleteFolder, Request
    <3>2. <<"children", f, {}>> \in FolderSteps /\ <<"empty", f>> \in FolderSteps
      BY DEF FolderSteps
    <3>3. todo' \in Seq(FolderSteps)
      BY <3>1, <3>2
    <3>4. Emptying'
      BY <3>1, <3>3 DEF Emptying, FolderSteps
    <3> QED
      BY <1>1, <3>4 DEF Typed, Work
  <2>2. ASSUME NEW n \in Name, RenameFolder(f, n)
        PROVE  Typed'
    BY <1>1, <2>2 DEF RenameFolder, Request, Typed, Work
  <2>3. ASSUME NEW p \in Folder \cup {None}, MoveFolder(f, p)
        PROVE  Typed'
    BY <1>1, <2>3 DEF MoveFolder, Request, Typed, Work
  <2> QED
    BY <1>5, <2>1, <2>2, <2>3 DEF FolderRequest
<1>6. ASSUME NEW k \in creating, CreateFolder(k)
      PROVE  Typed'
  BY <1>1, <1>6, WorkFrame DEF CreateFolder, Race, Slip, Typed
<1>7. CASE InsertTag \/ EnsureTag \/ AddChatTag \/ Prune \/ DeleteRow \/ DeleteRows \/ DeleteCopies
             \/ SetShareId \/ GetChildren \/ RemoveFolder \/ EmptyFolder
  <2>1. todo # <<>>
    BY <1>7 DEF InsertTag, EnsureTag, AddChatTag, Prune, DeleteRow, DeleteRows, DeleteCopies,
                SetShareId, GetChildren, RemoveFolder, EmptyFolder, Pending
  <2> QED
    BY <1>1, <1>7, <2>1, RestWork DEF Typed
<1>8. CASE Crash
  BY <1>1, <1>8 DEF Crash, Typed, Work
<1> QED
  BY <1>2, <1>3, <1>4, <1>5, <1>6, <1>7, <1>8 DEF Next, Rest

LEMMA TypedInit == Init => Typed
<1>1. ASSUME Init
      PROVE  TypeOK
  BY <1>1, LibraryAssumption DEF Init, TypeOK
<1> QED
  BY <1>1 DEF Init, Typed, Work

(* Rows, copies and the steps that are left have their types, and the one  *)
(* who is served is a user.                                                *)
THEOREM TypeCorrect == Spec => []TypeOK
<1>1. Spec => []Typed
  BY TypedInit, TypedStep, PTL DEF Spec
<1>2. Typed => TypeOK
  BY DEF Typed
<1> QED
  BY <1>1, <1>2, PTL

-----------------------------------------------------------------------------
(* Copies.                                                                 *)
CopySlips == {"share", "unshare", "delete", "deleteAll", "left"}

LEMMA AllMatch ==
  ASSUME Work, \A c \in Chat : Copied(c),
         todo # <<>> => Head(todo)[1] \notin {"link", "uncopy", "deleteAll"}
  PROVE  \A c \in Chat : Matches(c)
<1> SUFFICES ASSUME NEW c \in Chat, ~Matches(c)
             PROVE  FALSE
  OBVIOUS
<1>1. Copied(c)
  OBVIOUS
<1>2. ASSUME NEW b \in BOOLEAN, todo = <<<<"link", c, b>>>>
      PROVE  FALSE
  <2>1. todo # <<>> /\ Head(todo) = <<"link", c, b>>
    BY <1>2, OneLeft
  <2> QED
    BY <2>1
<1>3. CASE Deleting(c) /\ c \notin Chats
  <2>1. todo # <<>> /\ op = "delete" /\ todo[Len(todo)] = <<"uncopy", {c}>>
    BY <1>3 DEF Deleting
  <2>2. PICK d \in Chat : DeletionWork(d)
    BY <2>1 DEF Work, Inserting, Pruning, Adding, Linking, Sharing, Unsharing, DeletingAll, Emptying
  <2>3. <<"uncopy", {c}>> = <<"uncopy", {d}>>
    BY <2>1, <2>2 DEF DeletionWork
  <2>4. {c} = {d}
    BY <2>3
  <2>5. c = d
    BY <2>4
  <2>6. Len(todo) = 1
    <3>1. c \notin ChatsOf(who)
      BY <1>3 DEF ChatsOf
    <3>2. Len(todo) \in Nat \ {0}
      BY <2>2, DeletionHead
    <3>3. Len(todo) # 2 /\ ~(Len(todo) > 2)
      BY <2>2, <2>5, <3>1, DeletionHead
    <3>4. \A n \in Nat \ {0} : n = 1 \/ n = 2 \/ n > 2
      OBVIOUS
    <3> QED
      BY <3>2, <3>3, <3>4, Zenon
  <2>7. Head(todo) = <<"uncopy", {d}>>
    BY <2>2, <2>6, DeletionHead
  <2> QED
    BY <2>1, <2>7
<1>4. CASE todo = <<<<"deleteAll", who>>>>
  <2>1. todo # <<>> /\ Head(todo) = <<"deleteAll", who>>
    BY <1>4, OneLeft
  <2> QED
    BY <2>1
<1> QED
  BY <1>1, <1>2, <1>3, <1>4 DEF Copied

LEMMA CopyInitially == Init => CopyInv
<1> SUFFICES ASSUME Init
             PROVE  \A c \in Chat : Matches(c)
  BY DEF CopyInv, Copied
<1> QED
  BY DEF Init, Matches, Chats

(* A request, before which every copy matches.                             *)
LEMMA CopyRequest ==
  ASSUME TypeOK, \A c \in Chat : Matches(c), NEW c \in Chat, ChatRequest(c)
  PROVE  \A d \in Chat : Copied(d)'
<1>0. chat \in [Chat -> ChatRow \cup {Null, Gone}] /\ \A r \in ChatRow : r # Null /\ r # Gone
  BY Rows DEF TypeOK
<1>r. \A d \in Chats : chat[d] \in ChatRow /\ d \in Chat
  BY Rows
<1>1. CASE DeleteChat(c) \/ UnshareChat(c) \/ \E t \in Tag : AddTag(c, t)
  <2>1. chat' = chat /\ copy' = copy
    BY <1>1 DEF DeleteChat, UnshareChat, AddTag
  <2> QED
    BY <2>1 DEF Copied, Matches, Chats
<1>2. ASSUME NEW r \in ChatRow, chat' = [chat EXCEPT ![c] = r], c \in Chats, r.shared = chat[c].shared, copy' = copy
      PROVE  \A d \in Chat : Copied(d)'
  <2>1. \A d \in Chat : chat'[d] = IF d = c THEN r ELSE chat[d]
    BY <1>0, <1>2
  <2>2. \A d \in Chat : Matches(d)'
    BY <2>1, <1>0, <1>2 DEF Matches, Chats
  <2> QED
    BY <2>2 DEF Copied
<1>3. CASE DeleteAllTags(c) \/ (\E ts \in SUBSET Tag : UpdateTags(c, ts))
  <2>1. c \in Chats /\ chat' = [chat EXCEPT ![c] = [chat[c] EXCEPT !.tags = {}]] /\ copy' = copy
    BY <1>3 DEF DeleteAllTags, UpdateTags
  <2>2. [chat[c] EXCEPT !.tags = {}] \in ChatRow /\ [chat[c] EXCEPT !.tags = {}].shared = chat[c].shared
    BY <2>1, <1>r DEF ChatRow
  <2> QED
    BY <2>1, <2>2, <1>2
<1>4. ASSUME NEW t \in Tag, RemoveTag(c, t)
      PROVE  \A d \in Chat : Copied(d)'
  <2>1. c \in Chats /\ chat' = [chat EXCEPT ![c] = [chat[c] EXCEPT !.tags = @ \ {t}]] /\ copy' = copy
    BY <1>4 DEF RemoveTag
  <2>2. [chat[c] EXCEPT !.tags = @ \ {t}] \in ChatRow /\ [chat[c] EXCEPT !.tags = @ \ {t}].shared = chat[c].shared
    BY <2>1, <1>r DEF ChatRow
  <2> QED
    BY <2>1, <2>2, <1>2
<1>5. CASE ArchiveChat(c)
  <2>1. c \in Chats /\ chat' = [chat EXCEPT ![c] = [chat[c] EXCEPT !.archived = ~@]] /\ copy' = copy
    BY <1>5 DEF ArchiveChat
  <2>2. [chat[c] EXCEPT !.archived = ~@] \in ChatRow /\ [chat[c] EXCEPT !.archived = ~@].shared = chat[c].shared
    BY <2>1, <1>r DEF ChatRow
  <2> QED
    BY <2>1, <2>2, <1>2
<1>6. ASSUME NEW f \in Folder \cup {None}, MoveChat(c, f)
      PROVE  \A d \in Chat : Copied(d)'
  <2>1. c \in Chats /\ chat' = [chat EXCEPT ![c] = [chat[c] EXCEPT !.folder = f]] /\ copy' = copy
    BY <1>6 DEF MoveChat
  <2>2. [chat[c] EXCEPT !.folder = f] \in ChatRow /\ [chat[c] EXCEPT !.folder = f].shared = chat[c].shared
    BY <2>1, <1>r DEF ChatRow
  <2> QED
    BY <2>1, <2>2, <1>2
<1>7. CASE ShareChat(c) \/ ShareAgain(c)
  <2>1. /\ c \in Chats /\ chat' = chat /\ copy' = [copy EXCEPT ![c] = CopyOf(c)] /\ op' = "share"
        /\ todo' = <<<<"link", c, TRUE>>>> \/ chat[c].shared
    BY <1>7 DEF ShareChat, ShareAgain, Request
  <2>2. CopyOf(c) # Null
    BY <2>1, Rows DEF CopyOf, CopyRow
  <2>3. \A d \in Chat : copy'[d] = IF d = c THEN CopyOf(c) ELSE copy[d]
    BY <2>1 DEF TypeOK
  <2>4. \A d \in Chat : d # c => Matches(d)'
    BY <2>1, <2>3 DEF Matches, Chats
  <2>5. CASE todo' = <<<<"link", c, TRUE>>>>
    BY <2>1, <2>4, <2>5 DEF Copied
  <2>6. CASE chat[c].shared
    <3>1. Matches(c)'
      BY <2>1, <2>2, <2>3, <2>6 DEF Matches, Chats
    <3> QED
      BY <2>4, <3>1 DEF Copied
  <2> QED
    BY <2>1, <2>5, <2>6
<1>8. ASSUME NEW new \in Chat, NEW u \in User, NEW row, Clone(u, new, row)
      PROVE  \A d \in Chat : Copied(d)'
  <2> DEFINE r == [user |-> u, folder |-> row.folder, tags |-> row.tags, archived |-> FALSE, shared |-> FALSE]
  <2>1. chat[new] = Null /\ chat' = [chat EXCEPT ![new] = r] /\ copy' = copy
    BY <1>8 DEF Clone, Insert
  <2>2. \A d \in Chat : chat'[d] = IF d = new THEN r ELSE chat[d]
    BY <2>1, <1>0
  <2>3. r.shared = FALSE /\ copy[new] = Null
    BY <2>1 DEF Matches, Chats
  <2>4. \A d \in Chat : Matches(d)'
    <3> HIDE DEF r
    <3> QED
      BY <2>1, <2>2, <2>3 DEF Matches, Chats
  <2> QED
    BY <2>4 DEF Copied
<1>9. ASSUME NEW new \in Chat, CloneChat(c, new) \/ \E u \in User : CloneSharedChat(u, c, new)
      PROVE  \A d \in Chat : Copied(d)'
  <2>1. c \in Chats => chat[c].user \in User
    BY Rows
  <2> QED
    BY <1>9, <2>1, <1>8 DEF CloneChat, CloneSharedChat
<1> QED
  BY <1>1, <1>3, <1>4, <1>5, <1>6, <1>7, <1>9 DEF ChatRequest

LEMMA CopyUser ==
  ASSUME TypeOK, \A c \in Chat : Matches(c), NEW u \in User, UserRequest(u), todo = <<>>
  PROVE  \A d \in Chat : Copied(d)'
<1>0. chat \in [Chat -> ChatRow \cup {Null, Gone}] /\ \A r \in ChatRow : r # Null /\ r # Gone
  BY Rows DEF TypeOK
<1>1. CASE ArchiveAll(u)
  <2>1. \A d \in ChatsOf(u) : LET r == [chat[d] EXCEPT !.archived = TRUE] IN r \in ChatRow /\ r.shared = chat[d].shared
    <3>1. \A d \in ChatsOf(u) : chat[d] \in ChatRow
      BY Rows DEF ChatsOf
    <3> QED
      BY <3>1 DEF ChatRow
  <2>2. copy' = copy /\ \A d \in Chat : chat'[d] = IF d \in ChatsOf(u) THEN [chat[d] EXCEPT !.archived = TRUE] ELSE chat[d]
    BY <1>1 DEF ArchiveAll
  <2>3. \A d \in Chat : Matches(d)'
    BY <2>1, <2>2, <1>0 DEF Matches, Chats, ChatsOf
  <2> QED
    BY <2>3 DEF Copied
<1>2. CASE DeleteAllChats(u)
  <2>1. UNCHANGED <<chat, copy>>
    BY <1>2 DEF DeleteAllChats
  <2> QED
    BY <2>1 DEF Copied, Matches, Chats
<1>3. ASSUME NEW c \in Chat, NEW f \in Folder \cup {None}, NEW ts \in SUBSET Tag, Insert(u, c, f, ts), copy' = copy
      PROVE  \A d \in Chat : Copied(d)'
  <2> DEFINE r == [user |-> u, folder |-> f, tags |-> ts, archived |-> FALSE, shared |-> FALSE]
  <2>1. \A d \in Chat : chat'[d] = IF d = c THEN r ELSE chat[d]
    BY <1>3, <1>0 DEF Insert
  <2>2. r.shared = FALSE /\ copy[c] = Null
    BY <1>3 DEF Insert, Matches, Chats
  <2>3. \A d \in Chat : Matches(d)'
    <3> HIDE DEF r
    <3> QED
      BY <2>1, <2>2, <1>3 DEF Matches, Chats
  <2> QED
    BY <2>3 DEF Copied
<1>4. ASSUME NEW c \in Chat, NEW f \in Folder \cup {None}, CreateNewChat(u, c, f)
      PROVE  \A d \in Chat : Copied(d)'
  BY <1>3, <1>4 DEF CreateNewChat
<1>5. ASSUME NEW c \in Chat, NEW f \in Folder \cup {None}, NEW ts \in SUBSET Tag, ImportChat(u, c, f, ts)
      PROVE  \A d \in Chat : Copied(d)'
  BY <1>3, <1>5 DEF ImportChat
<1>6. ASSUME NEW f \in Folder, NEW n \in Name, AskFolder(u, f, n)
      PROVE  \A d \in Chat : Copied(d)'
  <2>1. UNCHANGED <<chat, copy>>
    BY <1>6 DEF AskFolder
  <2> QED
    BY <2>1 DEF Copied, Matches, Chats
<1> QED
  BY <1>1, <1>2, <1>4, <1>5, <1>6 DEF UserRequest

LEMMA CopyStep ==
  ASSUME Typed, CopyInv, [Next]_vars
  PROVE  CopyInv'
<1> SUFFICES ASSUME slips' \cap CopySlips = {}
             PROVE  \A d \in Chat : Copied(d)'
  BY DEF CopyInv, CopySlips
<1>t. TypeOK /\ Work
  BY DEF Typed
<1>0. chat \in [Chat -> ChatRow \cup {Null, Gone}] /\ \A r \in ChatRow : r # Null /\ r # Gone
  BY <1>t, Rows DEF TypeOK
<1>a. ASSUME slips \subseteq slips'
      PROVE  \A c \in Chat : Copied(c)
  BY <1>a DEF CopyInv, CopySlips
<1>q. ASSUME slips \subseteq slips', todo = <<>>
      PROVE  \A c \in Chat : Matches(c)
  BY <1>a, <1>q, <1>t, AllMatch
<1>1. ASSUME UNCHANGED <<chat, copy, todo, op, who>>, slips \subseteq slips'
      PROVE  \A d \in Chat : Copied(d)'
  <2>1. \A d \in Chat : Copied(d)
    BY <1>1, <1>a
  <2>2. \A d \in Chat : Matches(d)' = Matches(d) /\ Deleting(d)' = Deleting(d)
    BY <1>1 DEF Matches, Deleting, Chats
  <2>3. ChatsOf(who)' = ChatsOf(who) /\ Chats' = Chats
    BY <1>1 DEF ChatsOf, Chats
  <2> QED
    BY <1>1, <2>1, <2>2, <2>3 DEF Copied
<1>2. CASE UNCHANGED vars
  BY <1>1, <1>2 DEF vars
<1>3. ASSUME NEW c \in Chat, ChatRequest(c)
      PROVE  \A d \in Chat : Copied(d)'
  <2>1. todo = <<>> /\ slips \subseteq slips'
    BY <1>3 DEF ChatRequest, DeleteAllTags, ArchiveChat, DeleteChat, ShareChat, ShareAgain, UnshareChat, MoveChat,
                AddTag, RemoveTag, UpdateTags, CloneChat, CloneSharedChat, Clone, Request, Slip
  <2> QED
    BY <1>3, <1>q, <1>t, <2>1, CopyRequest
<1>4. ASSUME NEW u \in User, UserRequest(u)
      PROVE  \A d \in Chat : Copied(d)'
  <2>1. CASE \E f \in Folder, n \in Name : AskFolder(u, f, n)
    BY <2>1, <1>1 DEF AskFolder
  <2>2. CASE ~\E f \in Folder, n \in Name : AskFolder(u, f, n)
    <3>1. todo = <<>> /\ slips \subseteq slips'
      BY <1>4, <2>2 DEF UserRequest, ArchiveAll, DeleteAllChats, CreateNewChat, ImportChat, Request, Slip
    <3> QED
      BY <1>4, <1>q, <1>t, <3>1, CopyUser
  <2> QED
    BY <2>1, <2>2
<1>5. ASSUME NEW f \in Folder, FolderRequest(f)
      PROVE  \A d \in Chat : Copied(d)'
  <2>1. todo = <<>> /\ slips \subseteq slips' /\ UNCHANGED <<chat, copy>>
    BY <1>5 DEF FolderRequest, RenameFolder, MoveFolder, DeleteFolder, Request, Race, Slip
  <2>2. \A d \in Chat : Matches(d)
    BY <1>q, <2>1
  <2> QED
    BY <2>1, <2>2 DEF Copied, Matches, Chats
<1>6. ASSUME NEW k \in creating, CreateFolder(k)
      PROVE  \A d \in Chat : Copied(d)'
  BY <1>6, <1>1 DEF CreateFolder, Race, Slip
<1>7. CASE InsertTag \/ EnsureTag \/ Prune \/ GetChildren \/ RemoveFolder
  <2>1. UNCHANGED <<chat, copy, slips>> /\ Head(todo)[1] \notin {"link", "uncopy", "deleteAll"}
    BY <1>7 DEF InsertTag, EnsureTag, Prune, GetChildren, RemoveFolder, Pending
  <2>2. \A d \in Chat : Matches(d)
    BY <1>a, <1>t, <2>1, AllMatch
  <2> QED
    BY <2>1, <2>2 DEF Copied, Matches, Chats
<1>8. CASE AddChatTag
  <2>1. /\ copy' = copy /\ slips' = slips /\ Head(todo)[1] = "tag"
        /\ chat' = [chat EXCEPT ![Arg] = [chat[Arg] EXCEPT !.tags = @ \cup {Arg2}]] /\ Linking
    BY <1>8, <1>t, Heads DEF AddChatTag, Pending
  <2>2. PICK c \in Tagged, t \in Tag : Head(todo) = <<"tag", c, t>>
    BY <2>1 DEF Linking
  <2>3. Arg = c /\ Arg2 = t /\ c \in Chats /\ c \in Chat /\ chat[c] \in ChatRow
    BY <1>t, <2>2, Rows DEF Arg, Arg2, Tagged, ChatsOf
  <2> DEFINE r == [chat[c] EXCEPT !.tags = @ \cup {t}]
  <2>4. r \in ChatRow /\ r.shared = chat[c].shared
    BY <2>3 DEF ChatRow
  <2>5. \A d \in Chat : chat'[d] = IF d = c THEN r ELSE chat[d]
    BY <2>1, <2>3, <1>0
  <2>6. \A d \in Chat : Matches(d)
    BY <1>a, <1>t, <2>1, AllMatch
  <2>7. \A d \in Chat : Matches(d)'
    <3> HIDE DEF r
    <3> QED
      BY <2>1, <2>3, <2>4, <2>5, <2>6, <1>0 DEF Matches, Chats
  <2> QED
    BY <2>7 DEF Copied
<1>9. CASE DeleteRow
  <2>1. PICK c \in Chat : DeletionWork(c) /\ Len(todo) = 2
    BY <1>9, <1>t, Heads DEF DeleteRow
  <2>2. Head(todo) = <<"delete", c>> /\ todo[2] = <<"uncopy", {c}>> /\ op = "delete" /\ todo \in Seq(DeletionSteps) /\ todo # <<>>
    BY <2>1, DeletionHead DEF DeletionWork
  <2>3. Arg = c
    BY <2>2 DEF Arg
  <2>4. todo' = Tail(todo) /\ chat' = [chat EXCEPT ![c] = Gone] /\ UNCHANGED <<copy, op, who, slips>>
    BY <1>9, <2>3 DEF DeleteRow, Done
  <2>5. \A d \in Chat : Matches(d)
    BY <1>a, <1>t, <2>2, <2>4, AllMatch
  <2>6. \A d \in Chat : chat'[d] = IF d = c THEN Gone ELSE chat[d]
    BY <2>4, <1>0
  <2>7. c \notin Chats' /\ \A d \in Chat : d # c => Matches(d)'
    BY <2>4, <2>5, <2>6 DEF Matches, Chats
  <2>8. Deleting(c)'
    <3>1. todo' \in Seq(DeletionSteps) /\ Len(todo') = 2 - 1 /\ \A i \in 1..2 - 1 : todo'[i] = todo[i + 1]
      BY <2>1, <2>2, <2>4, TailFacts
    <3>2. 1 \in 1..2 - 1
      OBVIOUS
    <3>3. Len(todo') = 1 /\ todo'[1] = <<"uncopy", {c}>>
      BY <3>1, <3>2, <2>2
    <3>4. todo' # <<>>
      BY <3>1, <3>3
    <3> QED
      BY <2>2, <2>4, <3>3, <3>4 DEF Deleting
  <2> QED
    BY <2>7, <2>8 DEF Copied
<1>10. CASE DeleteRows
  <2>1. /\ todo = <<<<"deleteAll", who>>>> /\ \A c \in ChatsOf(who) : copy[c] = Null
        /\ op = "deleteAll"
    <3>1. DeletingAll
      BY <1>10, <1>t, Heads DEF DeleteRows
    <3>2. CASE todo = <<<<"uncopy", ChatsOf(who)>>, <<"deleteAll", who>>>>
      <4>1. Head(todo) = <<"uncopy", ChatsOf(who)>>
        BY <3>2, TwoLeft
      <4> QED
        BY <1>10, <4>1 DEF DeleteRows, Pending
    <3> QED
      BY <3>1, <3>2 DEF DeletingAll
  <2>2. Head(todo) = <<"deleteAll", who>>
    BY <2>1, OneLeft
  <2>3. Arg = who
    BY <2>2 DEF Arg
  <2>4. UNCHANGED <<copy, slips>> /\ \A d \in Chat : chat'[d] = IF d \in ChatsOf(who) THEN Gone ELSE chat[d]
    BY <1>10, <2>3 DEF DeleteRows
  <2>5. \A d \in Chat : d \notin ChatsOf(who) => Matches(d)
    <3>1. \A d \in Chat : Copied(d)
      BY <1>a, <2>4
    <3>2. \A d \in Chat, b \in BOOLEAN : <<<<"link", d, b>>>> # todo
      <4> SUFFICES ASSUME NEW d \in Chat, NEW b \in BOOLEAN, todo = <<<<"link", d, b>>>>
                   PROVE  FALSE
        OBVIOUS
      <4>1. Head(todo) = <<"link", d, b>>
        BY OneLeft
      <4> QED
        BY <4>1, <2>2
    <3> QED
      BY <2>1, <3>1, <3>2 DEF Copied, Deleting
  <2>6. \A d \in Chat : Matches(d)'
    BY <2>1, <2>4, <2>5 DEF Matches, Chats, ChatsOf
  <2> QED
    BY <2>6 DEF Copied
<1>11. CASE DeleteCopies
  <2>1. /\ todo' = Tail(todo) /\ UNCHANGED <<chat, op, who, slips>> /\ Pending("uncopy")
        /\ \A d \in Chat : copy'[d] = IF d \in Arg THEN Null ELSE copy[d]
    BY <1>11 DEF DeleteCopies, Done
  <2>c. \A d \in Chat : Copied(d)
    BY <1>a, <2>1
  <2>l. \A d \in Chat, b \in BOOLEAN : todo # <<<<"link", d, b>>>>
    <3> SUFFICES ASSUME NEW d \in Chat, NEW b \in BOOLEAN, todo = <<<<"link", d, b>>>>
                 PROVE  FALSE
      OBVIOUS
    <3>1. Head(todo) = <<"link", d, b>>
      BY OneLeft
    <3> QED
      BY <3>1, <2>1 DEF Pending
  <2>d. todo # <<<<"deleteAll", who>>>>
    <3> SUFFICES ASSUME todo = <<<<"deleteAll", who>>>>
                 PROVE  FALSE
      OBVIOUS
    <3>1. Head(todo) = <<"deleteAll", who>>
      BY OneLeft
    <3> QED
      BY <3>1, <2>1 DEF Pending
  <2>m. \A d \in Chat : Matches(d) \/ (Deleting(d) /\ d \notin Chats)
    BY <2>c, <2>l, <2>d DEF Copied
  <2>2. ASSUME NEW c \in Chat, DeletionWork(c), Len(todo) = 1
        PROVE  \A d \in Chat : Copied(d)'
    <3>1. Head(todo) = <<"uncopy", {c}>> /\ c \notin Chats
      BY <2>2, DeletionHead
    <3>2. Arg = {c}
      BY <3>1 DEF Arg
    <3>3. \A d \in Chat : Deleting(d) => d = c
      <4> SUFFICES ASSUME NEW d \in Chat, Deleting(d)
                   PROVE  d = c
        OBVIOUS
      <4>1. <<"uncopy", {d}>> = <<"uncopy", {c}>>
        BY <2>2 DEF Deleting, DeletionWork
      <4>2. {d} = {c}
        BY <4>1
      <4> QED
        BY <4>2
    <3>4. \A d \in Chat : d # c => Matches(d)
      BY <2>m, <3>3
    <3>5. \A d \in Chat : Matches(d)'
      BY <2>1, <3>1, <3>2, <3>4 DEF Matches, Chats
    <3> QED
      BY <3>5 DEF Copied
  <2>3. CASE Unsharing
    <3>1. \A d \in Chat : Matches(d)
      BY <2>3, <2>m DEF Unsharing, Deleting
    <3>2. PICK c \in Chats : \/ todo = <<<<"uncopy", {c}>>, <<"link", c, FALSE>>>>
                            \/ todo = <<<<"link", c, FALSE>>>>
      BY <2>3 DEF Unsharing
    <3>3. c \in Chat
      BY DEF Chats
    <3>4. todo = <<<<"uncopy", {c}>>, <<"link", c, FALSE>>>>
      BY <3>2, <3>3, <2>l
    <3>5. Head(todo) = <<"uncopy", {c}>> /\ Tail(todo) = <<<<"link", c, FALSE>>>>
      BY <3>4, TwoLeft
    <3>6. Arg = {c}
      BY <3>5 DEF Arg
    <3>9. todo' = <<<<"link", c, FALSE>>>> /\ op' = "unshare"
      BY <3>5, <2>1, <2>3 DEF Unsharing
    <3>7. \A d \in Chat : d # c => Matches(d)'
      BY <2>1, <3>1, <3>6 DEF Matches, Chats
    <3>8. Copied(c)'
      <4>1. \E b \in BOOLEAN : todo' = <<<<"link", c, b>>>>
        BY <3>9
      <4> QED
        BY <3>9, <4>1 DEF Copied
    <3> QED
      BY <3>7, <3>8 DEF Copied
  <2>4. CASE DeletingAll
    <3>1. \A d \in Chat : Matches(d)
      BY <2>4, <2>m DEF DeletingAll, Deleting
    <3>2. todo = <<<<"uncopy", ChatsOf(who)>>, <<"deleteAll", who>>>> /\ op = "deleteAll"
      BY <2>4, <2>d DEF DeletingAll
    <3>3. Head(todo) = <<"uncopy", ChatsOf(who)>> /\ Tail(todo) = <<<<"deleteAll", who>>>>
      BY <3>2, TwoLeft
    <3>4. Arg = ChatsOf(who) /\ todo' = <<<<"deleteAll", who'>>>> /\ op' = "deleteAll" /\ ChatsOf(who)' = ChatsOf(who)
      BY <3>2, <3>3, <2>1 DEF Arg, ChatsOf, Chats
    <3>5. \A d \in Chat : d \notin ChatsOf(who) => Matches(d)'
      BY <2>1, <3>1, <3>4 DEF Matches, Chats
    <3> QED
      BY <3>4, <3>5 DEF Copied
  <2> QED
    BY <1>t, <2>1, <2>2, <2>3, <2>4, Heads
<1>12. CASE SetShareId
  <2>1. /\ todo' = Tail(todo) /\ UNCHANGED <<copy, op, who, slips>> /\ Pending("link")
        /\ chat' = [chat EXCEPT ![Arg] = [chat[Arg] EXCEPT !.shared = Arg2]]
    BY <1>12 DEF SetShareId, Done
  <2>c. \A d \in Chat : Copied(d)
    BY <1>a, <2>1
  <2>2. ASSUME NEW c \in Chats, NEW b \in BOOLEAN, todo = <<<<"link", c, b>>>>, op \in {"share", "unshare"}, copy[c] # Null <=> b
        PROVE  \A d \in Chat : Copied(d)'
    <3>1. Head(todo) = <<"link", c, b>> /\ todo # <<>>
      BY <2>2, OneLeft
    <3>2. Arg = c /\ Arg2 = b
      BY <3>1, Triple, Zenon DEF Arg, Arg2
    <3> DEFINE r == [chat[c] EXCEPT !.shared = b]
    <3>3. c \in Chat /\ chat[c] \in ChatRow
      BY <1>t, Rows
    <3>4. r \in ChatRow /\ (r.shared <=> b)
      BY <3>3 DEF ChatRow
    <3>5. \A d \in Chat : chat'[d] = IF d = c THEN r ELSE chat[d]
      BY <2>1, <3>2, <3>3, <1>0
    <3>6. \A d \in Chat : d # c => Matches(d)
      <4> SUFFICES ASSUME NEW d \in Chat, d # c
                   PROVE  Matches(d)
        OBVIOUS
      <4>1. \A a \in BOOLEAN : todo # <<<<"link", d, a>>>>
        <5> SUFFICES ASSUME NEW a \in BOOLEAN, todo = <<<<"link", d, a>>>>
                     PROVE  FALSE
          OBVIOUS
        <5>1. Head(todo) = <<"link", d, a>>
          BY OneLeft
        <5>2. Arg = d
          BY <5>1, Triple, Zenon DEF Arg
        <5> QED
          BY <5>2, <3>2
      <4> QED
        BY <2>2, <2>c, <4>1 DEF Copied, Deleting
    <3>7. \A d \in Chat : Matches(d)'
      <4> HIDE DEF r
      <4>1. \A d \in Chat : d # c => Matches(d)'
        BY <2>1, <3>5, <3>6 DEF Matches, Chats
      <4>2. Matches(c)'
        BY <2>1, <2>2, <3>3, <3>4, <3>5, <1>0 DEF Matches, Chats
      <4> QED
        BY <4>1, <4>2
    <3> QED
      BY <3>7 DEF Copied
  <2>3. CASE Sharing
    <3>1. PICK c \in Chats : todo = <<<<"link", c, TRUE>>>> /\ copy[c] # Null /\ op = "share"
      BY <2>3 DEF Sharing
    <3> QED
      BY <3>1, <2>2
  <2>4. CASE Unsharing
    <3>1. PICK c \in Chats : \/ todo = <<<<"uncopy", {c}>>, <<"link", c, FALSE>>>>
                            \/ (todo = <<<<"link", c, FALSE>>>> /\ copy[c] = Null)
      BY <2>4 DEF Unsharing
    <3>2. CASE todo = <<<<"uncopy", {c}>>, <<"link", c, FALSE>>>>
      <4>1. Head(todo) = <<"uncopy", {c}>>
        BY <3>2, TwoLeft
      <4> QED
        BY <2>1, <4>1 DEF Pending
    <3>3. CASE todo = <<<<"link", c, FALSE>>>> /\ copy[c] = Null
      BY <2>4, <3>3, <2>2 DEF Unsharing
    <3> QED
      BY <3>1, <3>2, <3>3
  <2> QED
    BY <1>t, <2>1, <2>3, <2>4, Heads
<1>13. CASE EmptyFolder
  <2> DEFINE S == {c \in ChatsOf(who) : chat[c].folder = Arg}
  <2>1. /\ copy' = copy /\ slips \subseteq slips' /\ ((\E c \in S : chat[c].shared) => "left" \in slips')
        /\ \A d \in Chat : chat'[d] = IF d \in S THEN Gone ELSE chat[d]
        /\ Head(todo)[1] = "empty"
    BY <1>13 DEF EmptyFolder, Pending
  <2>2. \A d \in Chat : Matches(d)
    BY <1>a, <1>t, <2>1, AllMatch
  <2>3. \A d \in S : ~chat[d].shared /\ d \in Chats
    BY <2>1 DEF CopySlips, ChatsOf
  <2>4. \A d \in Chat : Matches(d)'
    <3> HIDE DEF S
    <3> QED
      BY <2>1, <2>2, <2>3 DEF Matches, Chats
  <2> QED
    BY <2>4 DEF Copied
<1>14. CASE Crash
  <2>1. UNCHANGED <<chat, copy>> /\ slips \subseteq slips' /\ (todo # <<>> => op \in slips')
    BY <1>14 DEF Crash, Slip
  <2>2. op \notin {"share", "unshare", "delete", "deleteAll"} \/ todo = <<>>
    BY <2>1 DEF CopySlips
  <2>3. \A d \in Chat : Matches(d)
    <3>1. CASE todo = <<>>
      BY <1>q, <2>1, <3>1
    <3>2. CASE op \notin {"share", "unshare", "delete", "deleteAll"}
      BY <1>a, <2>1, <3>2 DEF Copied, Deleting
    <3> QED
      BY <2>2, <3>1, <3>2
  <2> QED
    BY <2>1, <2>3 DEF Copied, Matches, Chats
<1> QED
  BY <1>2, <1>3, <1>4, <1>5, <1>6, <1>7, <1>8, <1>9, <1>10, <1>11, <1>12, <1>13, <1>14 DEF Next, Rest

(* CopiesMatch: a chat is shared exactly if there is a copy of it, except  *)
(* while a handler is at it, after a crash in the middle of one, and after *)
(* the folder of a shared chat was deleted.                                *)
THEOREM SharedAreCopied == Spec => []CopiesMatch
<1>1. Spec => [](Typed /\ CopyInv)
  <2>1. Init => Typed /\ CopyInv
    BY TypedInit, CopyInitially
  <2>2. Typed /\ CopyInv /\ [Next]_vars => (Typed /\ CopyInv)'
    BY TypedStep, CopyStep
  <2> QED
    BY <2>1, <2>2, PTL DEF Spec
<1>2. Typed /\ CopyInv => CopiesMatch
  BY DEF CopyInv, CopiesMatch, Excused, Copied, Matches, Deleting
<1> QED
  BY <1>1, <1>2, PTL

-----------------------------------------------------------------------------
(* Tags.                                                                   *)
LEMMA ElementOf ==
  ASSUME NEW S, NEW q \in Seq(S), NEW x \in ToSet(q)
  PROVE  x \in S
  BY DEF ToSet

LEMMA OneOrTwo ==
  ASSUME NEW a, NEW b, NEW q, q = <<a, b>> \/ q = <<b>>, NEW x \in ToSet(q)
  PROVE  x = a \/ x = b
  BY DEF ToSet

(* Who inserts rows later, and who looks at rows again.                    *)
LEMMA Awaited ==
  ASSUME Work, NEW x \in ToSet(todo)
  PROVE  /\ (\E t : x = <<"insertTag", t>>) => Inserting
         /\ (\E t : x = <<"prune", t, 0>>) \/ (\E c, t : x = <<"tag", c, t>>) => Pruning \/ Adding \/ Linking
<1> DEFINE Kind(S) == \A y \in S : y[1] \notin {"insertTag", "tag"} /\ (y[1] = "prune" => y[3] = 1)
<1>0. todo # <<>>
  BY DEF ToSet
<1>1. ASSUME NEW S, todo \in Seq(S), Kind(S)
      PROVE  /\ ~\E t : x = <<"insertTag", t>>
             /\ ~\E t : x = <<"prune", t, 0>>
             /\ ~\E c, t : x = <<"tag", c, t>>
  <2>1. x \in S
    BY <1>1, ElementOf
  <2>2. x[1] \notin {"insertTag", "tag"} /\ (x[1] = "prune" => x[3] = 1)
    BY <1>1, <2>1
  <2> QED
    BY <2>2
<1> HIDE DEF Kind
<1>2. ASSUME NEW c \in Chat, DeletionWork(c)
      PROVE  todo \in Seq(DeletionSteps) /\ Kind(DeletionSteps)
  <2>1. todo \in Seq(DeletionSteps)
    BY <1>2 DEF DeletionWork
  <2>2. \A y \in {"prune"} \X Tag \X {1} : y[1] = "prune" /\ y[3] = 1
    OBVIOUS
  <2>3. \A y \in ({"delete"} \X Chat) \cup ({"uncopy"} \X SUBSET Chat) : y[1] \in {"delete", "uncopy"}
    OBVIOUS
  <2> QED
    BY <2>1, <2>2, <2>3 DEF DeletionSteps, Kind
<1>3. CASE Sharing
  <2>1. PICK c \in Chats : todo = <<<<"link", c, TRUE>>>>
    BY <1>3 DEF Sharing
  <2>2. todo \in Seq({<<"link", c, TRUE>>})
    BY <2>1
  <2>3. Kind({<<"link", c, TRUE>>})
    BY DEF Kind
  <2> QED
    BY <1>1, <2>2, <2>3
<1>4. CASE Unsharing
  <2>1. PICK c \in Chats : todo = <<<<"uncopy", {c}>>, <<"link", c, FALSE>>>> \/ todo = <<<<"link", c, FALSE>>>>
    BY <1>4 DEF Unsharing
  <2>2. x = <<"uncopy", {c}>> \/ x = <<"link", c, FALSE>>
    BY <2>1, OneOrTwo, Zenon
  <2>3. CASE x = <<"uncopy", {c}>>
    BY <2>3
  <2>4. CASE x = <<"link", c, FALSE>>
    <3>1. x[1] = "link"
      BY <2>4, Triple, Zenon
    <3> QED
      BY <3>1
  <2> QED
    BY <2>2, <2>3, <2>4
<1>5. CASE DeletingAll
  <2>0. todo = <<<<"uncopy", ChatsOf(who)>>, <<"deleteAll", who>>>> \/ todo = <<<<"deleteAll", who>>>>
    BY <1>5 DEF DeletingAll
  <2>1. x = <<"uncopy", ChatsOf(who)>> \/ x = <<"deleteAll", who>>
    BY <2>0, OneOrTwo, Zenon
  <2>2. x[1] = "uncopy" \/ x[1] = "deleteAll"
    BY <2>1
  <2> QED
    BY <2>2
<1>6. CASE Emptying
  <2>1. \A y \in FolderSteps : y[1] \in {"children", "remove", "empty"}
    BY DEF FolderSteps
  <2>2. Kind(FolderSteps)
    BY <2>1 DEF Kind
  <2> QED
    BY <1>1, <1>6, <2>2 DEF Emptying
<1>7. CASE Inserting
  <2>1. x \in {"insertTag"} \X InUse
    BY <1>7, ElementOf DEF Inserting
  <2>2. x[1] = "insertTag"
    BY <2>1
  <2> QED
    BY <1>7, <2>2
<1>8. ASSUME Pruning \/ Adding \/ Linking
      PROVE  ~\E t : x = <<"insertTag", t>>
  <2> DEFINE S == ({"prune"} \X Tag \X {0}) \cup ({"addTag"} \X Tagged \X Tag) \cup ({"tag"} \X Tagged \X Tag)
  <2>1. \E R \in SUBSET S : todo \in Seq(R)
    BY <1>8 DEF Pruning, Adding, Linking, TagSteps
  <2>2. x \in S
    BY <2>1, ElementOf
  <2>3. x[1] \in {"prune", "addTag", "tag"}
    BY <2>2
  <2> QED
    BY <2>3
<1> QED
  BY <1>0, <1>1, <1>2, <1>3, <1>4, <1>5, <1>6, <1>7, <1>8 DEF Work

KnownSlips == {"twin", "foreign", "delete", "import", "archive"}
Known(c) == \A t \in chat[c].tags : chat[c].archived \/ HasRow(chat[c].user, t)
KnownSoon(c) ==
  \A t \in chat[c].tags :
    \/ chat[c].archived \/ HasRow(chat[c].user, t)
    \/ Awaits(chat[c].user, <<"insertTag", t>>) \/ Deleting(c)

LEMMA KnownParts == KnownInv <=> (slips \cap KnownSlips = {} => \A c \in Chats : KnownSoon(c))
  BY DEF KnownInv, KnownSlips, KnownSoon, HasRow

LEMMA SoonKnown ==
  ASSUME NEW c, Known(c)
  PROVE  KnownSoon(c)
  BY DEF Known, KnownSoon

LEMMA KnownNow ==
  ASSUME Work, NEW c \in Chats, KnownSoon(c), ~Inserting, ~Deleting(c)
  PROVE  Known(c)
<1> SUFFICES ASSUME NEW t \in chat[c].tags
             PROVE  chat[c].archived \/ HasRow(chat[c].user, t)
  BY DEF Known
<1>1. ~Awaits(chat[c].user, <<"insertTag", t>>)
  BY Awaited DEF Awaits
<1> QED
  BY <1>1 DEF KnownSoon

(* A request, before which every tag is known.                             *)
LEMMA KnownRequest ==
  ASSUME TypeOK, \A d \in Chats : Known(d), NEW c \in Chat, ChatRequest(c), "foreign" \notin slips'
  PROVE  \A d \in Chats' : KnownSoon(d)'
<1>0. chat \in [Chat -> ChatRow \cup {Null, Gone}] /\ \A r \in ChatRow : r # Null /\ r # Gone
  BY Rows DEF TypeOK
<1>r. \A d \in Chats : chat[d] \in ChatRow /\ d \in Chat
  BY Rows
<1>1. ASSUME UNCHANGED <<chat, tag>>
      PROVE  \A d \in Chats' : KnownSoon(d)'
  <2>1. Chats' = Chats /\ \A d \in Chats : Known(d)'
    BY <1>1 DEF Known, HasRow, Chats
  <2> QED
    BY <2>1 DEF Known, KnownSoon
<1>2. ASSUME NEW r \in ChatRow, chat' = [chat EXCEPT ![c] = r], c \in Chats, r.user = chat[c].user, tag' = tag
      PROVE  /\ \A d \in Chats' : d # c => KnownSoon(d)'
             /\ r.tags \subseteq chat[c].tags /\ (chat[c].archived => r.archived) => KnownSoon(c)'
             /\ chat'[c] = r
  <2>1. \A d \in Chat : chat'[d] = IF d = c THEN r ELSE chat[d]
    BY <1>0, <1>2
  <2>2. Chats' = Chats
    BY <2>1, <1>0, <1>2 DEF Chats
  <2>3. \A d \in Chats : d # c => Known(d)'
    BY <2>1, <1>2, <1>r DEF Known, HasRow
  <2>4. ASSUME r.tags \subseteq chat[c].tags, chat[c].archived => r.archived
        PROVE  Known(c)'
    BY <2>1, <1>2, <2>4 DEF Known, HasRow
  <2> QED
    BY <2>1, <2>2, <2>3, <2>4 DEF Known, KnownSoon
<1>3. CASE DeleteAllTags(c) \/ (\E ts \in SUBSET Tag : UpdateTags(c, ts))
  <2>1. c \in Chats /\ chat' = [chat EXCEPT ![c] = [chat[c] EXCEPT !.tags = {}]] /\ tag' = tag
    BY <1>3 DEF DeleteAllTags, UpdateTags
  <2> DEFINE r == [chat[c] EXCEPT !.tags = {}]
  <2>2. r \in ChatRow /\ r.user = chat[c].user /\ r.tags = {} /\ r.archived = chat[c].archived
    BY <2>1, <1>r DEF ChatRow
  <2> HIDE DEF r
  <2>3. chat' = [chat EXCEPT ![c] = r]
    BY <2>1 DEF r
  <2> QED
    BY <2>1, <2>2, <2>3, <1>2
<1>4. ASSUME NEW t \in Tag, RemoveTag(c, t)
      PROVE  \A d \in Chats' : KnownSoon(d)'
  <2>1. c \in Chats /\ chat' = [chat EXCEPT ![c] = [chat[c] EXCEPT !.tags = @ \ {t}]] /\ tag' = tag
    BY <1>4 DEF RemoveTag
  <2> DEFINE r == [chat[c] EXCEPT !.tags = @ \ {t}]
  <2>2. r \in ChatRow /\ r.user = chat[c].user /\ r.tags \subseteq chat[c].tags /\ r.archived = chat[c].archived
    BY <2>1, <1>r DEF ChatRow
  <2> HIDE DEF r
  <2>3. chat' = [chat EXCEPT ![c] = r]
    BY <2>1 DEF r
  <2> QED
    BY <2>1, <2>2, <2>3, <1>2
<1>6. ASSUME NEW f \in Folder \cup {None}, MoveChat(c, f)
      PROVE  \A d \in Chats' : KnownSoon(d)'
  <2>1. c \in Chats /\ chat' = [chat EXCEPT ![c] = [chat[c] EXCEPT !.folder = f]] /\ tag' = tag
    BY <1>6 DEF MoveChat
  <2> DEFINE r == [chat[c] EXCEPT !.folder = f]
  <2>2. r \in ChatRow /\ r.user = chat[c].user /\ r.tags = chat[c].tags /\ r.archived = chat[c].archived
    BY <2>1, <1>r DEF ChatRow
  <2> HIDE DEF r
  <2>3. chat' = [chat EXCEPT ![c] = r]
    BY <2>1 DEF r
  <2> QED
    BY <2>1, <2>2, <2>3, <1>2
<1>5. CASE ArchiveChat(c)
  <2>1. c \in Chats /\ chat' = [chat EXCEPT ![c] = [chat[c] EXCEPT !.archived = ~@]] /\ tag' = tag /\ who' = chat[c].user
    BY <1>5 DEF ArchiveChat, Request
  <2> DEFINE r == [chat[c] EXCEPT !.archived = ~@]
  <2>2. r \in ChatRow /\ r.user = chat[c].user /\ r.tags = chat[c].tags
    BY <2>1, <1>r DEF ChatRow
  <2>3. chat' = [chat EXCEPT ![c] = r]
    BY <2>1
  <2>9. todo' \in IF chat'[c].archived THEN Prunes(chat[c].tags, 0) ELSE All("insertTag", chat[c].tags)
    BY <1>5 DEF ArchiveChat
  <2> HIDE DEF r
  <2>4. (\A d \in Chats' : d # c => KnownSoon(d)') /\ chat'[c] = r
    BY <2>1, <2>2, <2>3, <1>2
  <2>5. KnownSoon(c)'
    <3>1. CASE chat'[c].archived
      BY <3>1 DEF KnownSoon
    <3>2. CASE ~chat'[c].archived
      <4>1. todo' \in All("insertTag", chat[c].tags) /\ IsFiniteSet(chat[c].tags)
        BY <3>2, <2>9, <2>1, Rows
      <4>2. \A t \in chat[c].tags : <<"insertTag", t>> \in ToSet(todo')
        BY <4>1, AllFacts
      <4> QED
        BY <4>2, <2>1, <2>2, <2>4 DEF KnownSoon, Awaits
    <3> QED
      BY <3>1, <3>2
  <2> QED
    BY <2>4, <2>5
<1>7. CASE DeleteChat(c) \/ UnshareChat(c) \/ ShareChat(c) \/ ShareAgain(c) \/ \E t \in Tag : AddTag(c, t)
  <2>1. UNCHANGED <<chat, tag>>
    BY <1>7 DEF DeleteChat, UnshareChat, ShareChat, ShareAgain, AddTag
  <2> QED
    BY <2>1, <1>1
<1>8. ASSUME NEW new \in Chat, NEW u \in User, NEW row, Clone(u, new, row)
      PROVE  \A d \in Chats' : KnownSoon(d)'
  <2> DEFINE r == [user |-> u, folder |-> row.folder, tags |-> row.tags, archived |-> FALSE, shared |-> FALSE]
  <2>1. chat[new] = Null /\ chat' = [chat EXCEPT ![new] = r] /\ tag' = tag
    BY <1>8 DEF Clone, Insert
  <2>2. \A d \in Chat : chat'[d] = IF d = new THEN r ELSE chat[d]
    BY <2>1, <1>0
  <2>3. \A t \in row.tags : <<u, t>> \in tag
    BY <1>8 DEF Clone, Slip
  <2>4. r.user = u /\ r.tags = row.tags
    OBVIOUS
  <2> HIDE DEF r
  <2>5. \A d \in Chats' : d # new => d \in Chats
    BY <2>2 DEF Chats
  <2>6. \A d \in Chats' : Known(d)'
    BY <2>1, <2>2, <2>3, <2>4, <2>5, <1>r DEF Known, HasRow
  <2> QED
    BY <2>6 DEF Known, KnownSoon
<1>9. ASSUME NEW new \in Chat, CloneChat(c, new) \/ \E u \in User : CloneSharedChat(u, c, new)
      PROVE  \A d \in Chats' : KnownSoon(d)'
  <2>1. c \in Chats => chat[c].user \in User
    BY Rows
  <2> QED
    BY <1>9, <2>1, <1>8 DEF CloneChat, CloneSharedChat
<1> QED
  BY <1>3, <1>4, <1>5, <1>6, <1>7, <1>9 DEF ChatRequest

LEMMA KnownUser ==
  ASSUME TypeOK, \A d \in Chats : Known(d), NEW u \in User, UserRequest(u), todo = <<>>
  PROVE  \A d \in Chats' : KnownSoon(d)'
<1>0. chat \in [Chat -> ChatRow \cup {Null, Gone}] /\ \A r \in ChatRow : r # Null /\ r # Gone
  BY Rows DEF TypeOK
<1>r. \A d \in Chats : chat[d] \in ChatRow /\ d \in Chat
  BY Rows
<1>1. CASE ArchiveAll(u)
  <2>1. \A d \in ChatsOf(u) : LET r == [chat[d] EXCEPT !.archived = TRUE] IN r \in ChatRow /\ r.archived
    <3>1. \A d \in ChatsOf(u) : chat[d] \in ChatRow
      BY Rows DEF ChatsOf
    <3> QED
      BY <3>1 DEF ChatRow
  <2>2. tag' = tag /\ \A d \in Chat : chat'[d] = IF d \in ChatsOf(u) THEN [chat[d] EXCEPT !.archived = TRUE] ELSE chat[d]
    BY <1>1 DEF ArchiveAll
  <2>3. \A d \in Chats' : d \notin ChatsOf(u) => d \in Chats
    BY <2>2 DEF Chats
  <2>4. \A d \in Chats' : Known(d)'
    BY <2>1, <2>2, <2>3, <1>r DEF Known, HasRow, Chats
  <2> QED
    BY <2>4, SoonKnown DEF Known, KnownSoon
<1>2. CASE DeleteAllChats(u) \/ \E f \in Folder, n \in Name : AskFolder(u, f, n)
  <2>1. UNCHANGED <<chat, tag>>
    BY <1>2 DEF DeleteAllChats, AskFolder
  <2> QED
    BY <2>1 DEF Known, KnownSoon, HasRow, Chats
<1>3. ASSUME NEW c \in Chat, NEW f \in Folder \cup {None}, NEW ts \in SUBSET Tag, Insert(u, c, f, ts), tag' = tag,
             \A t \in ts : Awaits(u, <<"insertTag", t>>)'
      PROVE  \A d \in Chats' : KnownSoon(d)'
  <2> DEFINE r == [user |-> u, folder |-> f, tags |-> ts, archived |-> FALSE, shared |-> FALSE]
  <2>1. \A d \in Chat : chat'[d] = IF d = c THEN r ELSE chat[d]
    BY <1>3, <1>0 DEF Insert
  <2>2. r.user = u /\ r.tags = ts
    OBVIOUS
  <2> HIDE DEF r
  <2>3. \A d \in Chats' : d # c => d \in Chats
    BY <2>1 DEF Chats
  <2>4. \A d \in Chats' : d # c => Known(d)'
    BY <2>1, <2>3, <1>3, <1>r DEF Known, HasRow
  <2>5. KnownSoon(c)'
    <3>1. chat'[c].user = u /\ chat'[c].tags = ts
      BY <2>1, <2>2
    <3> QED
      BY <3>1, <1>3 DEF KnownSoon
  <2> QED
    BY <2>4, <2>5 DEF Known, KnownSoon
<1>4. ASSUME NEW c \in Chat, NEW f \in Folder \cup {None}, CreateNewChat(u, c, f)
      PROVE  \A d \in Chats' : KnownSoon(d)'
  BY <1>3, <1>4 DEF CreateNewChat
<1>5. ASSUME NEW c \in Chat, NEW f \in Folder \cup {None}, NEW ts \in SUBSET Tag, ImportChat(u, c, f, ts)
      PROVE  \A d \in Chats' : KnownSoon(d)'
  <2>1. Insert(u, c, f, ts) /\ tag' = tag /\ todo' \in All("insertTag", ts) /\ who' = u
    BY <1>5 DEF ImportChat, Request
  <2>2. IsFiniteSet(ts)
    BY LibraryAssumption, FS_Subset
  <2>3. \A t \in ts : <<"insertTag", t>> \in ToSet(todo')
    BY <2>1, <2>2, AllFacts
  <2>4. \A t \in ts : Awaits(u, <<"insertTag", t>>)'
    BY <2>1, <2>3 DEF Awaits
  <2> QED
    BY <2>1, <2>4, <1>3
<1> QED
  BY <1>1, <1>2, <1>4, <1>5 DEF UserRequest

(* What a prune with count k does to the rows in use.                      *)
LEMMA HolderFacts ==
  ASSUME TypeOK, NEW u \in User, NEW t
  PROVE  /\ IsFiniteSet(Holders(u, t))
         /\ Cardinality(Holders(u, t)) = 0 => Holders(u, t) = {}
         /\ Cardinality(Holders(u, t)) = 1 => \E c : Holders(u, t) = {c}
         /\ \A c \in Chats : chat[c].user = u /\ t \in chat[c].tags /\ ~chat[c].archived => c \in Holders(u, t)
<1>1. Holders(u, t) \subseteq Chat
  BY DEF Holders, ChatsOf, Chats
<1>2. IsFiniteSet(Holders(u, t))
  BY <1>1, LibraryAssumption, FS_Subset
<1>3. \A c \in Chats : chat[c].user = u /\ t \in chat[c].tags /\ ~chat[c].archived => c \in Holders(u, t)
  BY DEF Holders, ChatsOf
<1> QED
  BY <1>2, <1>3, FS_EmptySet, FS_Singleton

LEMMA WhoIsDeleted ==
  ASSUME Work, NEW d \in Chat, Deleting(d)
  PROVE  DeletionWork(d) /\ Head(todo)[1] \in {"prune", "delete", "uncopy"}
<1>1. PICK c \in Chat : DeletionWork(c)
  BY DEF Work, Deleting, Inserting, Pruning, Adding, Linking, Sharing, Unsharing, DeletingAll, Emptying
<1>2. <<"uncopy", {c}>> = <<"uncopy", {d}>>
  BY <1>1 DEF Deleting, DeletionWork
<1>3. {c} = {d}
  BY <1>2
<1>4. c = d
  BY <1>3
<1>5. Head(todo)[1] \in {"prune", "delete", "uncopy"}
  <2>1. Len(todo) \in Nat \ {0}
    BY <1>1, DeletionHead
  <2>2. \A n \in Nat \ {0} : n = 1 \/ n = 2 \/ n > 2
    OBVIOUS
  <2>3. CASE Len(todo) = 1
    BY <1>1, <2>3, DeletionHead
  <2>4. CASE Len(todo) = 2
    BY <1>1, <2>4, DeletionHead
  <2>5. CASE Len(todo) > 2
    <3>1. Head(todo) \in {"prune"} \X chat[c].tags \X {1}
      BY <1>1, <2>5, DeletionHead
    <3> QED
      BY <3>1
  <2> QED
    BY <2>1, <2>2, <2>3, <2>4, <2>5, Zenon
<1> QED
  BY <1>1, <1>4, <1>5

LEMMA DeletionGoesOn ==
  ASSUME NEW c \in Chat, DeletionWork(c), Len(todo) > 1, todo' = Tail(todo), op' = op
  PROVE  Deleting(c)'
<1>1. todo # <<>> /\ todo \in Seq(DeletionSteps) /\ todo[Len(todo)] = <<"uncopy", {c}>> /\ op = "delete"
  BY DEF DeletionWork
<1>2. /\ Len(todo) \in Nat /\ todo' \in Seq(DeletionSteps) /\ Len(todo') = Len(todo) - 1
      /\ \A i \in 1..Len(todo) - 1 : todo'[i] = todo[i + 1]
  BY <1>1, TailFacts
<1>3. Len(todo) - 1 \in 1..Len(todo) - 1
  BY <1>2
<1>4. todo'[Len(todo')] = <<"uncopy", {c}>>
  BY <1>1, <1>2, <1>3
<1>5. Len(todo') >= 1
  BY <1>2
<1>6. todo' # <<>>
  BY <1>5
<1> QED
  BY <1>1, <1>4, <1>6 DEF Deleting

LEMMA LinkedChat ==
  ASSUME Work, Pending("link")
  PROVE  Arg \in Chats /\ Arg2 \in BOOLEAN
<1>1. Sharing \/ Unsharing
  BY Heads
<1>2. PICK c \in Chats, b \in BOOLEAN : \/ todo = <<<<"uncopy", {c}>>, <<"link", c, b>>>>
                                       \/ todo = <<<<"link", c, b>>>>
  BY <1>1 DEF Sharing, Unsharing
<1>3. CASE todo = <<<<"uncopy", {c}>>, <<"link", c, b>>>>
  <2>1. Head(todo) = <<"uncopy", {c}>>
    BY <1>3, TwoLeft
  <2> QED
    BY <2>1 DEF Pending
<1>4. CASE todo = <<<<"link", c, b>>>>
  <2>1. Head(todo) = <<"link", c, b>>
    BY <1>4, OneLeft
  <2>2. Arg = c /\ Arg2 = b
    BY <2>1, Triple, Zenon DEF Arg, Arg2
  <2> QED
    BY <2>2
<1> QED
  BY <1>2, <1>3, <1>4

LEMMA KnownStep ==
  ASSUME Typed, KnownInv, [Next]_vars
  PROVE  KnownInv'
<1> SUFFICES ASSUME slips' \cap KnownSlips = {}
             PROVE  \A d \in Chats' : KnownSoon(d)'
  BY DEF KnownInv, KnownSoon, KnownSlips, HasRow
<1>t. TypeOK /\ Work
  BY DEF Typed
<1>0. chat \in [Chat -> ChatRow \cup {Null, Gone}] /\ \A r \in ChatRow : r # Null /\ r # Gone
  BY <1>t, Rows DEF TypeOK
<1>r. \A d \in Chats : chat[d] \in ChatRow /\ d \in Chat /\ chat[d].user \in User
  BY <1>t, Rows
<1>a. ASSUME slips \subseteq slips'
      PROVE  \A c \in Chats : KnownSoon(c)
  BY <1>a, KnownParts DEF KnownSlips
<1>q. ASSUME slips \subseteq slips', todo = <<>>
      PROVE  \A c \in Chats : Known(c)
  <2>1. ToSet(todo) = {}
    BY <1>q DEF ToSet
  <2> QED
    BY <2>1, <1>q, <1>a DEF KnownSoon, Known, Awaits, Deleting
<1>h. ASSUME slips \subseteq slips', todo # <<>>, Head(todo)[1] \notin {"insertTag", "prune", "delete", "uncopy"}
      PROVE  \A c \in Chats : Known(c)
  <2>1. \A c \in Chats : ~Deleting(c)
    BY <1>h, <1>t, <1>r, WhoIsDeleted
  <2>2. ~Inserting
    <3> SUFFICES ASSUME Inserting
                 PROVE  FALSE
      OBVIOUS
    <3>1. Head(todo) \in {"insertTag"} \X InUse
      BY <1>h, HeadKinds
    <3> QED
      BY <3>1, <1>h
  <2> QED
    BY <1>h, <1>a, <1>t, <2>1, <2>2, KnownNow
<1>f. ASSUME NEW d \in Chats, NEW e \in Chats', e = d, Known(d), chat'[d].user = chat[d].user,
             chat'[d].tags = chat[d].tags, chat'[d].archived = chat[d].archived, tag \subseteq tag'
      PROVE  KnownSoon(d)'
  BY <1>f DEF Known, KnownSoon, HasRow
<1>1. ASSUME UNCHANGED <<chat, todo, op, who>>, tag' = tag, slips \subseteq slips'
      PROVE  \A d \in Chats' : KnownSoon(d)'
  <2>1. \A c \in Chats : KnownSoon(c)
    BY <1>1, <1>a
  <2> QED
    BY <1>1, <2>1 DEF KnownSoon, HasRow, Awaits, Deleting, Chats
<1>2. CASE UNCHANGED vars
  BY <1>1, <1>2 DEF vars
<1>3. ASSUME NEW c \in Chat, ChatRequest(c)
      PROVE  \A d \in Chats' : KnownSoon(d)'
  <2>1. todo = <<>> /\ slips \subseteq slips'
    BY <1>3 DEF ChatRequest, DeleteAllTags, ArchiveChat, DeleteChat, ShareChat, ShareAgain, UnshareChat, MoveChat,
                AddTag, RemoveTag, UpdateTags, CloneChat, CloneSharedChat, Clone, Request, Slip
  <2>2. "foreign" \notin slips'
    BY DEF KnownSlips
  <2>3. \A d \in Chats : Known(d)
    BY <1>q, <2>1
  <2> QED
    BY <1>3, <1>t, <2>2, <2>3, KnownRequest
<1>4. ASSUME NEW u \in User, UserRequest(u)
      PROVE  \A d \in Chats' : KnownSoon(d)'
  <2>1. CASE \E f \in Folder, n \in Name : AskFolder(u, f, n)
    BY <2>1, <1>1 DEF AskFolder
  <2>2. CASE ~\E f \in Folder, n \in Name : AskFolder(u, f, n)
    <3>1. todo = <<>> /\ slips \subseteq slips'
      BY <1>4, <2>2 DEF UserRequest, ArchiveAll, DeleteAllChats, CreateNewChat, ImportChat, Request, Slip
    <3>2. \A d \in Chats : Known(d)
      BY <1>q, <3>1
    <3> QED
      BY <1>4, <1>t, <3>1, <3>2, KnownUser
  <2> QED
    BY <2>1, <2>2
<1>5. ASSUME NEW f \in Folder, FolderRequest(f)
      PROVE  \A d \in Chats' : KnownSoon(d)'
  <2>1. todo = <<>> /\ slips \subseteq slips' /\ UNCHANGED <<chat, tag>>
    BY <1>5 DEF FolderRequest, RenameFolder, MoveFolder, DeleteFolder, Request, Race, Slip
  <2>2. \A d \in Chats : Known(d)
    BY <1>q, <2>1
  <2> QED
    BY <2>1, <2>2, <1>f DEF Chats
<1>6. ASSUME NEW k \in creating, CreateFolder(k)
      PROVE  \A d \in Chats' : KnownSoon(d)'
  BY <1>6, <1>1 DEF CreateFolder, Race, Slip
<1>7. CASE EnsureTag \/ SetShareId \/ GetChildren \/ RemoveFolder
  <2>1. /\ slips' = slips /\ todo # <<>> /\ Head(todo)[1] \notin {"insertTag", "prune", "delete", "uncopy"}
        /\ tag \subseteq tag'
    BY <1>7 DEF SetShareId, EnsureTag, GetChildren, RemoveFolder, Pending
  <2>2. \A d \in Chats : Known(d)
    BY <1>h, <2>1
  <2>3. CASE chat' = chat
    BY <2>1, <2>2, <2>3, <1>f DEF Chats
  <2>4. CASE SetShareId
    <3>1. chat' = [chat EXCEPT ![Arg] = [chat[Arg] EXCEPT !.shared = Arg2]]
      BY <2>4 DEF SetShareId
    <3>2. Arg \in Chats
      BY <2>4, <1>t, LinkedChat DEF SetShareId
    <3> DEFINE r == [chat[Arg] EXCEPT !.shared = Arg2]
    <3>3. chat[Arg] \in ChatRow /\ Arg \in Chat
      BY <3>2, <1>r
    <3>4. r.user = chat[Arg].user /\ r.tags = chat[Arg].tags /\ r.archived = chat[Arg].archived
      BY <3>3 DEF ChatRow
    <3>5. \A d \in Chat : chat'[d] = IF d = Arg THEN r ELSE chat[d]
      BY <3>1, <3>3, <1>0
    <3> HIDE DEF r
    <3>6. \A d \in Chats' : d \in Chats
      BY <3>2, <3>5 DEF Chats
    <3>7. \A d \in Chats : chat'[d].user = chat[d].user /\ chat'[d].tags = chat[d].tags /\ chat'[d].archived = chat[d].archived
      BY <3>4, <3>5, <1>r
    <3> QED
      BY <2>1, <2>2, <3>6, <3>7, <1>f
  <2> QED
    BY <1>7, <2>3, <2>4 DEF EnsureTag, GetChildren, RemoveFolder
<1>8. CASE InsertTag
  <2>1. /\ UNCHANGED <<chat, who, slips>> /\ todo # <<>> /\ todo' = Tail(todo) /\ tag' = tag \cup {<<who, Arg>>}
    BY <1>8 DEF InsertTag, Pending, Done
  <2>2. Inserting /\ Head(todo) \in {"insertTag"} \X InUse
    BY <1>8, <1>t, Heads DEF InsertTag
  <2>3. \A d \in Chat : ~Deleting(d)
    BY <2>2 DEF Deleting, Inserting
  <2>4. Chats' = Chats /\ \A c \in Chats : KnownSoon(c)
    BY <2>1, <1>a DEF Chats
  <2> SUFFICES ASSUME NEW c \in Chats, NEW t \in chat[c].tags, ~chat[c].archived, <<chat[c].user, t>> \notin tag'
               PROVE  Awaits(chat[c].user, <<"insertTag", t>>)'
    BY <2>1, <2>4 DEF KnownSoon, HasRow
  <2>5. Awaits(chat[c].user, <<"insertTag", t>>)
    BY <2>1, <2>3, <2>4, <1>r DEF KnownSoon, HasRow
  <2>6. t # Arg
    BY <2>1, <2>5 DEF Awaits
  <2>7. <<"insertTag", t>> # Head(todo)
    BY <2>6 DEF Arg
  <2>8. <<"insertTag", t>> \in ToSet(Tail(todo))
    BY <2>1, <2>2, <2>5, <2>7, ToSetTail DEF Awaits, Inserting
  <2> QED
    BY <2>1, <2>5, <2>8 DEF Awaits
<1>9. CASE AddChatTag
  <2>1. /\ UNCHANGED <<tag, who, slips>> /\ todo # <<>> /\ Head(todo)[1] = "tag"
        /\ chat' = [chat EXCEPT ![Arg] = [chat[Arg] EXCEPT !.tags = @ \cup {Arg2}]] /\ Linking
    BY <1>9, <1>t, Heads DEF AddChatTag, Pending
  <2>2. PICK c \in Tagged, t \in Tag : Head(todo) = <<"tag", c, t>> /\ <<who, t>> \in tag
    BY <2>1 DEF Linking
  <2>3. Arg = c /\ Arg2 = t /\ c \in Chats /\ c \in Chat /\ chat[c] \in ChatRow /\ chat[c].user = who
    BY <1>t, <2>2, Rows DEF Arg, Arg2, Tagged, ChatsOf
  <2> DEFINE r == [chat[c] EXCEPT !.tags = @ \cup {t}]
  <2>4. r \in ChatRow /\ r.user = chat[c].user /\ r.archived = chat[c].archived /\ r.tags = chat[c].tags \cup {t}
    BY <2>3 DEF ChatRow
  <2>5. \A d \in Chat : chat'[d] = IF d = c THEN r ELSE chat[d]
    BY <2>1, <2>3, <1>0
  <2>6. \A d \in Chats : Known(d)
    BY <1>h, <2>1
  <2> HIDE DEF r
  <2>7. Chats' = Chats
    BY <2>3, <2>4, <2>5, <1>0 DEF Chats
  <2>8. \A d \in Chats : d # c => KnownSoon(d)'
    <3>1. \A d \in Chats : d # c => chat'[d] = chat[d]
      BY <2>5, <1>r
    <3> QED
      BY <2>1, <2>6, <2>7, <3>1, <1>f
  <2>9. KnownSoon(c)'
    BY <2>1, <2>2, <2>3, <2>4, <2>5, <2>6 DEF Known, KnownSoon, HasRow
  <2> QED
    BY <2>7, <2>8, <2>9
<1>10. CASE Prune
  <2>1. /\ UNCHANGED <<chat, op, who, slips>> /\ todo # <<>> /\ todo' = Tail(todo)
        /\ tag' = IF Cardinality(Holders(who, Arg)) = Arg2 THEN tag \ {<<who, Arg>>} ELSE tag
    BY <1>10 DEF Prune, Pending, Done
  <2>2. Chats' = Chats /\ \A c \in Chats : KnownSoon(c)
    BY <2>1, <1>a DEF Chats
  <2>u. who \in User
    BY <1>t DEF TypeOK
  <2>3. CASE (Pruning \/ Adding) /\ Head(todo) \in {"prune"} \X Tag \X {0}
    <3>1. Arg2 = 0
      BY <2>3 DEF Arg2
    <3>2. ~Inserting /\ \A c \in Chats : ~Deleting(c)
      <4>1. ~Inserting
        <5> SUFFICES ASSUME Inserting
                     PROVE  FALSE
          OBVIOUS
        <5>1. Head(todo) \in {"insertTag"} \X InUse
          BY <2>1, HeadKinds
        <5> QED
          BY <5>1, <2>3
      <4> QED
        BY <4>1, <2>3 DEF Pruning, Adding, Deleting
    <3>3. \A c \in Chats : Known(c)
      BY <1>t, <2>2, <3>2, KnownNow
    <3>4. \A c \in Chats : \A t \in chat[c].tags : chat[c].archived \/ <<chat[c].user, t>> \in tag'
      <4> SUFFICES ASSUME NEW c \in Chats, NEW t \in chat[c].tags, ~chat[c].archived, <<chat[c].user, t>> \notin tag'
                   PROVE  FALSE
        OBVIOUS
      <4>1. <<chat[c].user, t>> \in tag
        BY <3>3 DEF Known, HasRow
      <4>2. chat[c].user = who /\ t = Arg /\ Cardinality(Holders(who, Arg)) = 0
        BY <2>1, <3>1, <4>1
      <4>3. Holders(who, t) = {} /\ c \in Holders(who, t)
        BY <1>t, <2>u, <4>2, HolderFacts
      <4> QED
        BY <4>3
    <3> QED
      BY <2>1, <2>2, <3>4 DEF KnownSoon, HasRow
  <2>4. ASSUME NEW c \in Chat, DeletionWork(c), Len(todo) > 2
        PROVE  \A d \in Chats' : KnownSoon(d)'
    <3>1. Head(todo) \in {"prune"} \X chat[c].tags \X {1} /\ c \in ChatsOf(who)
      BY <2>4, DeletionHead
    <3>2. Arg2 = 1 /\ Arg \in chat[c].tags
      BY <3>1 DEF Arg, Arg2
    <3>3. Deleting(c)'
      <4>1. Len(todo) > 1
        BY <2>4, DeletionHead
      <4> QED
        BY <2>1, <2>4, <4>1, DeletionGoesOn
    <3>4. \A d \in Chats : d # c => Known(d)
      <4>1. ~Inserting
        BY <2>4 DEF DeletionWork, Inserting
      <4>2. \A d \in Chats : d # c => ~Deleting(d)
        <5> SUFFICES ASSUME NEW d \in Chats, Deleting(d)
                     PROVE  d = c
          OBVIOUS
        <5>1. <<"uncopy", {c}>> = <<"uncopy", {d}>>
          BY <2>4 DEF Deleting, DeletionWork
        <5>2. {c} = {d}
          BY <5>1
        <5> QED
          BY <5>2
      <4> QED
        BY <1>t, <2>2, <4>1, <4>2, KnownNow
    <3>5. "twin" \notin slips
      BY <2>1 DEF KnownSlips
    <3>6. chat[c].archived => \A t \in chat[c].tags : Cardinality(Holders(who, t)) # 1
      <4>1. 0 <= Len(todo) - 2 /\ Len(todo) - 2 # -1
        BY <2>4, DeletionHead
      <4> QED
        BY <2>4, <3>5, <4>1 DEF DeletionWork
    <3>7. \A d \in Chats : d # c => KnownSoon(d)'
      <4> SUFFICES ASSUME NEW d \in Chats, d # c, NEW t \in chat[d].tags, ~chat[d].archived, <<chat[d].user, t>> \notin tag'
                   PROVE  FALSE
        BY <2>1 DEF KnownSoon, HasRow
      <4>1. <<chat[d].user, t>> \in tag
        BY <3>4 DEF Known, HasRow
      <4>2. chat[d].user = who /\ t = Arg /\ Cardinality(Holders(who, t)) = 1
        BY <2>1, <3>2, <4>1
      <4>3. (\E x : Holders(who, t) = {x}) /\ d \in Holders(who, t)
        BY <1>t, <2>u, <4>2, HolderFacts
      <4>4. ~chat[c].archived
        BY <3>2, <3>6, <4>2
      <4>5. c \in Holders(who, t)
        BY <1>t, <2>u, <3>1, <3>2, <4>2, <4>4, HolderFacts DEF ChatsOf
      <4> QED
        BY <4>3, <4>5
    <3>8. KnownSoon(c)'
      BY <3>3 DEF KnownSoon
    <3> QED
      BY <2>2, <3>7, <3>8
  <2> QED
    BY <1>10, <1>t, <2>3, <2>4, Heads DEF Prune

<1>11. ASSUME NEW c \in Chat, DeletionWork(c)
       PROVE  ~Inserting /\ \A d \in Chats : d # c => ~Deleting(d)
  <2>1. ~Inserting
    BY <1>11 DEF DeletionWork, Inserting
  <2> SUFFICES ASSUME NEW d \in Chats, Deleting(d)
               PROVE  d = c
    BY <2>1
  <2>2. <<"uncopy", {c}>> = <<"uncopy", {d}>>
    BY <1>11 DEF Deleting, DeletionWork
  <2>3. {c} = {d}
    BY <2>2
  <2> QED
    BY <2>3
<1>12. CASE DeleteRow
  <2>1. PICK c \in Chat : DeletionWork(c) /\ Len(todo) = 2
    BY <1>12, <1>t, Heads DEF DeleteRow
  <2>2. Head(todo) = <<"delete", c>>
    BY <2>1, DeletionHead
  <2>3. Arg = c
    BY <2>2 DEF Arg
  <2>4. chat' = [chat EXCEPT ![c] = Gone] /\ UNCHANGED <<tag, slips>>
    BY <1>12, <2>3 DEF DeleteRow
  <2>5. \A d \in Chats : d # c => Known(d)
    BY <1>a, <1>t, <1>11, <2>1, <2>4, KnownNow
  <2>6. \A d \in Chat : chat'[d] = IF d = c THEN Gone ELSE chat[d]
    BY <2>4, <1>0
  <2>7. \A d \in Chats' : d \in Chats /\ d # c
    BY <2>6 DEF Chats
  <2>8. \A d \in Chats : d # c => chat'[d] = chat[d]
    BY <2>6, <1>r
  <2> QED
    BY <2>4, <2>5, <2>7, <2>8, <1>f
<1>13. ASSUME NEW S, \A d \in Chat : chat'[d] = IF d \in S THEN Gone ELSE chat[d],
              \A d \in Chats : Known(d), tag' = tag
       PROVE  \A d \in Chats' : KnownSoon(d)'
  <2>1. \A d \in Chats' : d \in Chats /\ chat'[d] = chat[d]
    BY <1>13 DEF Chats
  <2> QED
    BY <1>13, <2>1, <1>f
<1>14. CASE DeleteRows \/ EmptyFolder
  <2>1. slips \subseteq slips' /\ todo # <<>> /\ Head(todo)[1] \notin {"insertTag", "prune", "delete", "uncopy"} /\ tag' = tag
    BY <1>14 DEF DeleteRows, EmptyFolder, Pending
  <2>2. \A d \in Chats : Known(d)
    BY <1>h, <2>1
  <2>3. \E S : \A d \in Chat : chat'[d] = IF d \in S THEN Gone ELSE chat[d]
    BY <1>14 DEF DeleteRows, EmptyFolder
  <2> QED
    BY <2>1, <2>2, <2>3, <1>13
<1>15. CASE DeleteCopies
  <2>1. UNCHANGED <<chat, tag, slips>>
    BY <1>15 DEF DeleteCopies
  <2>2. \A d \in Chats : Known(d)
    <3>1. ASSUME NEW c \in Chat, DeletionWork(c), Len(todo) = 1
          PROVE  \A d \in Chats : Known(d)
      <4>1. c \notin Chats
        BY <3>1, DeletionHead
      <4>2. ~Inserting /\ \A d \in Chats : ~Deleting(d)
        BY <1>11, <3>1, <4>1
      <4> QED
        BY <4>2, <1>a, <1>t, <2>1, KnownNow
    <3>2. CASE Unsharing \/ DeletingAll
      <4>1. ~Inserting /\ \A d \in Chats : ~Deleting(d)
        BY <3>2 DEF Unsharing, DeletingAll, Inserting, Deleting
      <4> QED
        BY <4>1, <1>a, <1>t, <2>1, KnownNow
    <3> QED
      BY <1>15, <1>t, <3>1, <3>2, Heads DEF DeleteCopies
  <2> QED
    BY <2>1, <2>2, <1>f DEF Chats
<1>16. CASE Crash
  <2>1. UNCHANGED <<chat, tag>> /\ slips \subseteq slips' /\ (todo # <<>> => op \in slips')
    BY <1>16 DEF Crash, Slip
  <2>2. \A d \in Chats : Known(d)
    <3>1. CASE todo = <<>>
      BY <1>q, <2>1, <3>1
    <3>2. CASE todo # <<>>
      <4>1. ~Inserting /\ \A d \in Chats : ~Deleting(d)
        BY <2>1, <3>2 DEF Inserting, Deleting, KnownSlips
      <4> QED
        BY <4>1, <1>a, <1>t, <2>1, KnownNow
    <3> QED
      BY <3>1, <3>2
  <2> QED
    BY <2>1, <2>2, <1>f DEF Chats
<1> QED
  BY <1>2, <1>3, <1>4, <1>5, <1>6, <1>7, <1>8, <1>9, <1>10, <1>12, <1>14, <1>15, <1>16 DEF Next, Rest

(* TagsKnown: the tags of a chat that is not archived have rows, except    *)
(* while a handler that inserts them is at work, and after a crash in one, *)
(* a clone of someone else's tags, or the deletion of an archived chat     *)
(* that shared a tag with just one other.                                  *)
THEOREM ShownTagsHaveRows == Spec => []TagsKnown
<1>1. Spec => [](Typed /\ KnownInv)
  <2>1. Init => Typed /\ KnownInv
    <3>1. Init => KnownInv
      BY DEF Init, KnownInv, Chats
    <3> QED
      BY <3>1, TypedInit
  <2>2. Typed /\ KnownInv /\ [Next]_vars => (Typed /\ KnownInv)'
    BY TypedStep, KnownStep
  <2> QED
    BY <2>1, <2>2, PTL DEF Spec
<1>2. Typed /\ KnownInv => TagsKnown
  <2> SUFFICES ASSUME Typed, KnownInv, ~Excused(KnownSlips)
               PROVE  \A c \in Chats : Known(c)
    BY DEF TagsKnown, Known, HasRow, KnownSlips
  <2>1. Work /\ slips \cap KnownSlips = {} /\ (todo # <<>> => op \notin KnownSlips)
    BY DEF Typed, Excused
  <2>2. \A c \in Chats : KnownSoon(c)
    BY <2>1, KnownParts
  <2>3. CASE todo = <<>>
    <3>1. ToSet(todo) = {}
      BY <2>3 DEF ToSet
    <3> QED
      BY <2>2, <2>3, <3>1 DEF KnownSoon, Known, Awaits, Deleting
  <2>4. CASE todo # <<>>
    <3>1. ~Inserting /\ \A c \in Chats : ~Deleting(c)
      BY <2>1, <2>4 DEF Inserting, Deleting, KnownSlips
    <3> QED
      BY <2>1, <2>2, <3>1, KnownNow
  <2> QED
    BY <2>3, <2>4
<1> QED
  BY <1>1, <1>2, PTL

-----------------------------------------------------------------------------
(* Rows of tags.                                                           *)
UsedSlips == {"bulk", "hidden", "add", "untag", "update", "archive"}
Used(u, t) == Holders(u, t) # {}
UsedSoon(u, t) ==
  Used(u, t) \/ Awaits(u, <<"prune", t, 0>>) \/ \E c \in Chat : Awaits(u, <<"tag", c, t>>)

LEMMA UsedParts ==
  ASSUME TypeOK
  PROVE  UsedInv <=> (slips \cap UsedSlips = {} => \A u \in User, t \in Tag : HasRow(u, t) => UsedSoon(u, t))
<1>1. tag \subseteq User \X Tag
  BY DEF TypeOK
<1>2. \A row \in tag : row[1] \in User /\ row[2] \in Tag /\ row = <<row[1], row[2]>>
  BY <1>1
<1>3. \A u, t : <<u, t>>[1] = u /\ <<u, t>>[2] = t
  OBVIOUS
<1>4. (\A row \in tag : UsedSoon(row[1], row[2])) <=> \A u \in User, t \in Tag : HasRow(u, t) => UsedSoon(u, t)
  <2> HIDE DEF UsedSoon
  <2> QED
    BY <1>2, <1>3 DEF HasRow
<1> QED
  BY <1>4 DEF UsedInv, UsedSlips, UsedSoon, Used

LEMMA UsedNow ==
  ASSUME Work, NEW u, NEW t, UsedSoon(u, t), ~(Pruning \/ Adding \/ Linking)
  PROVE  Used(u, t)
  BY Awaited DEF UsedSoon, Awaits

LEMMA HoldersKept ==
  ASSUME NEW u, NEW t, Used(u, t),
         \A c \in Holders(u, t) : /\ c \in Chats' /\ chat'[c].user = u
                                  /\ t \in chat'[c].tags /\ ~chat'[c].archived
  PROVE  Used(u, t)'
  BY DEF Used, Holders, ChatsOf, Chats

LEMMA HolderOf ==
  ASSUME NEW u, NEW t, NEW c \in Holders(u, t)
  PROVE  c \in Chats /\ c \in Chat /\ chat[c].user = u /\ t \in chat[c].tags /\ ~chat[c].archived
  BY DEF Holders, ChatsOf, Chats

LEMMA ToSetLeft ==
  ASSUME NEW S, NEW q \in Seq(S), NEW T, NEW w \in Seq(T), NEW x \in ToSet(q)
  PROVE  x \in ToSet(q \o w)
<1>1. PICK i \in 1..Len(q) : q[i] = x
  BY DEF ToSet
<1>2. q \in Seq(S \cup T) /\ w \in Seq(S \cup T)
  BY Wider
<1>3. q \o w \in Seq(S \cup T) /\ Len(q \o w) = Len(q) + Len(w) /\ (q \o w)[i] = q[i]
  BY <1>2
<1>4. i \in DOMAIN (q \o w)
  BY <1>2, <1>3
<1> QED
  BY <1>1, <1>3, <1>4 DEF ToSet

(* A request, before which every row is used.                              *)
LEMMA UsedRequest ==
  ASSUME TypeOK, \A u \in User, t \in Tag : HasRow(u, t) => Used(u, t),
         NEW c \in Chat, ChatRequest(c), "hidden" \notin slips'
  PROVE  \A u \in User, t \in Tag : HasRow(u, t)' => UsedSoon(u, t)'
<1>0. chat \in [Chat -> ChatRow \cup {Null, Gone}] /\ \A r \in ChatRow : r # Null /\ r # Gone
  BY Rows DEF TypeOK
<1>r. \A d \in Chats : chat[d] \in ChatRow /\ d \in Chat
  BY Rows
<1>1. ASSUME UNCHANGED <<chat, tag>>
      PROVE  \A u \in User, t \in Tag : HasRow(u, t)' => UsedSoon(u, t)'
  BY <1>1 DEF HasRow, UsedSoon, Used, Holders, ChatsOf, Chats
<1>2. ASSUME NEW r \in ChatRow, chat' = [chat EXCEPT ![c] = r], c \in Chats, r.user = chat[c].user, tag' = tag,
             \A t \in chat[c].tags :
               (t \in r.tags /\ (r.archived => chat[c].archived)) \/ (who' = chat[c].user /\ <<"prune", t, 0>> \in ToSet(todo'))
      PROVE  \A u \in User, t \in Tag : HasRow(u, t)' => UsedSoon(u, t)'
  <2>1. \A d \in Chat : chat'[d] = IF d = c THEN r ELSE chat[d]
    BY <1>0, <1>2
  <2>2. Chats' = Chats
    BY <2>1, <1>0, <1>2 DEF Chats
  <2> SUFFICES ASSUME NEW u \in User, NEW t \in Tag, HasRow(u, t), ~Awaits(u, <<"prune", t, 0>>)'
               PROVE  Used(u, t)'
    BY <1>2 DEF HasRow, UsedSoon, Awaits
  <2>3. Used(u, t)
    OBVIOUS
  <2>4. \A d \in Holders(u, t) : chat'[d].user = u /\ t \in chat'[d].tags /\ ~chat'[d].archived
    <3> SUFFICES ASSUME NEW d \in Holders(u, t)
                 PROVE  chat'[d].user = u /\ t \in chat'[d].tags /\ ~chat'[d].archived
      OBVIOUS
    <3>1. d \in Chats /\ d \in Chat /\ chat[d].user = u /\ t \in chat[d].tags /\ ~chat[d].archived
      BY HolderOf
    <3>2. CASE d # c
      BY <2>1, <3>1, <3>2
    <3>3. CASE d = c
      <4>1. ~(who' = chat[c].user /\ <<"prune", t, 0>> \in ToSet(todo'))
        BY <3>1, <3>3 DEF Awaits
      <4>2. t \in r.tags /\ (r.archived => chat[c].archived)
        BY <3>1, <3>3, <4>1, <1>2
      <4> QED
        BY <2>1, <3>1, <3>3, <4>2, <1>2
    <3> QED
      BY <3>2, <3>3
  <2>5. \A d \in Holders(u, t) : d \in Chats'
    BY <2>2, HolderOf
  <2> QED
    BY <2>3, <2>4, <2>5, HoldersKept

<1>p. ASSUME NEW S, IsFiniteSet(S), todo' \in Prunes(S, 0), who' = chat[c].user
      PROVE  \A t \in S : (who' = chat[c].user /\ <<"prune", t, 0>> \in ToSet(todo'))
  <2>1. \A t \in S : <<"prune", t, 0>> \in ToSet(todo')
    BY <1>p, PruneFacts
  <2> QED
    BY <2>1, <1>p
<1>3. ASSUME NEW t \in Tag, RemoveTag(c, t)
      PROVE  \A u \in User, s \in Tag : HasRow(u, s)' => UsedSoon(u, s)'
  <2>1. /\ c \in Chats /\ chat' = [chat EXCEPT ![c] = [chat[c] EXCEPT !.tags = @ \ {t}]] /\ tag' = tag
        /\ who' = chat[c].user /\ todo' \in Prunes({t}, 0)
    BY <1>3 DEF RemoveTag, Request
  <2> DEFINE r == [chat[c] EXCEPT !.tags = @ \ {t}]
  <2>2. r \in ChatRow /\ r.user = chat[c].user /\ r.tags = chat[c].tags \ {t} /\ r.archived = chat[c].archived
    BY <2>1, <1>r DEF ChatRow
  <2> HIDE DEF r
  <2>3. chat' = [chat EXCEPT ![c] = r]
    BY <2>1 DEF r
  <2>4. IsFiniteSet({t})
    BY FS_Singleton
  <2>5. (who' = chat[c].user /\ <<"prune", t, 0>> \in ToSet(todo'))
    BY <2>1, <2>4, <1>p
  <2> QED
    BY <2>1, <2>2, <2>3, <2>5, <1>2
<1>4. ASSUME c \in Chats, chat' = [chat EXCEPT ![c] = [chat[c] EXCEPT !.tags = {}]], tag' = tag,
             \A t \in chat[c].tags : (who' = chat[c].user /\ <<"prune", t, 0>> \in ToSet(todo'))
      PROVE  \A u \in User, t \in Tag : HasRow(u, t)' => UsedSoon(u, t)'
  <2> DEFINE r == [chat[c] EXCEPT !.tags = {}]
  <2>1. r \in ChatRow /\ r.user = chat[c].user
    BY <1>4, <1>r DEF ChatRow
  <2> HIDE DEF r
  <2>2. chat' = [chat EXCEPT ![c] = r]
    BY <1>4 DEF r
  <2> QED
    BY <1>4, <2>1, <2>2, <1>2
<1>5. CASE DeleteAllTags(c)
  <2>1. /\ chat' = [chat EXCEPT ![c] = [chat[c] EXCEPT !.tags = {}]] /\ tag' = tag
        /\ who' = chat[c].user /\ todo' \in Prunes(chat[c].tags, 0) /\ c \in Chats
    BY <1>5 DEF DeleteAllTags, Request
  <2>2. IsFiniteSet(chat[c].tags)
    BY <2>1, Rows
  <2>3. \A t \in chat[c].tags : (who' = chat[c].user /\ <<"prune", t, 0>> \in ToSet(todo'))
    BY <2>1, <2>2, <1>p
  <2> QED
    BY <2>1, <2>3, <1>4
<1>6. ASSUME NEW ts \in SUBSET Tag, UpdateTags(c, ts)
      PROVE  \A u \in User, t \in Tag : HasRow(u, t)' => UsedSoon(u, t)'
  <2>1. /\ chat' = [chat EXCEPT ![c] = [chat[c] EXCEPT !.tags = {}]] /\ tag' = tag
        /\ who' = chat[c].user /\ c \in Chats
    BY <1>6 DEF UpdateTags, Request
  <2>2. PICK old \in Prunes(chat[c].tags, 0), new \in SetToSeqs(ts) :
          todo' = old \o [i \in DOMAIN new |-> <<"addTag", c, new[i]>>]
    BY <1>6 DEF UpdateTags
  <2>3. IsFiniteSet(chat[c].tags) /\ IsFiniteSet(ts)
    BY <2>1, Rows, LibraryAssumption, FS_Subset
  <2>4. old \in Seq({"prune"} \X chat[c].tags \X {0}) /\ \A t \in chat[c].tags : <<"prune", t, 0>> \in ToSet(old)
    BY <2>3, PruneFacts
  <2>5. [i \in DOMAIN new |-> <<"addTag", c, new[i]>>] \in Seq({"addTag"} \X {c} \X ts)
    <3>1. new \in Seq(ts)
      BY <2>3, Orders
    <3>2. DOMAIN new = 1..Len(new) /\ Len(new) \in Nat /\ \A i \in 1..Len(new) : new[i] \in ts
      BY <3>1
    <3> QED
      BY <3>2
  <2>6. \A t \in chat[c].tags : <<"prune", t, 0>> \in ToSet(todo')
    BY <2>2, <2>4, <2>5, ToSetLeft
  <2>7. \A t \in chat[c].tags : (who' = chat[c].user /\ <<"prune", t, 0>> \in ToSet(todo'))
    BY <2>1, <2>6
  <2> QED
    BY <2>1, <2>7, <1>4
<1>7. CASE ArchiveChat(c)
  <2>1. /\ c \in Chats /\ chat' = [chat EXCEPT ![c] = [chat[c] EXCEPT !.archived = ~@]] /\ tag' = tag
        /\ who' = chat[c].user
        /\ todo' \in IF chat'[c].archived THEN Prunes(chat[c].tags, 0) ELSE All("insertTag", chat[c].tags)
    BY <1>7 DEF ArchiveChat, Request
  <2> DEFINE r == [chat[c] EXCEPT !.archived = ~@]
  <2>2. r \in ChatRow /\ r.user = chat[c].user /\ r.tags = chat[c].tags
    BY <2>1, <1>r DEF ChatRow
  <2>3. chat' = [chat EXCEPT ![c] = r] /\ chat'[c] = r
    BY <2>1, <1>0, <1>r
  <2> HIDE DEF r
  <2>4. IsFiniteSet(chat[c].tags)
    BY <2>1, Rows
  <2>5. CASE r.archived
    <3>1. \A t \in chat[c].tags : (who' = chat[c].user /\ <<"prune", t, 0>> \in ToSet(todo'))
      BY <2>1, <2>3, <2>4, <2>5, <1>p
    <3> QED
      BY <2>1, <2>2, <2>3, <3>1, <1>2
  <2>6. CASE ~r.archived
    BY <2>1, <2>2, <2>3, <2>6, <1>2
  <2> QED
    BY <2>5, <2>6
<1>8. ASSUME NEW f \in Folder \cup {None}, MoveChat(c, f)
      PROVE  \A u \in User, t \in Tag : HasRow(u, t)' => UsedSoon(u, t)'
  <2>1. c \in Chats /\ chat' = [chat EXCEPT ![c] = [chat[c] EXCEPT !.folder = f]] /\ tag' = tag
    BY <1>8 DEF MoveChat
  <2> DEFINE r == [chat[c] EXCEPT !.folder = f]
  <2>2. r \in ChatRow /\ r.user = chat[c].user /\ r.tags = chat[c].tags /\ r.archived = chat[c].archived
    BY <2>1, <1>r DEF ChatRow
  <2> HIDE DEF r
  <2>3. chat' = [chat EXCEPT ![c] = r]
    BY <2>1 DEF r
  <2> QED
    BY <2>1, <2>2, <2>3, <1>2
<1>9. CASE DeleteChat(c) \/ UnshareChat(c) \/ ShareChat(c) \/ ShareAgain(c) \/ \E t \in Tag : AddTag(c, t)
  <2>1. UNCHANGED <<chat, tag>>
    BY <1>9 DEF DeleteChat, UnshareChat, ShareChat, ShareAgain, AddTag
  <2> QED
    BY <2>1, <1>1
<1>10. ASSUME NEW new \in Chat, NEW u \in User, NEW row, Clone(u, new, row)
       PROVE  \A v \in User, t \in Tag : HasRow(v, t)' => UsedSoon(v, t)'
  <2> DEFINE r == [user |-> u, folder |-> row.folder, tags |-> row.tags, archived |-> FALSE, shared |-> FALSE]
  <2>1. chat[new] = Null /\ \A d \in Chat : chat'[d] = IF d = new THEN r ELSE chat[d]
    BY <1>10, <1>0 DEF Clone, Insert
  <2> HIDE DEF r
  <2>2. tag' = tag
    BY <1>10 DEF Clone
  <2>3. \A d \in Chats : d \in Chats' /\ chat'[d] = chat[d]
    BY <2>1 DEF Chats
  <2>4. \A v \in User, t \in Tag : HasRow(v, t) => Used(v, t)'
    BY <2>3, HolderOf, HoldersKept
  <2> QED
    BY <2>2, <2>4 DEF HasRow, UsedSoon
<1>11. ASSUME NEW new \in Chat, CloneChat(c, new) \/ \E u \in User : CloneSharedChat(u, c, new)
       PROVE  \A u \in User, t \in Tag : HasRow(u, t)' => UsedSoon(u, t)'
  <2>1. c \in Chats => chat[c].user \in User
    BY Rows
  <2> QED
    BY <1>11, <2>1, <1>10 DEF CloneChat, CloneSharedChat
<1> QED
  BY <1>3, <1>5, <1>6, <1>7, <1>8, <1>9, <1>11 DEF ChatRequest

LEMMA UsedUser ==
  ASSUME TypeOK, \A v \in User, t \in Tag : HasRow(v, t) => Used(v, t),
         NEW u \in User, UserRequest(u), "bulk" \notin slips'
  PROVE  \A v \in User, t \in Tag : HasRow(v, t)' => UsedSoon(v, t)'
<1>0. chat \in [Chat -> ChatRow \cup {Null, Gone}] /\ \A r \in ChatRow : r # Null /\ r # Gone
  BY Rows DEF TypeOK
<1>1. ASSUME tag' = tag, \A d \in Chats : chat[d].tags # {} => d \in Chats' /\ chat'[d] = chat[d]
      PROVE  \A v \in User, t \in Tag : HasRow(v, t)' => UsedSoon(v, t)'
  <2>1. \A v \in User, t \in Tag : HasRow(v, t) => Used(v, t)'
    BY <1>1, HolderOf, HoldersKept
  <2> QED
    BY <1>1, <2>1 DEF HasRow, UsedSoon
<1>2. CASE ArchiveAll(u)
  <2>1. /\ tag' = tag /\ \A d \in ChatsOf(u) : chat[d].tags = {}
        /\ \A d \in Chat : chat'[d] = IF d \in ChatsOf(u) THEN [chat[d] EXCEPT !.archived = TRUE] ELSE chat[d]
    BY <1>2 DEF ArchiveAll, Slip
  <2> QED
    BY <2>1, <1>1 DEF Chats
<1>3. CASE DeleteAllChats(u) \/ \E f \in Folder, n \in Name : AskFolder(u, f, n)
  <2>1. UNCHANGED <<chat, tag>>
    BY <1>3 DEF DeleteAllChats, AskFolder
  <2> QED
    BY <2>1, <1>1 DEF Chats
<1>4. ASSUME NEW c \in Chat, NEW f \in Folder \cup {None}, NEW ts \in SUBSET Tag, Insert(u, c, f, ts), tag' = tag
      PROVE  \A v \in User, t \in Tag : HasRow(v, t)' => UsedSoon(v, t)'
  <2> DEFINE r == [user |-> u, folder |-> f, tags |-> ts, archived |-> FALSE, shared |-> FALSE]
  <2>1. chat[c] = Null /\ \A d \in Chat : chat'[d] = IF d = c THEN r ELSE chat[d]
    BY <1>4, <1>0 DEF Insert
  <2> HIDE DEF r
  <2>2. \A d \in Chats : d \in Chats' /\ chat'[d] = chat[d]
    BY <2>1 DEF Chats
  <2> QED
    BY <1>4, <2>2, <1>1
<1>5. CASE \E c \in Chat, f \in Folder \cup {None} : CreateNewChat(u, c, f) \/ \E ts \in SUBSET Tag : ImportChat(u, c, f, ts)
  BY <1>5, <1>4 DEF CreateNewChat, ImportChat
<1> QED
  BY <1>2, <1>3, <1>5 DEF UserRequest

LEMMA ToSetRight ==
  ASSUME NEW S, NEW w \in Seq(S), NEW a
  PROVE  /\ a \in ToSet(<<a>> \o w)
         /\ \A x \in ToSet(w) : x \in ToSet(<<a>> \o w)
<1>1. w \in Seq(S \cup {a}) /\ <<a>> \in Seq(S \cup {a})
  BY Wider
<1>2. /\ Len(<<a>> \o w) = 1 + Len(w) /\ (<<a>> \o w)[1] = a /\ DOMAIN (<<a>> \o w) = 1..1 + Len(w)
      /\ \A i \in 1..Len(w) : (<<a>> \o w)[i + 1] = w[i]
  BY <1>1
<1>3. a \in ToSet(<<a>> \o w)
  BY <1>1, <1>2 DEF ToSet
<1>4. ASSUME NEW x \in ToSet(w)
      PROVE  x \in ToSet(<<a>> \o w)
  <2>1. PICK i \in 1..Len(w) : w[i] = x
    BY <1>4 DEF ToSet
  <2>2. i + 1 \in 1..1 + Len(w) /\ (<<a>> \o w)[i + 1] = x
    BY <2>1, <1>1, <1>2
  <2> QED
    BY <1>2, <2>2 DEF ToSet
<1> QED
  BY <1>3, <1>4

LEMMA UsedStep ==
  ASSUME Typed, UsedInv, [Next]_vars
  PROVE  UsedInv'
<1>t. TypeOK /\ Work /\ TypeOK'
  BY TypedStep DEF Typed
<1> SUFFICES ASSUME slips' \cap UsedSlips = {}
             PROVE  \A u \in User, t \in Tag : HasRow(u, t)' => UsedSoon(u, t)'
  <2>1. (UsedInv <=> (slips \cap UsedSlips = {} => \A u \in User, t \in Tag : HasRow(u, t) => UsedSoon(u, t)))'
    BY <1>t, UsedParts, PTL
  <2> QED
    BY <2>1 DEF UsedSlips
<1>0. chat \in [Chat -> ChatRow \cup {Null, Gone}] /\ \A r \in ChatRow : r # Null /\ r # Gone
  BY <1>t, Rows DEF TypeOK
<1>r. \A d \in Chats : chat[d] \in ChatRow /\ d \in Chat /\ chat[d].user \in User
  BY <1>t, Rows
<1>a. ASSUME slips \subseteq slips'
      PROVE  \A u \in User, t \in Tag : HasRow(u, t) => UsedSoon(u, t)
  BY <1>a, <1>t, UsedParts DEF UsedSlips
<1>q. ASSUME slips \subseteq slips', todo = <<>>
      PROVE  \A u \in User, t \in Tag : HasRow(u, t) => Used(u, t)
  <2>1. ToSet(todo) = {}
    BY <1>q DEF ToSet
  <2> QED
    BY <2>1, <1>q, <1>a DEF UsedSoon, Awaits
<1>n. ASSUME slips \subseteq slips', ~(Pruning \/ Adding \/ Linking)
      PROVE  \A u \in User, t \in Tag : HasRow(u, t) => Used(u, t)
  BY <1>n, <1>a, <1>t, UsedNow
<1>h. ASSUME slips \subseteq slips', todo # <<>>, Head(todo)[1] \notin {"prune", "addTag", "tag"}
      PROVE  \A u \in User, t \in Tag : HasRow(u, t) => Used(u, t)
  <2>1. ~Pruning
    <3> SUFFICES ASSUME Pruning
                 PROVE  FALSE
      OBVIOUS
    <3>1. Head(todo) \in {"prune"} \X Tag \X {0}
      BY <1>h, HeadKinds
    <3> QED
      BY <3>1, <1>h
  <2>2. ~Adding
    <3> SUFFICES ASSUME Adding
                 PROVE  FALSE
      OBVIOUS
    <3>1. Head(todo) \in TagSteps
      BY <1>h, HeadKinds
    <3> QED
      BY <3>1, <1>h DEF TagSteps
  <2>3. ~Linking
    BY <1>h, HeadKinds
  <2> QED
    BY <1>h, <1>n, <2>1, <2>2, <2>3
<1>f. ASSUME tag' \subseteq tag, NEW u \in User, NEW t \in Tag, HasRow(u, t)', HasRow(u, t) => Used(u, t),
             \A c \in Holders(u, t) : (c \in Chats /\ chat[c].tags # {}) => c \in Chats' /\ chat'[c].user = chat[c].user
                                      /\ chat[c].tags \subseteq chat'[c].tags /\ (chat'[c].archived => chat[c].archived)
      PROVE  UsedSoon(u, t)'
  <2>1. Used(u, t)
    BY <1>f DEF HasRow
  <2>2. Used(u, t)'
    BY <1>f, <2>1, HolderOf, HoldersKept
  <2> QED
    BY <2>2 DEF UsedSoon
<1>1. ASSUME UNCHANGED <<chat, tag, todo, op, who>>, slips \subseteq slips'
      PROVE  \A u \in User, t \in Tag : HasRow(u, t)' => UsedSoon(u, t)'
  <2>1. \A u \in User, t \in Tag : HasRow(u, t) => UsedSoon(u, t)
    BY <1>1, <1>a
  <2>2. \A u, t : UsedSoon(u, t)' = UsedSoon(u, t) /\ HasRow(u, t)' = HasRow(u, t)
    BY <1>1 DEF UsedSoon, Used, Holders, ChatsOf, Chats, HasRow, Awaits
  <2> QED
    BY <2>1, <2>2
<1>2. CASE UNCHANGED vars
  BY <1>1, <1>2 DEF vars
<1>3. ASSUME NEW c \in Chat, ChatRequest(c)
      PROVE  \A u \in User, t \in Tag : HasRow(u, t)' => UsedSoon(u, t)'
  <2>1. todo = <<>> /\ slips \subseteq slips'
    BY <1>3 DEF ChatRequest, DeleteAllTags, ArchiveChat, DeleteChat, ShareChat, ShareAgain, UnshareChat, MoveChat,
                AddTag, RemoveTag, UpdateTags, CloneChat, CloneSharedChat, Clone, Request, Slip
  <2>2. "hidden" \notin slips'
    BY DEF UsedSlips
  <2>3. \A u \in User, t \in Tag : HasRow(u, t) => Used(u, t)
    BY <1>q, <2>1
  <2> QED
    BY <1>3, <1>t, <2>2, <2>3, UsedRequest
<1>4. ASSUME NEW v \in User, UserRequest(v)
      PROVE  \A u \in User, t \in Tag : HasRow(u, t)' => UsedSoon(u, t)'
  <2>1. CASE \E f \in Folder, n \in Name : AskFolder(v, f, n)
    BY <2>1, <1>1 DEF AskFolder
  <2>2. CASE ~\E f \in Folder, n \in Name : AskFolder(v, f, n)
    <3>1. todo = <<>> /\ slips \subseteq slips'
      BY <1>4, <2>2 DEF UserRequest, ArchiveAll, DeleteAllChats, CreateNewChat, ImportChat, Request, Slip
    <3>2. \A u \in User, t \in Tag : HasRow(u, t) => Used(u, t)
      BY <1>q, <3>1
    <3>3. "bulk" \notin slips'
      BY DEF UsedSlips
    <3> QED
      BY <1>4, <1>t, <3>2, <3>3, UsedUser
  <2> QED
    BY <2>1, <2>2
<1>5. ASSUME NEW f \in Folder, FolderRequest(f)
      PROVE  \A u \in User, t \in Tag : HasRow(u, t)' => UsedSoon(u, t)'
  <2>1. todo = <<>> /\ slips \subseteq slips' /\ UNCHANGED <<chat, tag>>
    BY <1>5 DEF FolderRequest, RenameFolder, MoveFolder, DeleteFolder, Request, Race, Slip
  <2>2. \A u \in User, t \in Tag : HasRow(u, t) => Used(u, t)
    BY <1>q, <2>1
  <2> QED
    BY <2>1, <2>2 DEF HasRow, UsedSoon, Used, Holders, ChatsOf, Chats
<1>6. ASSUME NEW k \in creating, CreateFolder(k)
      PROVE  \A u \in User, t \in Tag : HasRow(u, t)' => UsedSoon(u, t)'
  BY <1>6, <1>1 DEF CreateFolder, Race, Slip
<1>7. CASE GetChildren \/ RemoveFolder \/ DeleteCopies \/ Crash
  <2>1. UNCHANGED <<chat, tag>> /\ slips \subseteq slips'
    BY <1>7 DEF GetChildren, RemoveFolder, DeleteCopies, Crash, Slip
  <2>2. \A u \in User, t \in Tag : HasRow(u, t) => Used(u, t)
    <3>1. CASE GetChildren \/ RemoveFolder \/ DeleteCopies
      <4>1. todo # <<>> /\ Head(todo)[1] \notin {"prune", "addTag", "tag"}
        BY <3>1 DEF GetChildren, RemoveFolder, DeleteCopies, Pending
      <4> QED
        BY <4>1, <2>1, <1>h
    <3>2. CASE Crash
      <4>1. CASE todo = <<>>
        BY <4>1, <2>1, <1>q
      <4>2. CASE todo # <<>>
        <5>1. op \in slips'
          BY <3>2, <4>2 DEF Crash, Slip
        <5>2. ~(Pruning \/ Adding \/ Linking)
          BY <5>1 DEF Pruning, Adding, Linking, UsedSlips
        <5> QED
          BY <5>2, <2>1, <1>n
      <4> QED
        BY <4>1, <4>2
    <3> QED
      BY <1>7, <3>1, <3>2
  <2> QED
    BY <2>1, <2>2 DEF HasRow, UsedSoon, Used, Holders, ChatsOf, Chats

<1>8. CASE InsertTag
  <2>1. UNCHANGED <<chat, who, slips>> /\ todo # <<>> /\ tag' = tag \cup {<<who, Arg>>}
    BY <1>8 DEF InsertTag, Pending
  <2>2. Inserting /\ Head(todo) \in {"insertTag"} \X InUse
    BY <1>8, <1>t, Heads DEF InsertTag
  <2>3. Used(who, Arg)
    BY <2>2 DEF Arg, InUse, Used
  <2>4. \A u \in User, t \in Tag : HasRow(u, t) => Used(u, t)
    <3>1. Head(todo)[1] \notin {"prune", "addTag", "tag"}
      BY <2>2
    <3> QED
      BY <3>1, <2>1, <1>h
  <2> SUFFICES ASSUME NEW u \in User, NEW t \in Tag, HasRow(u, t)'
               PROVE  UsedSoon(u, t)'
    OBVIOUS
  <2>5. Used(u, t)
    BY <2>1, <2>3, <2>4 DEF HasRow
  <2> QED
    BY <2>1, <2>5 DEF UsedSoon, Used, Holders, ChatsOf, Chats
<1>9. CASE EnsureTag
  <2>1. /\ UNCHANGED <<chat, who, slips>> /\ todo # <<>> /\ tag' = tag \cup {<<who, Arg2>>}
        /\ todo' = <<<<"tag", Arg, Arg2>>>> \o Tail(todo)
    BY <1>9 DEF EnsureTag, Pending
  <2>2. Adding /\ Head(todo) \in {"addTag"} \X Tagged \X Tag
    BY <1>9, <1>t, Heads DEF EnsureTag
  <2>3. Arg \in Chat /\ Head(todo)[1] = "addTag"
    BY <2>2 DEF Arg, Tagged, ChatsOf, Chats
  <2>4. Tail(todo) \in Seq(TagSteps) /\ todo \in Seq(TagSteps)
    BY <2>1, <2>2, TailFacts DEF Adding
  <2>5. <<"tag", Arg, Arg2>> \in ToSet(todo')
    <3> HIDE DEF Arg, Arg2
    <3> QED
      BY <2>1, <2>4, ToSetRight
  <2>6. ASSUME NEW x \in ToSet(todo), x # Head(todo)
        PROVE  x \in ToSet(todo')
    <3>1. x \in ToSet(Tail(todo))
      BY <2>1, <2>4, <2>6, ToSetTail
    <3> QED
      BY <2>1, <2>4, <3>1, ToSetRight
  <2> SUFFICES ASSUME NEW u \in User, NEW t \in Tag, HasRow(u, t)'
               PROVE  UsedSoon(u, t)'
    OBVIOUS
  <2>7. CASE <<u, t>> = <<who, Arg2>>
    <3>1. u = who /\ t = Arg2
      BY <2>7
    <3>2. PICK c \in Chat : c = Arg
      BY <2>3
    <3>3. <<"tag", c, t>> \in ToSet(todo') /\ u = who'
      BY <2>1, <2>5, <3>1, <3>2
    <3> QED
      BY <3>3 DEF UsedSoon, Awaits
  <2>8. CASE HasRow(u, t)
    <3>1. UsedSoon(u, t)
      BY <2>1, <2>8, <1>a
    <3>2. CASE Used(u, t)
      BY <2>1, <3>2 DEF UsedSoon, Used, Holders, ChatsOf, Chats
    <3>3. CASE Awaits(u, <<"prune", t, 0>>)
      <4>1. <<"prune", t, 0>> # Head(todo)
        BY <2>3
      <4> QED
        BY <2>1, <2>6, <3>3, <4>1 DEF UsedSoon, Awaits
    <3>4. ASSUME NEW c \in Chat, Awaits(u, <<"tag", c, t>>)
          PROVE  UsedSoon(u, t)'
      <4>1. <<"tag", c, t>> # Head(todo)
        BY <2>3
      <4> QED
        BY <2>1, <2>6, <3>4, <4>1 DEF UsedSoon, Awaits
    <3> QED
      BY <3>1, <3>2, <3>3, <3>4 DEF UsedSoon
  <2> QED
    BY <2>1, <2>7, <2>8 DEF HasRow
<1>10. CASE AddChatTag
  <2>1. /\ UNCHANGED <<tag, who, slips>> /\ todo # <<>> /\ Head(todo)[1] = "tag" /\ todo' = Tail(todo)
        /\ chat' = [chat EXCEPT ![Arg] = [chat[Arg] EXCEPT !.tags = @ \cup {Arg2}]] /\ Linking
    BY <1>10, <1>t, Heads DEF AddChatTag, Pending, Done
  <2>2. PICK c \in Tagged, s \in Tag : Head(todo) = <<"tag", c, s>> /\ <<who, s>> \in tag
    BY <2>1 DEF Linking
  <2>3. Arg = c /\ Arg2 = s /\ c \in Chats /\ c \in Chat /\ chat[c] \in ChatRow /\ chat[c].user = who
    BY <1>t, <2>2, Rows DEF Arg, Arg2, Tagged, ChatsOf
  <2> DEFINE r == [chat[c] EXCEPT !.tags = @ \cup {s}]
  <2>4. r \in ChatRow /\ r.user = chat[c].user /\ r.archived = chat[c].archived /\ r.tags = chat[c].tags \cup {s}
    BY <2>3 DEF ChatRow
  <2>5. \A d \in Chat : chat'[d] = IF d = c THEN r ELSE chat[d]
    BY <2>1, <2>3, <1>0
  <2> HIDE DEF r
  <2>6. Chats' = Chats
    BY <2>3, <2>4, <2>5, <1>0 DEF Chats
  <2>7. ~chat[c].archived
    <3>1. "hidden" \notin slips
      BY <2>1 DEF UsedSlips
    <3> QED
      BY <3>1 DEF Tagged
  <2>8. \A u \in User, t \in Tag : Used(u, t) => Used(u, t)'
    <3> SUFFICES ASSUME NEW u \in User, NEW t \in Tag, Used(u, t)
                 PROVE  Used(u, t)'
      OBVIOUS
    <3>1. \A d \in Holders(u, t) : chat'[d].user = u /\ t \in chat'[d].tags /\ ~chat'[d].archived
      BY <2>4, <2>5, HolderOf
    <3>2. \A d \in Holders(u, t) : d \in Chats'
      BY <2>6, HolderOf
    <3> QED
      BY <3>1, <3>2, HoldersKept
  <2>9. Used(who, s)'
    BY <2>1, <2>3, <2>4, <2>5, <2>6, <2>7 DEF Used, Holders, ChatsOf
  <2>10. todo \in Seq(TagSteps \cup ({"tag"} \X Tagged \X Tag))
    BY <2>1 DEF Linking
  <2> SUFFICES ASSUME NEW u \in User, NEW t \in Tag, HasRow(u, t), ~Used(u, t)'
               PROVE  UsedSoon(u, t)'
    BY <2>1 DEF HasRow, UsedSoon
  <2>11. UsedSoon(u, t) /\ ~Used(u, t) /\ <<u, t>> # <<who, s>>
    <3>1. UsedSoon(u, t)
      BY <2>1, <1>a
    <3> QED
      BY <2>1, <2>8, <2>9, <3>1
  <2>12. u = who /\ t # s
    BY <2>11 DEF UsedSoon, Awaits
  <2>13. ASSUME NEW x \in ToSet(todo), x # Head(todo)
         PROVE  x \in ToSet(todo')
    BY <2>1, <2>10, <2>13, ToSetTail
  <2>14. CASE Awaits(u, <<"prune", t, 0>>)
    <3>1. <<"prune", t, 0>> # Head(todo)
      BY <2>1
    <3> QED
      BY <2>1, <2>13, <2>14, <3>1 DEF UsedSoon, Awaits
  <2>15. ASSUME NEW d \in Chat, Awaits(u, <<"tag", d, t>>)
         PROVE  UsedSoon(u, t)'
    <3>1. <<"tag", d, t>> # Head(todo)
      BY <2>2, <2>12
    <3> QED
      BY <2>1, <2>13, <2>15, <3>1 DEF UsedSoon, Awaits
  <2> QED
    BY <2>11, <2>14, <2>15 DEF UsedSoon

<1>u. who \in User
  BY <1>t DEF TypeOK
<1>11. CASE Prune
  <2>1. /\ UNCHANGED <<chat, op, who, slips>> /\ todo # <<>> /\ todo' = Tail(todo)
        /\ tag' = IF Cardinality(Holders(who, Arg)) = Arg2 THEN tag \ {<<who, Arg>>} ELSE tag
    BY <1>11 DEF Prune, Pending, Done
  <2>2. \A u \in User, t \in Tag : HasRow(u, t)' => UsedSoon(u, t)
    BY <2>1, <1>a DEF HasRow
  <2>3. \A u, t : Used(u, t)' = Used(u, t)
    BY <2>1 DEF Used, Holders, ChatsOf, Chats
  <2>4. CASE (Pruning \/ Adding) /\ Head(todo) \in {"prune"} \X Tag \X {0}
    <3>1. Arg2 = 0 /\ Head(todo)[1] = "prune"
      BY <2>4 DEF Arg2
    <3>2. \E S : todo \in Seq(S)
      BY <2>4 DEF Pruning, Adding
    <3>3. Head(todo) = <<"prune", Arg, 0>>
      BY <2>4 DEF Arg
    <3> SUFFICES ASSUME NEW u \in User, NEW t \in Tag, HasRow(u, t)', ~Used(u, t)
                 PROVE  UsedSoon(u, t)'
      BY <2>3 DEF UsedSoon
    <3>4. UsedSoon(u, t)
      BY <2>2
    <3>5. <<u, t>> # <<who, Arg>>
      <4> SUFFICES ASSUME u = who, t = Arg
                   PROVE  FALSE
        OBVIOUS
      <4>1. Cardinality(Holders(who, t)) = 0
        BY FS_EmptySet DEF Used
      <4> QED
        BY <2>1, <3>1, <4>1 DEF HasRow
    <3>6. ASSUME NEW x \in ToSet(todo), x # Head(todo)
          PROVE  x \in ToSet(todo')
      BY <2>1, <3>2, <3>6, ToSetTail
    <3>7. CASE Awaits(u, <<"prune", t, 0>>)
      <4>1. t # Arg
        BY <3>5, <3>7 DEF Awaits
      <4>2. <<"prune", t, 0>> # Head(todo)
        BY <4>1, <3>3
      <4> QED
        BY <2>1, <3>6, <3>7, <4>2 DEF UsedSoon, Awaits
    <3>8. ASSUME NEW d \in Chat, Awaits(u, <<"tag", d, t>>)
          PROVE  UsedSoon(u, t)'
      <4>1. <<"tag", d, t>> # Head(todo)
        BY <3>1
      <4> QED
        BY <2>1, <3>6, <3>8, <4>1 DEF UsedSoon, Awaits
    <3> QED
      BY <3>4, <3>7, <3>8 DEF UsedSoon
  <2>5. ASSUME NEW c \in Chat, DeletionWork(c)
        PROVE  \A u \in User, t \in Tag : HasRow(u, t)' => UsedSoon(u, t)'
    <3>1. ~(Pruning \/ Adding \/ Linking)
      BY <2>5 DEF DeletionWork, Pruning, Adding, Linking
    <3> QED
      BY <1>t, <2>2, <2>3, <3>1, UsedNow DEF UsedSoon
  <2> QED
    BY <1>11, <1>t, <2>4, <2>5, Heads DEF Prune
<1>12. CASE DeleteRow
  <2>1. PICK c \in Chat : DeletionWork(c) /\ Len(todo) = 2
    BY <1>12, <1>t, Heads DEF DeleteRow
  <2>2. Head(todo) = <<"delete", c>> /\ c \in ChatsOf(who)
    BY <2>1, DeletionHead
  <2>3. Arg = c
    BY <2>2 DEF Arg
  <2>4. chat' = [chat EXCEPT ![c] = Gone] /\ UNCHANGED <<tag, slips>>
    BY <1>12, <2>3 DEF DeleteRow
  <2>5. \A d \in Chat : chat'[d] = IF d = c THEN Gone ELSE chat[d]
    BY <2>4, <1>0
  <2>6. \A u \in User, t \in Tag : HasRow(u, t) => Used(u, t)
    <3>1. ~(Pruning \/ Adding \/ Linking)
      BY <2>1 DEF DeletionWork, Pruning, Adding, Linking
    <3> QED
      BY <2>4, <3>1, <1>n
  <2>7. \A t \in chat[c].tags : HasRow(who, t) /\ ~chat[c].archived => Holders(who, t) # {c}
    <3>1. Len(todo) - 2 = 0 /\ ~\E i \in 1..0 : TRUE
      BY <2>1
    <3> QED
      BY <2>1, <3>1 DEF DeletionWork, HasRow
  <2> SUFFICES ASSUME NEW u \in User, NEW t \in Tag, HasRow(u, t)
               PROVE  Used(u, t)'
    BY <2>4 DEF HasRow, UsedSoon
  <2>8. PICK d \in Holders(u, t) : d # c
    <3>1. Holders(u, t) # {}
      BY <2>6 DEF Used
    <3>2. Holders(u, t) # {c}
      <4> SUFFICES ASSUME Holders(u, t) = {c}
                   PROVE  FALSE
        OBVIOUS
      <4>1. chat[c].user = u /\ t \in chat[c].tags /\ ~chat[c].archived
        BY HolderOf
      <4> QED
        BY <2>2, <2>7, <4>1 DEF ChatsOf
    <3> QED
      BY <3>1, <3>2
  <2>9. d \in Chats' /\ chat'[d] = chat[d]
    BY <2>5, <2>8, HolderOf DEF Chats
  <2> QED
    BY <2>9, HolderOf DEF Used, Holders, ChatsOf
<1>13. ASSUME \A u \in User, t \in Tag : HasRow(u, t) => Used(u, t), tag' = tag,
              \A d \in Chats : chat[d].tags # {} => /\ d \in Chats' /\ chat'[d].user = chat[d].user
                                                    /\ chat'[d].tags = chat[d].tags
                                                    /\ chat'[d].archived = chat[d].archived
       PROVE  \A u \in User, t \in Tag : HasRow(u, t)' => UsedSoon(u, t)'
  <2>1. \A u \in User, t \in Tag : HasRow(u, t) => Used(u, t)'
    BY <1>13, HolderOf, HoldersKept
  <2> QED
    BY <1>13, <2>1 DEF HasRow, UsedSoon
<1>14. CASE DeleteRows
  <2>1. UNCHANGED <<tag, slips>> /\ todo # <<>> /\ Head(todo)[1] = "deleteAll"
        /\ chat' = [c \in Chat |-> IF c \in ChatsOf(Arg) THEN Gone ELSE chat[c]] /\ DeletingAll
    BY <1>14, <1>t, Heads DEF DeleteRows, Pending
  <2>2. Arg = who
    <3>1. todo = <<<<"uncopy", ChatsOf(who)>>, <<"deleteAll", who>>>> \/ todo = <<<<"deleteAll", who>>>>
      BY <2>1 DEF DeletingAll
    <3>2. CASE todo = <<<<"uncopy", ChatsOf(who)>>, <<"deleteAll", who>>>>
      <4>1. Head(todo) = <<"uncopy", ChatsOf(who)>>
        BY <3>2, TwoLeft
      <4> QED
        BY <2>1, <4>1
    <3>3. CASE todo = <<<<"deleteAll", who>>>>
      <4>1. Head(todo) = <<"deleteAll", who>>
        BY <3>3, OneLeft
      <4> QED
        BY <4>1 DEF Arg
    <3> QED
      BY <3>1, <3>2, <3>3
  <2>3. \A c \in ChatsOf(who) : chat[c].tags = {}
    BY <2>1 DEF DeletingAll, UsedSlips
  <2>4. \A d \in Chats : chat[d].tags # {} => d \in Chats' /\ chat'[d] = chat[d]
    BY <2>1, <2>2, <2>3 DEF Chats
  <2>5. \A u \in User, t \in Tag : HasRow(u, t) => Used(u, t)
    BY <2>1, <1>h
  <2> QED
    BY <2>1, <2>4, <2>5, <1>13
<1>15. CASE EmptyFolder
  <2> DEFINE S == {c \in ChatsOf(who) : chat[c].folder = Arg}
  <2>1. /\ tag' = tag /\ slips \subseteq slips' /\ ((\E c \in S : chat[c].tags # {}) => "bulk" \in slips')
        /\ \A d \in Chat : chat'[d] = IF d \in S THEN Gone ELSE chat[d]
        /\ todo # <<>> /\ Head(todo)[1] = "empty"
    BY <1>15 DEF EmptyFolder, Pending
  <2>2. \A d \in S : chat[d].tags = {}
    BY <2>1 DEF UsedSlips
  <2> HIDE DEF S
  <2>3. \A d \in Chats : chat[d].tags # {} => d \in Chats' /\ chat'[d] = chat[d]
    BY <2>1, <2>2 DEF Chats
  <2>4. \A u \in User, t \in Tag : HasRow(u, t) => Used(u, t)
    BY <2>1, <1>h
  <2> QED
    BY <2>1, <2>3, <2>4, <1>13
<1>16. CASE SetShareId
  <2>1. /\ UNCHANGED <<tag, slips>> /\ todo # <<>> /\ Head(todo)[1] = "link"
        /\ chat' = [chat EXCEPT ![Arg] = [chat[Arg] EXCEPT !.shared = Arg2]]
    BY <1>16 DEF SetShareId, Pending
  <2>2. Arg \in Chats
    BY <1>16, <1>t, LinkedChat DEF SetShareId
  <2> DEFINE r == [chat[Arg] EXCEPT !.shared = Arg2]
  <2>3. r.user = chat[Arg].user /\ r.tags = chat[Arg].tags /\ r.archived = chat[Arg].archived
    BY <2>2, <1>r DEF ChatRow
  <2>4. \A d \in Chat : chat'[d] = IF d = Arg THEN r ELSE chat[d]
    BY <2>1, <2>2, <1>r, <1>0
  <2>5. r \in ChatRow
    <3>1. Arg2 \in BOOLEAN
      BY <1>16, <1>t, LinkedChat DEF SetShareId
    <3> QED
      BY <2>2, <3>1, <1>r DEF ChatRow
  <2> HIDE DEF r
  <2>6. \A d \in Chats : /\ d \in Chats' /\ chat'[d].user = chat[d].user /\ chat'[d].tags = chat[d].tags
                         /\ chat'[d].archived = chat[d].archived
    BY <2>3, <2>4, <2>5, <1>0, <1>r DEF Chats
  <2>7. \A u \in User, t \in Tag : HasRow(u, t) => Used(u, t)
    BY <2>1, <1>h
  <2> QED
    BY <2>1, <2>6, <2>7, <1>13
<1> QED
  BY <1>2, <1>3, <1>4, <1>5, <1>6, <1>7, <1>8, <1>9, <1>10, <1>11, <1>12, <1>14, <1>15, <1>16 DEF Next, Rest

(* TagsUsed: the tags with rows are in use, except while a handler that    *)
(* removes or adds one is at work, and after a crash in one, the deletion  *)
(* or archiving of chats in bulk, or tags given to an archived chat.       *)
THEOREM ListedTagsAreUsed == Spec => []TagsUsed
<1>1. Spec => [](Typed /\ UsedInv)
  <2>1. Init => Typed /\ UsedInv
    <3>1. Init => UsedInv
      BY DEF Init, UsedInv
    <3> QED
      BY <3>1, TypedInit
  <2>2. Typed /\ UsedInv /\ [Next]_vars => (Typed /\ UsedInv)'
    BY TypedStep, UsedStep
  <2> QED
    BY <2>1, <2>2, PTL DEF Spec
<1>2. Typed /\ UsedInv => TagsUsed
  <2> SUFFICES ASSUME Typed, UsedInv, ~Excused(UsedSlips)
               PROVE  \A row \in tag : Holders(row[1], row[2]) # {}
    BY DEF TagsUsed, UsedSlips
  <2>1. TypeOK /\ Work /\ slips \cap UsedSlips = {} /\ (todo # <<>> => op \notin UsedSlips)
    BY DEF Typed, Excused
  <2>2. \A u \in User, t \in Tag : HasRow(u, t) => UsedSoon(u, t)
    BY <2>1, UsedParts
  <2>3. \A u \in User, t \in Tag : HasRow(u, t) => Used(u, t)
    <3>1. CASE todo = <<>>
      <4>1. ToSet(todo) = {}
        BY <3>1 DEF ToSet
      <4> QED
        BY <2>2, <4>1 DEF UsedSoon, Awaits
    <3>2. CASE todo # <<>>
      <4>1. ~(Pruning \/ Adding \/ Linking)
        BY <2>1, <3>2 DEF Pruning, Adding, Linking, UsedSlips
      <4> QED
        BY <2>1, <2>2, <4>1, UsedNow
    <3> QED
      BY <3>1, <3>2
  <2>4. tag \subseteq User \X Tag
    BY <2>1 DEF TypeOK
  <2>5. \A row \in tag : row[1] \in User /\ row[2] \in Tag /\ row = <<row[1], row[2]>>
    BY <2>4
  <2> QED
    BY <2>3, <2>5 DEF HasRow, Used
<1> QED
  BY <1>1, <1>2, PTL

-----------------------------------------------------------------------------
(* Folders.  Closed sets, by which Below is defined.                       *)
Up(S) == \A g \in S : folder[g].parent \in Folders => folder[g].parent \in S

LEMMA FolderRows ==
  ASSUME TypeOK
  PROVE  /\ \A r \in FolderRow : r # Null /\ r # Gone
         /\ \A f \in Folders :
              /\ f \in Folder /\ folder[f] \in FolderRow /\ folder[f].user \in User
              /\ folder[f].parent \in Folder \cup {None} /\ folder[f].name \in Name
         /\ None \notin Folders /\ Null # Gone
<1>1. \A r \in FolderRow : r # Null /\ r # Gone
  BY LibraryAssumption
<1>2. \A f \in Folders : f \in Folder /\ folder[f] \in FolderRow
  BY DEF Folders, TypeOK
<1>3. None \notin Folders /\ Null # Gone
  BY LibraryAssumption DEF Folders
<1> QED
  BY <1>1, <1>2, <1>3 DEF FolderRow

LEMMA BelowUp ==
  ASSUME NEW f, NEW p
  PROVE  Below(f, p) <=> \A S \in SUBSET Folders : f \in S /\ Up(S) => p \in S
  BY DEF Below, Up

LEMMA BelowParent ==
  ASSUME NEW f \in Folders, folder[f].parent \in Folders, NEW g
  PROVE  Below(folder[f].parent, g) => Below(f, g)
  BY DEF Below

(* What is above a folder, and not that folder, is above its parent.       *)
LEMMA StepUp ==
  ASSUME NEW f \in Folders, NEW g, Below(f, g), f # g
  PROVE  folder[f].parent \in Folders /\ Below(folder[f].parent, g)
<1>1. folder[f].parent \in Folders
  <2> SUFFICES ASSUME folder[f].parent \notin Folders
               PROVE  FALSE
    OBVIOUS
  <2>1. {f} \in SUBSET Folders /\ Up({f})
    BY DEF Up
  <2> QED
    BY <2>1, BelowUp
<1>2. ASSUME NEW S \in SUBSET Folders, folder[f].parent \in S, Up(S)
      PROVE  g \in S
  <2>1. (S \cup {f}) \in SUBSET Folders /\ Up(S \cup {f})
    BY <1>2 DEF Up
  <2>2. g \in S \cup {f}
    BY <2>1, BelowUp
  <2> QED
    BY <2>2
<1> QED
  BY <1>1, <1>2, BelowUp

(* A folder that is below one without a parent is not below itself.        *)
LEMMA NoLoop ==
  ASSUME TypeOK, NEW u, NEW f, Reachable(u, f), folder[f].parent \in Folders
  PROVE  ~Below(folder[f].parent, f)
<1> SUFFICES ASSUME Below(folder[f].parent, f)
             PROVE  FALSE
  OBVIOUS
<1>1. PICK r \in Siblings(u, None) : Below(f, r)
  BY DEF Reachable
<1>2. f \in Folders /\ r \in Folders /\ folder[r].parent = None /\ None \notin Folders
  BY FolderRows DEF Reachable, FoldersOf, Siblings
<1> DEFINE S == {x \in Folders : Below(f, x) /\ Below(x, f)}
<1>3. f \in S
  BY <1>2 DEF Below
<1>4. ASSUME NEW x \in S, folder[x].parent \in Folders
      PROVE  folder[x].parent \in S
  <2>1. Below(f, folder[x].parent)
    BY <1>4 DEF Below
  <2>2. Below(folder[x].parent, f)
    <3>1. CASE x = f
      BY <3>1
    <3>2. CASE x # f
      BY <1>4, <3>2, StepUp
    <3> QED
      BY <3>1, <3>2
  <2> QED
    BY <1>4, <2>1, <2>2
<1>5. S \in SUBSET Folders /\ Up(S)
  <2> HIDE DEF S
  <2>1. Up(S)
    BY <1>4 DEF Up
  <2> QED
    BY <2>1 DEF S
<1>6. r \in S
  <2> HIDE DEF S
  <2> QED
    BY <1>1, <1>3, <1>5, BelowUp
<1>7. {r} \in SUBSET Folders /\ Up({r})
  BY <1>2 DEF Up
<1>8. f = r
  BY <1>6, <1>7, BelowUp
<1> QED
  BY <1>2, <1>8

LEMMA Depths ==
  ASSUME TypeOK, Tree
  PROVE  \E depth \in [Folder -> 0..Cardinality(Folder)] :
           \A f \in Folders : folder[f].parent # None => depth[folder[f].parent] < depth[f]
<1> DEFINE Above(f) == {x \in Folders : Below(f, x)}
           depth == [f \in Folder |-> Cardinality(Above(f))]
<1>1. \A f \in Folder : IsFiniteSet(Above(f)) /\ Cardinality(Above(f)) \in 0..Cardinality(Folder)
  <2> SUFFICES ASSUME NEW f \in Folder
               PROVE  IsFiniteSet(Above(f)) /\ Cardinality(Above(f)) \in 0..Cardinality(Folder)
    OBVIOUS
  <2>1. Above(f) \in SUBSET Folder
    BY DEF Folders
  <2> HIDE DEF Above
  <2>2. IsFiniteSet(Above(f)) /\ Cardinality(Above(f)) <= Cardinality(Folder)
    BY <2>1, LibraryAssumption, FS_Subset
  <2>3. Cardinality(Above(f)) \in Nat /\ Cardinality(Folder) \in Nat
    BY <2>2, LibraryAssumption, FS_CardinalityType
  <2> QED
    BY <2>2, <2>3
<1>2. ASSUME NEW f \in Folders, folder[f].parent # None
      PROVE  Cardinality(Above(folder[f].parent)) < Cardinality(Above(f))
  <2> DEFINE p == folder[f].parent
  <2>1. p \in Folders /\ p \in Folder /\ f \in Folder
    BY <1>2, FolderRows DEF Tree, Parents, FoldersOf
  <2>2. Above(p) \in SUBSET Above(f)
    BY <2>1, BelowParent
  <2>3. f \in Above(f)
    BY DEF Below
  <2>4. f \notin Above(p)
    BY <2>1, NoLoop DEF Tree
  <2> HIDE DEF Above, p
  <2>5. Cardinality(Above(p)) <= Cardinality(Above(f)) /\ Cardinality(Above(p)) # Cardinality(Above(f))
    BY <1>1, <2>1, <2>2, <2>3, <2>4, FS_Subset
  <2>6. Cardinality(Above(p)) \in 0..Cardinality(Folder) /\ Cardinality(Above(f)) \in 0..Cardinality(Folder)
    BY <1>1, <2>1
  <2>7. Cardinality(Folder) \in Nat
    BY LibraryAssumption, FS_CardinalityType
  <2>8. Cardinality(Above(p)) < Cardinality(Above(f))
    BY <2>5, <2>6, <2>7
  <2> QED
    BY <2>8 DEF p
<1> HIDE DEF Above
<1>3. depth \in [Folder -> 0..Cardinality(Folder)]
  BY <1>1
<1>4. \A f \in Folders : folder[f].parent # None => depth[folder[f].parent] < depth[f]
  <2> SUFFICES ASSUME NEW f \in Folders, folder[f].parent # None
               PROVE  depth[folder[f].parent] < depth[f]
    OBVIOUS
  <2>1. folder[f].parent \in Folder /\ f \in Folder
    BY FolderRows DEF Tree, Parents, FoldersOf, Folders
  <2> QED
    BY <1>2, <2>1
<1> QED
  BY <1>3, <1>4

(* The steps that move folders.                                            *)
LEMMA FolderChanges ==
  ASSUME [Next]_vars
  PROVE  /\ slips \subseteq slips'
         /\ \/ folder' = folder /\ creating' \subseteq creating
            \/ \E u \in User, f \in Folder, n \in Name : AskFolder(u, f, n)
            \/ \E k \in creating : CreateFolder(k)
            \/ \E f \in Folder, n \in Name : RenameFolder(f, n)
            \/ \E f \in Folder, p \in Folder \cup {None} : MoveFolder(f, p)
            \/ RemoveFolder
<1>1. CASE UNCHANGED vars
  BY <1>1 DEF vars
<1>2. ASSUME NEW c \in Chat, ChatRequest(c)
      PROVE  UNCHANGED <<folder, creating>> /\ slips \subseteq slips'
  <2>1. CASE DeleteAllTags(c) \/ ArchiveChat(c) \/ DeleteChat(c)
    BY <2>1 DEF DeleteAllTags, ArchiveChat, DeleteChat, Slip
  <2>2. CASE ShareChat(c) \/ ShareAgain(c) \/ UnshareChat(c)
    BY <2>2 DEF ShareChat, ShareAgain, UnshareChat
  <2>3. ASSUME NEW f \in Folder \cup {None}, MoveChat(c, f)
        PROVE  UNCHANGED <<folder, creating>> /\ slips \subseteq slips'
    BY <2>3 DEF MoveChat, Slip
  <2>4. ASSUME NEW t \in Tag, AddTag(c, t) \/ RemoveTag(c, t)
        PROVE  UNCHANGED <<folder, creating>> /\ slips \subseteq slips'
    BY <2>4 DEF AddTag, RemoveTag, Slip
  <2>5. ASSUME NEW ts \in SUBSET Tag, UpdateTags(c, ts)
        PROVE  UNCHANGED <<folder, creating>> /\ slips \subseteq slips'
    BY <2>5 DEF UpdateTags, Slip
  <2>6. ASSUME NEW new \in Chat, CloneChat(c, new) \/ \E u \in User : CloneSharedChat(u, c, new)
        PROVE  UNCHANGED <<folder, creating>> /\ slips \subseteq slips'
    BY <2>6 DEF CloneChat, CloneSharedChat, Clone, Slip
  <2> QED
    BY <1>2, <2>1, <2>2, <2>3, <2>4, <2>5, <2>6 DEF ChatRequest
<1>3. ASSUME NEW u \in User, UserRequest(u)
      PROVE  /\ slips \subseteq slips'
             /\ UNCHANGED <<folder, creating>> \/ \E f \in Folder, n \in Name : AskFolder(u, f, n)
  BY <1>3 DEF UserRequest, ArchiveAll, DeleteAllChats, AskFolder, CreateNewChat, ImportChat, Slip
<1>4. ASSUME NEW f \in Folder, FolderRequest(f)
      PROVE  /\ slips \subseteq slips'
             /\ \/ UNCHANGED <<folder, creating>> \/ (\E n \in Name : RenameFolder(f, n))
                \/ \E p \in Folder \cup {None} : MoveFolder(f, p)
  BY <1>4 DEF FolderRequest, RenameFolder, MoveFolder, DeleteFolder, Race, Slip
<1>5. ASSUME NEW k \in creating, CreateFolder(k)
      PROVE  slips \subseteq slips'
  BY <1>5 DEF CreateFolder, Race, Slip
<1>6. CASE RemoveFolder
  BY <1>6 DEF RemoveFolder
<1>7. CASE EnsureTag \/ InsertTag \/ AddChatTag \/ Prune \/ DeleteRow \/ DeleteRows \/ DeleteCopies \/ SetShareId
             \/ GetChildren \/ EmptyFolder
  <2>1. UNCHANGED <<folder, creating>> /\ slips \subseteq slips'
    BY <1>7 DEF EnsureTag, InsertTag, AddChatTag, Prune, DeleteRow, DeleteRows, DeleteCopies, SetShareId, GetChildren,
                EmptyFolder
  <2> QED
    BY <2>1
<1>8. CASE Crash
  BY <1>8 DEF Crash, Slip
<1> QED
  BY <1>1, <1>2, <1>3, <1>4, <1>5, <1>6, <1>7, <1>8 DEF Next, Rest

(* A folder stays below a folder without a parent: every set that is       *)
(* closed afterwards holds one that was closed before.                     *)
LEMMA StillReachable ==
  ASSUME NEW u, NEW f, NEW r, Reachable(u, f), r \in Siblings(u, None), Below(f, r),
         f \in FoldersOf(u)', r \in Siblings(u, None)',
         \A S \in SUBSET Folders' :
           f \in S /\ (\A g \in S : folder'[g].parent \in Folders' => folder'[g].parent \in S)
             => \E T \in SUBSET Folders : T \subseteq S /\ f \in T /\ Up(T)
  PROVE  Reachable(u, f)'
<1>1. Below(f, r)'
  <2> SUFFICES ASSUME NEW S \in SUBSET Folders', f \in S,
                      \A g \in S : folder'[g].parent \in Folders' => folder'[g].parent \in S
               PROVE  r \in S
    BY DEF Below
  <2>1. PICK T \in SUBSET Folders : T \subseteq S /\ f \in T /\ Up(T)
    OBVIOUS
  <2>2. r \in T
    BY <2>1, BelowUp
  <2> QED
    BY <2>1, <2>2
<1> QED
  BY <1>1 DEF Reachable

LEMMA TreeCreate ==
  ASSUME TypeOK, Tree, NEW k \in creating, CreateFolder(k)
  PROVE  Tree'
<1> DEFINE row == [user |-> k.user, parent |-> None, name |-> k.name]
<1>1. /\ k.id \in Folder /\ folder[k.id] = Null /\ k.id \notin Folders
      /\ creating' = creating \ {k}
      /\ \A g \in Folder : folder'[g] = IF g = k.id THEN row ELSE folder[g]
  BY DEF CreateFolder, TypeOK, Tree, NewIds, Folders
<1>2. row \in FolderRow /\ row.user = k.user /\ row.parent = None
  BY DEF TypeOK, FolderRow
<1> HIDE DEF row
<1>3. /\ Folders' = Folders \cup {k.id} /\ \A g \in Folders : folder'[g] = folder[g]
      /\ folder'[k.id] = row /\ None \notin Folders'
  BY <1>1, <1>2, FolderRows, LibraryAssumption DEF Folders
<1>4. NewIds'
  BY <1>1 DEF Tree, NewIds, TypeOK
<1>5. Parents'
  BY <1>2, <1>3 DEF Tree, Parents, FoldersOf
<1>6. ASSUME NEW f \in Folders
      PROVE  Reachable(folder[f].user, f)'
  <2> DEFINE u == folder[f].user
  <2>1. Reachable(u, f)
    BY DEF Tree
  <2>2. PICK r \in Siblings(u, None) : Below(f, r)
    BY <2>1 DEF Reachable
  <2>3. ASSUME NEW v, v = u
        PROVE  Reachable(v, f)'
    <3>1. f \in FoldersOf(v)' /\ r \in Siblings(v, None)'
      BY <1>3, <2>3 DEF FoldersOf, Siblings
    <3>2. ASSUME NEW S \in SUBSET Folders', f \in S,
                 \A g \in S : folder'[g].parent \in Folders' => folder'[g].parent \in S
          PROVE  \E T \in SUBSET Folders : T \subseteq S /\ f \in T /\ Up(T)
      <4> DEFINE T == S \ {k.id}
      <4>1. T \in SUBSET Folders /\ T \subseteq S /\ f \in T
        BY <1>1, <1>3, <3>2
      <4>2. Up(T)
        BY <1>1, <1>3, <3>2 DEF Up
      <4> QED
        BY <4>1, <4>2
    <3> QED
      BY <2>1, <2>2, <2>3, <3>1, <3>2, StillReachable
  <2>4. folder'[f].user = u
    BY <1>3
  <2> QED
    BY <2>3, <2>4
<1>7. Reachable(k.user, k.id)'
  <2>1. ASSUME NEW u, NEW f, u = k.user, f = k.id
        PROVE  Reachable(u, f)'
    <3>1. f \in FoldersOf(u)' /\ f \in Siblings(u, None)'
      BY <1>2, <1>3, <2>1 DEF FoldersOf, Siblings
    <3>2. Below(f, f)'
      BY DEF Below
    <3> QED
      BY <3>1, <3>2 DEF Reachable
  <2> QED
    BY <2>1
<1> QED
  BY <1>2, <1>3, <1>4, <1>5, <1>6, <1>7 DEF Tree

(* Folders keep their places, or some go in which there are no others.     *)
LEMMA TreeShrinks ==
  ASSUME Tree, Folders' \subseteq Folders, creating' \subseteq creating,
         \A k \in creating' : folder'[k.id] = Null,
         \A f \in Folders' : folder'[f].parent = folder[f].parent /\ folder'[f].user = folder[f].user,
         \A f \in Folders' : folder[f].parent \in Folders => folder[f].parent \in Folders'
  PROVE  Tree'
<1>1. NewIds'
  BY DEF Tree, NewIds
<1>2. Parents'
  BY DEF Tree, Parents, FoldersOf
<1>3. ASSUME NEW f \in Folders'
      PROVE  Reachable(folder[f].user, f)'
  <2>1. ASSUME NEW u, u = folder[f].user
        PROVE  Reachable(u, f)'
    <3>1. Reachable(u, f)
      BY <2>1 DEF Tree
    <3>2. PICK r \in Siblings(u, None) : Below(f, r)
      BY <3>1 DEF Reachable
    <3>3. \A S \in SUBSET Folders' :
             (\A g \in S : folder'[g].parent \in Folders' => folder'[g].parent \in S) => S \in SUBSET Folders /\ Up(S)
      BY DEF Up
    <3>4. r \in Folders'
      <4>1. \A g \in Folders' : folder'[g].parent \in Folders' => folder'[g].parent \in Folders'
        OBVIOUS
      <4>2. Folders' \in SUBSET Folders /\ Up(Folders')
        BY <3>3, <4>1
      <4> QED
        BY <3>2, <4>2, BelowUp
    <3>5. f \in FoldersOf(u)' /\ r \in Siblings(u, None)'
      BY <2>1, <3>2, <3>4 DEF FoldersOf, Siblings
    <3> QED
      BY <3>1, <3>2, <3>3, <3>5, StillReachable
  <2>2. folder'[f].user = folder[f].user
    OBVIOUS
  <2> QED
    BY <2>1, <2>2
<1> QED
  BY <1>1, <1>2, <1>3 DEF Tree

(* The parts of a set, closed after f has been moved, above a folder that  *)
(* was not below f.                                                        *)
LEMMA Untouched ==
  ASSUME NEW f, NEW S \in SUBSET Folders, NEW h \in S, ~Below(h, f),
         \A g \in S : g # f /\ folder[g].parent \in Folders => folder[g].parent \in S
  PROVE  \E T \in SUBSET Folders : T \subseteq S /\ h \in T /\ Up(T)
<1> DEFINE T == {x \in S : Below(h, x)}
<1>1. h \in T
  BY DEF Below
<1>2. ASSUME NEW g \in T, folder[g].parent \in Folders
      PROVE  folder[g].parent \in T
  <2>1. g # f /\ folder[g].parent \in S
    BY <1>2
  <2>2. Below(h, folder[g].parent)
    BY <1>2 DEF Below
  <2> QED
    BY <2>1, <2>2
<1>3. Up(T)
  BY <1>2 DEF Up
<1> QED
  BY <1>1, <1>3

LEMMA TreeMove ==
  ASSUME TypeOK, Tree, NEW f \in Folder, NEW p \in Folder \cup {None}, MoveFolder(f, p), "stale" \notin slips'
  PROVE  Tree'
<1> DEFINE row == [folder[f] EXCEPT !.parent = p]
           u == folder[f].user
<1>1. f \in Folders /\ creating' = creating /\ \A g \in Folder : folder'[g] = IF g = f THEN row ELSE folder[g]
  BY DEF MoveFolder, TypeOK
<1>p. p = None \/ (p \in FoldersOf(u) /\ ~Below(p, f))
  <2>1. p \in Shown(u) /\ ~(p # None /\ (Stale(p) \/ Below(p, f)))
    BY DEF MoveFolder
  <2> QED
    BY <2>1 DEF Stale, Shown, Folders
<1>2. row \in FolderRow /\ row.user = u /\ row.parent = p /\ row # Null /\ row # Gone
  <2>1. folder[f] \in FolderRow
    BY <1>1, FolderRows
  <2>2. row \in FolderRow /\ row.user = u /\ row.parent = p
    BY <2>1 DEF FolderRow
  <2> QED
    BY <2>2, FolderRows
<1>3. Folders' = Folders /\ None \notin Folders /\ \A g \in Folders : folder'[g] = IF g = f THEN row ELSE folder[g]
  BY <1>1, <1>2, FolderRows DEF Folders
<1> HIDE DEF row
<1>4. NewIds'
  BY <1>1, FolderRows DEF Tree, NewIds, TypeOK, Folders
<1>5. Parents'
  BY <1>1, <1>p, <1>2, <1>3 DEF Tree, Parents, FoldersOf
<1>6. \A g \in Folders : folder'[g].user = folder[g].user
  BY <1>2, <1>3
<1>7. ASSUME NEW h \in Folders, NEW v, v = folder[h].user
      PROVE  Reachable(v, h)'
  <2>1. Reachable(v, h) /\ h \in FoldersOf(v)'
    BY <1>3, <1>6, <1>7 DEF Tree, FoldersOf
  <2>2. CASE ~Below(h, f)
    <3>1. PICK r \in Siblings(v, None) : Below(h, r)
      BY <2>1 DEF Reachable
    <3>2. r \in Siblings(v, None)'
      BY <1>3, <2>2, <3>1 DEF Siblings, FoldersOf
    <3>3. ASSUME NEW S \in SUBSET Folders', h \in S,
                 \A g \in S : folder'[g].parent \in Folders' => folder'[g].parent \in S
          PROVE  \E T \in SUBSET Folders : T \subseteq S /\ h \in T /\ Up(T)
      <4>1. \A g \in S : g # f /\ folder[g].parent \in Folders => folder[g].parent \in S
        BY <1>3, <3>3
      <4> QED
        BY <1>3, <2>2, <3>3, <4>1, Untouched
    <3> QED
      BY <2>1, <3>1, <3>2, <3>3, StillReachable
  <2>3. CASE Below(h, f)
    <3>1. v = u
      <4> DEFINE S == FoldersOf(v)
      <4>1. S \in SUBSET Folders /\ h \in S
        BY <1>7 DEF FoldersOf
      <4>2. Up(S)
        BY <1>3 DEF Tree, Parents, FoldersOf, Up
      <4>3. f \in S
        BY <2>3, <4>1, <4>2, BelowUp
      <4> QED
        BY <4>3 DEF FoldersOf
    <3>2. ASSUME NEW S \in SUBSET Folders, h \in S,
                 \A g \in S : folder'[g].parent \in Folders' => folder'[g].parent \in S
          PROVE  f \in S
      <4> SUFFICES ASSUME f \notin S
                   PROVE  FALSE
        OBVIOUS
      <4>1. Up(S)
        BY <1>3, <3>2 DEF Up
      <4> QED
        BY <2>3, <3>2, <4>1, BelowUp
    <3>3. CASE p = None
      <4>1. Below(h, f)'
        BY <1>3, <3>2 DEF Below
      <4>2. f \in Siblings(v, None)'
        BY <1>1, <1>2, <1>3, <3>1, <3>3 DEF Siblings, FoldersOf
      <4> QED
        BY <2>1, <4>1, <4>2 DEF Reachable
    <3>4. CASE p # None
      <4>1. p \in Folders /\ folder[p].user = v /\ ~Below(p, f)
        BY <1>p, <3>1, <3>4 DEF FoldersOf
      <4>2. PICK r \in Siblings(v, None) : Below(p, r)
        BY <4>1 DEF Tree, Reachable
      <4>3. r \in Siblings(v, None)'
        BY <1>3, <4>1, <4>2 DEF Siblings, FoldersOf
      <4>4. ASSUME NEW S \in SUBSET Folders, h \in S,
                   \A g \in S : folder'[g].parent \in Folders' => folder'[g].parent \in S
            PROVE  r \in S
        <5>1. p \in S
          BY <1>1, <1>2, <1>3, <3>2, <4>1, <4>4
        <5>2. \A g \in S : g # f /\ folder[g].parent \in Folders => folder[g].parent \in S
          BY <1>3, <4>4
        <5>3. PICK T \in SUBSET Folders : T \subseteq S /\ p \in T /\ Up(T)
          BY <4>1, <5>1, <5>2, Untouched
        <5> QED
          BY <4>2, <5>3, BelowUp
      <4>5. Below(h, r)'
        BY <1>3, <4>4 DEF Below
      <4> QED
        BY <2>1, <4>3, <4>5 DEF Reachable
    <3> QED
      BY <3>3, <3>4
  <2> QED
    BY <2>2, <2>3
<1>8. \A h \in Folders' : Reachable(folder[h].user, h)'
  <2> SUFFICES ASSUME NEW h \in Folders
               PROVE  Reachable(folder[h].user, h)'
    BY <1>3
  <2>1. \A v : v = folder[h].user => Reachable(v, h)'
    BY <1>7
  <2>2. folder'[h].user = folder[h].user
    BY <1>6
  <2> QED
    BY <2>1, <2>2
<1> QED
  BY <1>4, <1>5, <1>8 DEF Tree

(* The folder that a deletion removes next holds no other.                 *)
LEMMA NothingInside ==
  ASSUME Work, ChildrenFirst, Pending("remove")
  PROVE  Arg \in Folder /\ \A f \in Folders : folder[f].parent # Arg
<1>1. Emptying /\ Head(todo) \in {"remove"} \X Folder /\ todo # <<>>
  BY Heads DEF Pending
<1>2. todo \in Seq(FolderSteps)
  BY <1>1 DEF Emptying
<1>3. Head(todo) = todo[1] /\ 1 \in DOMAIN todo
  BY <1>1, <1>2, TailFacts
<1>4. todo[1][1] = "remove" /\ todo[1][2] = Arg /\ Arg \in Folder
  BY <1>1, <1>3 DEF Arg
<1>5. \A f \in Folders : folder[f].parent = Arg => \E j \in 1..(1 - 1) : Handles(j, f)
  BY <1>3, <1>4 DEF ChildrenFirst
<1> QED
  BY <1>4, <1>5

LEMMA TreeStep ==
  ASSUME Typed, TreeInv, DeletionInv, [Next]_vars
  PROVE  TreeInv'
<1> SUFFICES ASSUME "stale" \notin slips'
             PROVE  Tree'
  BY DEF TreeInv
<1>1. TypeOK /\ Work /\ Tree /\ "stale" \notin slips
  BY FolderChanges DEF Typed, TreeInv
<1>2. CASE folder' = folder /\ creating' \subseteq creating
  <2>1. Folders' = Folders /\ \A k \in creating' : folder'[k.id] = Null
    BY <1>1, <1>2 DEF Folders, Tree, NewIds
  <2> QED
    BY <1>1, <1>2, <2>1, TreeShrinks
<1>3. ASSUME NEW u \in User, NEW f \in Folder, NEW n \in Name, AskFolder(u, f, n)
      PROVE  Tree'
  <2> DEFINE k == [id |-> f, user |-> u, name |-> n]
  <2>1. folder' = folder /\ creating' = creating \cup {k} /\ folder[f] = Null /\ \A l \in creating : l.id # f
    BY <1>3 DEF AskFolder
  <2>2. k.id = f
    OBVIOUS
  <2> HIDE DEF k
  <2>3. NewIds'
    BY <1>1, <2>1, <2>2 DEF Tree, NewIds
  <2>4. Parents' /\ \A h \in Folders' : Reachable(folder[h].user, h)'
    BY <1>1, <2>1 DEF Tree, Parents, Reachable, Below, Siblings, FoldersOf, Folders
  <2> QED
    BY <2>3, <2>4 DEF Tree
<1>4. ASSUME NEW k \in creating, CreateFolder(k)
      PROVE  Tree'
  BY <1>1, <1>4, TreeCreate
<1>5. ASSUME NEW f \in Folder, NEW n \in Name, RenameFolder(f, n)
      PROVE  Tree'
  <2> DEFINE row == [folder[f] EXCEPT !.name = n]
  <2>1. f \in Folders /\ creating' = creating /\ \A g \in Folder : folder'[g] = IF g = f THEN row ELSE folder[g]
    BY <1>1, <1>5 DEF RenameFolder, TypeOK
  <2>2. row \in FolderRow /\ row.user = folder[f].user /\ row.parent = folder[f].parent /\ row # Null /\ row # Gone
    <3>1. folder[f] \in FolderRow
      BY <1>1, <2>1, FolderRows
    <3>2. row \in FolderRow /\ row.user = folder[f].user /\ row.parent = folder[f].parent
      BY <3>1 DEF FolderRow
    <3> QED
      BY <1>1, <3>2, FolderRows
  <2> HIDE DEF row
  <2>3. Folders' = Folders /\ \A g \in Folders : folder'[g] = IF g = f THEN row ELSE folder[g]
    BY <2>1, <2>2 DEF Folders
  <2>4. \A k \in creating' : folder'[k.id] = Null
    BY <1>1, <2>1 DEF Tree, NewIds, TypeOK, Folders
  <2> QED
    BY <1>1, <2>1, <2>2, <2>3, <2>4, TreeShrinks
<1>6. ASSUME NEW f \in Folder, NEW p \in Folder \cup {None}, MoveFolder(f, p)
      PROVE  Tree'
  BY <1>1, <1>6, TreeMove
<1>7. CASE RemoveFolder
  <2>1. Pending("remove") /\ creating' = creating /\ todo # <<>> /\ Emptying
    BY <1>1, <1>7, Heads DEF RemoveFolder, Pending
  <2>2. ItsOwn /\ ChildrenFirst
    BY <1>1, <2>1 DEF DeletionInv
  <2>3. Arg \in Folder /\ \A f \in Folders : folder[f].parent # Arg
    BY <1>1, <2>1, <2>2, NothingInside
  <2>4. folder[Arg] # Null
    <3>1. todo \in Seq(FolderSteps) /\ Head(todo)[1] = "remove"
      BY <2>1 DEF Emptying, Pending
    <3>2. Head(todo) = todo[1] /\ 1 \in DOMAIN todo
      BY <2>1, <3>1, TailFacts
    <3>3. Handles(1, Arg)
      BY <3>1, <3>2 DEF Handles, Arg
    <3> QED
      BY <2>2, <2>3, <3>2, <3>3 DEF ItsOwn
  <2>5. \A g \in Folder : folder'[g] = IF g = Arg THEN Gone ELSE folder[g]
    BY <1>1, <1>7 DEF RemoveFolder, TypeOK
  <2>6. Folders' = Folders \ {Arg} /\ \A g \in Folders' : folder'[g] = folder[g]
    BY <2>5 DEF Folders
  <2>7. \A k \in creating' : folder'[k.id] = Null
    <3>1. \A k \in creating : folder[k.id] = Null /\ k.id \in Folder
      BY <1>1 DEF Tree, NewIds, TypeOK
    <3> QED
      BY <2>1, <2>4, <2>5, <3>1
  <2> HIDE DEF Arg
  <2> QED
    BY <1>1, <2>1, <2>3, <2>6, <2>7, TreeShrinks
<1> QED
  BY <1>2, <1>3, <1>4, <1>5, <1>6, <1>7, FolderChanges

(* The steps after which a deletion of a folder is at work.                *)
LEMMA DeletionChanges ==
  ASSUME Work, [Next]_vars, op' = "deleteFolder", todo' # <<>>
  PROVE  \/ \E f \in Folder : DeleteFolder(f)
         \/ GetChildren \/ RemoveFolder \/ EmptyFolder
         \/ UNCHANGED <<todo, op, who>> /\ (folder' = folder \/ \E k \in creating : CreateFolder(k))
<1>1. CASE UNCHANGED vars
  BY <1>1 DEF vars
<1>2. ASSUME NEW c \in Chat, ChatRequest(c)
      PROVE  FALSE
  BY <1>2 DEF ChatRequest, DeleteAllTags, ArchiveChat, DeleteChat, ShareChat, ShareAgain, UnshareChat, MoveChat,
              AddTag, RemoveTag, UpdateTags, CloneChat, CloneSharedChat, Clone, Request
<1>3. ASSUME NEW u \in User, UserRequest(u)
      PROVE  UNCHANGED <<todo, op, who, folder>>
  BY <1>3 DEF UserRequest, ArchiveAll, DeleteAllChats, AskFolder, CreateNewChat, ImportChat, Request
<1>4. ASSUME NEW f \in Folder, FolderRequest(f)
      PROVE  DeleteFolder(f)
  BY <1>4 DEF FolderRequest, RenameFolder, MoveFolder, Request
<1>5. ASSUME NEW k \in creating, CreateFolder(k)
      PROVE  UNCHANGED <<todo, op, who>>
  BY <1>5 DEF CreateFolder
<1>6. ASSUME EnsureTag \/ InsertTag \/ AddChatTag \/ Prune \/ DeleteRow \/ DeleteRows \/ DeleteCopies \/ SetShareId
      PROVE  FALSE
  <2>1. op = "deleteFolder"
    BY <1>6 DEF EnsureTag, InsertTag, AddChatTag, Prune, DeleteRow, DeleteRows, DeleteCopies, SetShareId
  <2>2. /\ ~Inserting /\ ~Linking /\ ~Adding /\ ~Pruning /\ ~Unsharing /\ ~Sharing /\ ~DeletingAll
        /\ ~\E c \in Chat : DeletionWork(c)
    BY <2>1 DEF Inserting, Linking, Adding, Pruning, Unsharing, Sharing, DeletingAll, DeletionWork
  <2> QED
    BY <1>6, <2>2, Heads DEF EnsureTag, InsertTag, AddChatTag, Prune, DeleteRow, DeleteRows, DeleteCopies, SetShareId
<1>7. ~Crash
  BY DEF Crash
<1> QED
  BY <1>1, <1>2, <1>3, <1>4, <1>5, <1>6, <1>7 DEF Next, Rest

LEMMA Spliced ==
  ASSUME NEW S, NEW c \in Seq(S), NEW x \in S, NEW t \in Seq(S), NEW q, q = c \o <<x>> \o t
  PROVE  /\ Len(c) \in Nat /\ Len(t) \in Nat /\ DOMAIN q = 1..(Len(c) + 1 + Len(t))
         /\ \A i \in 1..Len(c) : q[i] = c[i]
         /\ q[Len(c) + 1] = x
         /\ \A i \in 1..Len(t) : q[Len(c) + 1 + i] = t[i]
  OBVIOUS

LEMMA TwoItems ==
  ASSUME NEW x, NEW y, NEW q, q = <<x, y>>
  PROVE  DOMAIN q = {1, 2} /\ q[1] = x /\ q[2] = y
  OBVIOUS

LEMMA StepKinds ==
  /\ \A s \in FolderSteps : s[1] \in {"children", "remove", "empty"} /\ s[2] \in Folder
  /\ \A s \in FolderSteps : s[1] = "children" => s[3] \in SUBSET Folder
<1>1. \A s \in {"children"} \X Folder \X SUBSET Folder : s[1] = "children" /\ s[2] \in Folder /\ s[3] \in SUBSET Folder
  OBVIOUS
<1>2. \A s \in {"remove", "empty"} \X Folder : s[1] \in {"remove", "empty"} /\ s[2] \in Folder
  OBVIOUS
<1> QED
  BY <1>1, <1>2 DEF FolderSteps

(* A list of folders to delete, after a step that keeps all or all but the *)
(* first of what was in it.                                                *)
LEMMA DeletionExpands ==
  ASSUME Typed, Tree, ItsOwn, ChildrenFirst, Descends, GetChildren
  PROVE  ItsOwn' /\ ChildrenFirst' /\ Descends' /\ \A s \in ToSet(todo) : s # Head(todo) => s \in ToSet(todo')
<1> DEFINE f == Arg
           P == Arg2
<1>1. Emptying /\ Head(todo) \in {"children"} \X Folder \X SUBSET Folder /\ todo # <<>> /\ TypeOK
  BY Heads DEF GetChildren, Pending, Typed
<1>2. todo \in Seq(FolderSteps)
  BY <1>1 DEF Emptying
<1>3. /\ Head(todo) = todo[1] /\ Len(todo) \in Nat /\ Len(todo) >= 1 /\ Tail(todo) \in Seq(FolderSteps)
      /\ Len(Tail(todo)) = Len(todo) - 1 /\ \A i \in 1..Len(todo) - 1 : Tail(todo)[i] = todo[i + 1]
      /\ DOMAIN todo = 1..Len(todo)
  BY <1>1, <1>2, TailFacts
<1>4. /\ f \in Folder /\ P \in SUBSET Folder /\ 1 \in DOMAIN todo
      /\ todo[1][1] = "children" /\ todo[1][2] = f /\ todo[1][3] = P
  BY <1>1, <1>3 DEF Arg, Arg2
<1> HIDE DEF f, P
<1>5. UNCHANGED <<folder, who>> /\ Folders' = Folders
  BY DEF GetChildren, Folders
<1>6. PICK depth \in [Folder -> 0..Cardinality(Folder)] :
        /\ \A g \in Folders : folder[g].parent # None => depth[folder[g].parent] < depth[g]
        /\ \A i \in DOMAIN todo : todo[i][1] = "children" => \A g \in todo[i][3] : depth[g] < depth[todo[i][2]]
  BY DEF Descends
<1>7. \A g \in Folder : depth[g] \in Nat
  <2>1. Cardinality(Folder) \in Nat
    BY LibraryAssumption, FS_CardinalityType
  <2> QED
    BY <2>1
<1>8. f \notin P /\ \A g \in P : depth[g] < depth[f]
  <2>1. \A g \in P : depth[g] < depth[f]
    BY <1>4, <1>6
  <2> QED
    BY <1>4, <1>7, <2>1
<1>9. PICK o \in SetToSeqs(Siblings(who, f)) :
        todo' = [i \in DOMAIN o |-> <<"children", o[i], P \cup {f}>>] \o <<<<"remove", f>>>> \o Tail(todo)
  BY <1>8 DEF GetChildren, f, P
<1>10. o \in Seq(Siblings(who, f)) /\ \A g \in Siblings(who, f) : \E i \in DOMAIN o : o[i] = g
  <2>1. Siblings(who, f) \in SUBSET Folder
    BY DEF Siblings, FoldersOf, Folders
  <2>2. IsFiniteSet(Siblings(who, f))
    BY <2>1, LibraryAssumption, FS_Subset
  <2> QED
    BY <2>2, Orders
<1> DEFINE n == Len(o)
           c == [i \in DOMAIN o |-> <<"children", o[i], P \cup {f}>>]
<1>11. n \in Nat /\ DOMAIN o = 1..n /\ \A i \in 1..n : o[i] \in Siblings(who, f)
  BY <1>10
<1>12. c \in Seq(FolderSteps) /\ Len(c) = n /\ \A i \in 1..n : c[i] = <<"children", o[i], P \cup {f}>>
  <2>1. \A i \in 1..n : <<"children", o[i], P \cup {f}>> \in FolderSteps
    BY <1>4, <1>11 DEF FolderSteps, Siblings, FoldersOf, Folders
  <2> QED
    BY <1>11, <2>1
<1>13. <<"remove", f>> \in FolderSteps
  BY <1>4 DEF FolderSteps
<1> HIDE DEF c
<1>14. /\ DOMAIN todo' = 1..(n + 1 + (Len(todo) - 1))
       /\ \A i \in 1..n : todo'[i] = <<"children", o[i], P \cup {f}>>
       /\ todo'[n + 1] = <<"remove", f>>
       /\ \A i \in 1..Len(todo) - 1 : todo'[n + 1 + i] = todo[i + 1]
  <2> DEFINE x == <<"remove", f>>
             t == Tail(todo)
             q == todo'
  <2>1. q = c \o <<x>> \o t
    BY <1>9 DEF c
  <2>2. x \in FolderSteps /\ t \in Seq(FolderSteps)
    BY <1>3, <1>13
  <2>3. /\ Len(t) = Len(todo) - 1 /\ \A i \in 1..Len(todo) - 1 : t[i] = todo[i + 1]
    BY <1>3
  <2> HIDE DEF x, t, q
  <2>4. /\ DOMAIN q = 1..(Len(c) + 1 + Len(t))
        /\ \A i \in 1..Len(c) : q[i] = c[i]
        /\ q[Len(c) + 1] = x
        /\ \A i \in 1..Len(t) : q[Len(c) + 1 + i] = t[i]
    <3>1. c \in Seq(FolderSteps)
      BY <1>12
    <3>2. \A S, y : \A d, s \in Seq(S) :
            y \in S /\ q = d \o <<y>> \o s =>
              /\ DOMAIN q = 1..(Len(d) + 1 + Len(s))
              /\ \A i \in 1..Len(d) : q[i] = d[i]
              /\ q[Len(d) + 1] = y
              /\ \A i \in 1..Len(s) : q[Len(d) + 1 + i] = s[i]
      BY Spliced
    <3> QED
      BY <2>1, <2>2, <3>1, <3>2
  <2> HIDE DEF n
  <2>5. /\ DOMAIN q = 1..(n + 1 + (Len(todo) - 1))
        /\ \A i \in 1..n : q[i] = <<"children", o[i], P \cup {f}>>
        /\ q[n + 1] = x
    BY <1>12, <2>3, <2>4
  <2>6. \A i \in 1..Len(todo) - 1 : q[n + 1 + i] = todo[i + 1]
    BY <1>12, <2>3, <2>4
  <2> QED
    BY <2>5, <2>6 DEF q, x
<1> HIDE DEF n
<1>15. \A i \in DOMAIN todo' : i \in 1..n \/ i = n + 1 \/ (i - n \in DOMAIN todo /\ i - n > 1 /\ todo'[i] = todo[i - n])
  <2> SUFFICES ASSUME NEW i \in DOMAIN todo', i \notin 1..n, i # n + 1
               PROVE  i - n \in DOMAIN todo /\ i - n > 1 /\ todo'[i] = todo[i - n]
    OBVIOUS
  <2>1. i \in 1..(n + 1 + (Len(todo) - 1)) /\ i > n + 1
    BY <1>11, <1>14
  <2>2. (i - n - 1) \in 1..Len(todo) - 1 /\ n + 1 + (i - n - 1) = i /\ (i - n - 1) + 1 = i - n
    BY <1>3, <1>11, <2>1
  <2>3. todo'[i] = todo[i - n]
    BY <1>14, <2>2
  <2> QED
    BY <1>3, <1>11, <2>1, <2>2, <2>3
<1>16. \A i \in DOMAIN todo : i > 1 => i + n \in DOMAIN todo' /\ todo'[i + n] = todo[i]
  <2> SUFFICES ASSUME NEW i \in DOMAIN todo, i > 1
               PROVE  i + n \in DOMAIN todo' /\ todo'[i + n] = todo[i]
    OBVIOUS
  <2>1. i - 1 \in 1..Len(todo) - 1 /\ n + 1 + (i - 1) = i + n /\ (i - 1) + 1 = i /\ i + n \in 1..(n + 1 + (Len(todo) - 1))
    BY <1>3, <1>11
  <2> QED
    BY <1>14, <2>1
<1>17. ItsOwn'
  <2> SUFFICES ASSUME NEW i \in DOMAIN todo', NEW g \in Folder, Handles(i, g)'
               PROVE  folder[g] # Null /\ (g \in Folders => folder[g].user = who)
    BY <1>5 DEF ItsOwn
  <2>1. CASE i \in 1..n
    <3>1. g = o[i]
      BY <1>14, <2>1 DEF Handles
    <3>2. g \in Siblings(who, f)
      BY <1>11, <2>1, <3>1
    <3> QED
      BY <3>2 DEF Siblings, FoldersOf, Folders
  <2>2. CASE i = n + 1
    <3>1. g = f
      BY <1>14, <2>2 DEF Handles
    <3>2. Handles(1, f)
      BY <1>4 DEF Handles
    <3> QED
      BY <1>4, <3>1, <3>2 DEF ItsOwn
  <2>3. CASE i - n \in DOMAIN todo /\ todo'[i] = todo[i - n]
    <3>1. Handles(i - n, g)
      BY <2>3 DEF Handles
    <3> QED
      BY <2>3, <3>1 DEF ItsOwn
  <2> QED
    BY <1>15, <2>1, <2>2, <2>3
<1>18. ChildrenFirst'
  <2> SUFFICES ASSUME NEW i \in DOMAIN todo', todo'[i][1] = "remove", NEW g \in Folders, folder[g].parent = todo'[i][2]
               PROVE  \E j \in 1..(i - 1) : Handles(j, g)'
    BY <1>5 DEF ChildrenFirst
  <2>1. i \notin 1..n
    BY <1>14
  <2>2. CASE i = n + 1
    <3>1. folder[g].parent = f
      BY <1>14, <2>2
    <3>2. g \in Siblings(who, f)
      <4>1. f \in FoldersOf(folder[g].user)
        BY <1>1, <1>4, <3>1, LibraryAssumption DEF Tree, Parents
      <4>2. Handles(1, f)
        BY <1>4 DEF Handles
      <4>3. folder[f].user = who
        BY <1>4, <4>1, <4>2 DEF ItsOwn, FoldersOf
      <4> QED
        BY <3>1, <4>1, <4>3 DEF Siblings, FoldersOf
    <3>3. PICK j \in 1..n : o[j] = g
      BY <1>10, <1>11, <3>2
    <3>4. Handles(j, g)' /\ j \in 1..(i - 1)
      BY <1>11, <1>14, <2>2, <3>3 DEF Handles
    <3> QED
      BY <3>4
  <2>3. CASE i - n \in DOMAIN todo /\ i - n > 1 /\ todo'[i] = todo[i - n]
    <3>1. PICK j \in 1..((i - n) - 1) : Handles(j, g)
      BY <2>3 DEF ChildrenFirst
    <3>2. j \in DOMAIN todo /\ i \in Nat
      BY <1>3, <1>11, <1>14, <2>3
    <3>3. CASE j = 1
      <4>1. g = f
        BY <1>4, <3>1, <3>3 DEF Handles
      <4>2. Handles(n + 1, g)' /\ n + 1 \in 1..(i - 1)
        BY <1>11, <1>14, <2>3, <3>2, <4>1 DEF Handles
      <4> QED
        BY <4>2
    <3>4. CASE j > 1
      <4>1. Handles(j + n, g)'
        BY <1>16, <3>1, <3>2, <3>4 DEF Handles
      <4>2. j + n \in 1..(i - 1)
        BY <1>11, <2>3, <3>1, <3>2
      <4> QED
        BY <4>1, <4>2
    <3> QED
      BY <3>2, <3>3, <3>4, <1>3
  <2> QED
    BY <1>15, <2>1, <2>2, <2>3
<1>19. Descends'
  <2>1. ASSUME NEW i \in DOMAIN todo', todo'[i][1] = "children", NEW g \in todo'[i][3]
        PROVE  depth[g] < depth[todo'[i][2]]
    <3>1. CASE i \in 1..n
      <4>1. g \in P \cup {f} /\ todo'[i][2] = o[i]
        BY <1>14, <2>1, <3>1
      <4>2. o[i] \in Folders /\ folder[o[i]].parent = f /\ f # None /\ o[i] \in Folder
        BY <1>4, <1>11, <3>1, LibraryAssumption DEF Siblings, FoldersOf, Folders
      <4>3. depth[f] < depth[o[i]]
        BY <1>6, <4>2
      <4>4. g \in Folder
        BY <1>4, <4>1
      <4> QED
        BY <1>4, <1>7, <1>8, <4>1, <4>2, <4>3, <4>4
    <3>2. CASE i = n + 1
      BY <1>14, <2>1, <3>2
    <3>3. CASE i - n \in DOMAIN todo /\ todo'[i] = todo[i - n]
      BY <1>6, <2>1, <3>3
    <3> QED
      BY <1>15, <2>1, <3>1, <3>2, <3>3
  <2> QED
    BY <1>5, <1>6, <2>1 DEF Descends
<1>20. ASSUME NEW s \in ToSet(todo), s # Head(todo)
       PROVE  s \in ToSet(todo')
  <2>1. PICK i \in DOMAIN todo : todo[i] = s
    BY DEF ToSet
  <2>2. i > 1
    BY <1>3, <1>20, <2>1
  <2> QED
    BY <1>16, <2>1, <2>2 DEF ToSet
<1> QED
  BY <1>17, <1>18, <1>19, <1>20

LEMMA AfterFirst ==
  ASSUME NEW S, todo \in Seq(S), todo # <<>>, NEW x \in S, todo' = Tail(todo) \/ todo' = Tail(todo) \o <<x>>
  PROVE  /\ \A i \in DOMAIN todo' : todo'[i] = x \/ (i \in Nat /\ i + 1 \in DOMAIN todo /\ todo'[i] = todo[i + 1])
         /\ \A i \in DOMAIN todo : i > 1 => i - 1 \in DOMAIN todo' /\ todo'[i - 1] = todo[i]
         /\ \A i \in DOMAIN todo' : i \in Nat /\ i >= 1
         /\ \A s \in ToSet(todo) : s # Head(todo) => s \in ToSet(todo')
         /\ todo' = Tail(todo) \o <<x>> => x \in ToSet(todo')
<1> DEFINE t == Tail(todo)
           q == todo'
<1>1. /\ t \in Seq(S) /\ Len(todo) \in Nat /\ Len(todo) >= 1 /\ Len(t) = Len(todo) - 1
      /\ \A i \in 1..Len(todo) - 1 : t[i] = todo[i + 1]
  BY TailFacts
<1>3. q = t \/ q = t \o <<x>>
  OBVIOUS
<1> HIDE DEF t, q
<1>2. DOMAIN todo = 1..Len(todo) /\ DOMAIN t = 1..Len(todo) - 1
  <2>1. DOMAIN todo = 1..Len(todo)
    OBVIOUS
  <2>2. DOMAIN t = 1..Len(t)
    BY <1>1
  <2> QED
    BY <1>1, <2>1, <2>2
<1>4. \A i \in DOMAIN q : i \in Nat /\ i >= 1 /\ (q[i] = x \/ (i \in 1..Len(todo) - 1 /\ q[i] = t[i]))
  <2>1. CASE q = t
    BY <1>1, <1>2, <2>1
  <2>2. CASE q = t \o <<x>>
    <3>1. DOMAIN q = 1..(Len(t) + 1)
      BY <1>1, <2>2
    <3>2. \A i \in 1..Len(t) : q[i] = t[i]
      BY <1>1, <2>2
    <3>3. q[Len(t) + 1] = x
      BY <1>1, <2>2
    <3> QED
      BY <1>1, <3>1, <3>2, <3>3
  <2> QED
    BY <1>3, <2>1, <2>2
<1>5. \A i \in 1..Len(todo) - 1 : i \in DOMAIN q /\ q[i] = t[i]
  BY <1>1, <1>2, <1>3
<1>6. \A i \in DOMAIN q : q[i] = x \/ (i \in Nat /\ i + 1 \in DOMAIN todo /\ q[i] = todo[i + 1])
  <2> SUFFICES ASSUME NEW i \in DOMAIN q, q[i] # x
               PROVE  i \in Nat /\ i + 1 \in DOMAIN todo /\ q[i] = todo[i + 1]
    OBVIOUS
  <2>1. i \in Nat /\ i \in 1..Len(todo) - 1 /\ q[i] = t[i]
    BY <1>4
  <2> QED
    BY <1>1, <1>2, <2>1
<1>7. \A i \in DOMAIN todo : i > 1 => i - 1 \in DOMAIN q /\ q[i - 1] = todo[i]
  <2> SUFFICES ASSUME NEW i \in DOMAIN todo, i > 1
               PROVE  i - 1 \in DOMAIN q /\ q[i - 1] = todo[i]
    OBVIOUS
  <2>1. i - 1 \in 1..Len(todo) - 1 /\ (i - 1) + 1 = i
    BY <1>1, <1>2
  <2> QED
    BY <1>1, <1>5, <2>1
<1>8. ASSUME NEW s \in ToSet(todo), s # Head(todo)
      PROVE  s \in ToSet(q)
  <2>1. PICK i \in DOMAIN todo : todo[i] = s
    BY DEF ToSet
  <2>2. i > 1
    <3>1. Head(todo) = todo[1]
      BY TailFacts
    <3>2. i # 1
      BY <1>8, <2>1, <3>1
    <3> QED
      BY <1>1, <1>2, <3>2
  <2> QED
    BY <1>7, <2>1, <2>2 DEF ToSet
<1>9. ASSUME q = t \o <<x>>
      PROVE  x \in ToSet(q)
  <2>1. Len(t) + 1 \in DOMAIN q /\ q[Len(t) + 1] = x
    BY <1>1, <1>9
  <2> QED
    BY <2>1 DEF ToSet
<1> QED
  BY <1>4, <1>6, <1>7, <1>8, <1>9 DEF q, t

LEMMA DeletionShrinks ==
  ASSUME TypeOK, ItsOwn, ChildrenFirst, Descends, Emptying, todo # <<>>, who' = who,
         NEW x \in FolderSteps, x[1] = "empty", todo' = Tail(todo) \/ todo' = Tail(todo) \o <<x>>,
         Folders' \subseteq Folders, \A f \in Folders' : folder'[f] = folder[f],
         \A f \in Folder : folder[f] # Null => folder'[f] # Null,
         \A f \in Folders' : ~Handles(1, f)
  PROVE  ItsOwn' /\ ChildrenFirst' /\ Descends'
<1>1. /\ \A i \in DOMAIN todo' : todo'[i] = x \/ (i \in Nat /\ i + 1 \in DOMAIN todo /\ todo'[i] = todo[i + 1])
      /\ \A i \in DOMAIN todo : i > 1 => i - 1 \in DOMAIN todo' /\ todo'[i - 1] = todo[i]
      /\ \A i \in DOMAIN todo' : i \in Nat /\ i >= 1
  <2>1. todo \in Seq(FolderSteps)
    BY DEF Emptying
  <2> QED
    BY <2>1, AfterFirst
<1>2. \A i \in DOMAIN todo' : todo'[i][1] # "empty" => i \in Nat /\ i + 1 \in DOMAIN todo /\ todo'[i] = todo[i + 1]
  BY <1>1
<1>3. ItsOwn'
  <2> SUFFICES ASSUME NEW i \in DOMAIN todo', NEW f \in Folder, Handles(i, f)'
               PROVE  folder'[f] # Null /\ (f \in Folders' => folder'[f].user = who)
    BY DEF ItsOwn
  <2>1. i + 1 \in DOMAIN todo /\ Handles(i + 1, f)
    BY <1>2 DEF Handles
  <2> QED
    BY <2>1 DEF ItsOwn
<1>4. ChildrenFirst'
  <2> SUFFICES ASSUME NEW i \in DOMAIN todo', todo'[i][1] = "remove",
                      NEW f \in Folders', folder'[f].parent = todo'[i][2]
               PROVE  \E j \in 1..(i - 1) : Handles(j, f)'
    BY DEF ChildrenFirst
  <2>1. i \in Nat /\ i + 1 \in DOMAIN todo /\ todo'[i] = todo[i + 1]
    BY <1>2
  <2>2. f \in Folders /\ folder[f].parent = todo[i + 1][2]
    BY <2>1
  <2>3. PICK j \in 1..((i + 1) - 1) : Handles(j, f)
    BY <2>1, <2>2 DEF ChildrenFirst
  <2>4. j # 1 /\ j \in Nat /\ j > 1 /\ j - 1 \in 1..(i - 1)
    <3>1. j # 1
      BY <2>3
    <3> QED
      BY <2>1, <2>3, <3>1
  <2>5. j \in DOMAIN todo
    <3>1. Len(todo) \in Nat /\ DOMAIN todo = 1..Len(todo)
      <4>1. todo \in Seq(FolderSteps)
        BY DEF Emptying
      <4> QED
        BY <4>1
    <3>2. i + 1 \in 1..Len(todo)
      BY <2>1, <3>1
    <3>3. j \in 1..i
      BY <2>1, <2>3
    <3>4. i \in Nat
      BY <2>1
    <3>5. \A n \in Nat : i + 1 \in 1..n => j \in 1..n
      BY <3>3, <3>4
    <3>6. j \in 1..Len(todo)
      BY <3>1, <3>2, <3>5
    <3> QED
      BY <3>1, <3>6, Zenon
  <2>6. Handles(j - 1, f)'
    <3>1. todo'[j - 1] = todo[j]
      BY <1>1, <2>4, <2>5
    <3> QED
      BY <2>3, <3>1 DEF Handles
  <2> QED
    BY <2>4, <2>6
<1>5. Descends'
  <2>1. PICK depth \in [Folder -> 0..Cardinality(Folder)] :
          /\ \A f \in Folders : folder[f].parent # None => depth[folder[f].parent] < depth[f]
          /\ \A i \in DOMAIN todo : todo[i][1] = "children" => \A g \in todo[i][3] : depth[g] < depth[todo[i][2]]
    BY DEF Descends
  <2>2. \A f \in Folders' : folder'[f].parent # None => depth[folder'[f].parent] < depth[f]
    BY <2>1
  <2>3. \A i \in DOMAIN todo' : todo'[i][1] = "children" => \A g \in todo'[i][3] : depth[g] < depth[todo'[i][2]]
    <3> SUFFICES ASSUME NEW i \in DOMAIN todo', todo'[i][1] = "children"
                 PROVE  \A g \in todo'[i][3] : depth[g] < depth[todo'[i][2]]
      OBVIOUS
    <3>1. i + 1 \in DOMAIN todo /\ todo'[i] = todo[i + 1]
      BY <1>2
    <3> QED
      BY <2>1, <3>1
  <2> QED
    BY <2>2, <2>3 DEF Descends
<1> QED
  BY <1>3, <1>4, <1>5

LEMMA DeletionStarts ==
  ASSUME TypeOK, Tree, NEW f \in Folder, DeleteFolder(f)
  PROVE  ItsOwn' /\ ChildrenFirst' /\ Descends'
<1> DEFINE x == <<"children", f, {}>>
           y == <<"empty", f>>
           q == todo'
<1>1. f \in Folders /\ who' = folder[f].user /\ folder' = folder /\ Folders' = Folders /\ q = <<x, y>>
  BY DEF DeleteFolder, Request, Folders
<1>2. x[1] = "children" /\ x[2] = f /\ x[3] = {} /\ y[1] = "empty"
  OBVIOUS
<1> HIDE DEF x, y, q
<1>3. DOMAIN q = {1, 2} /\ q[1] = x /\ q[2] = y
  BY <1>1, TwoItems
<1>4. \A i \in DOMAIN q : q[i][1] # "remove" /\ (q[i][1] = "children" => i = 1)
  BY <1>2, <1>3
<1>5. ItsOwn'
  <2>1. \A i \in DOMAIN todo', g \in Folder : Handles(i, g)' => g = f
    BY <1>2, <1>3, <1>4 DEF q, Handles
  <2> QED
    BY <1>1, <2>1 DEF ItsOwn, Folders
<1>6. ChildrenFirst'
  BY <1>4 DEF q, ChildrenFirst
<1>7. Descends'
  <2>1. PICK depth \in [Folder -> 0..Cardinality(Folder)] :
          \A g \in Folders : folder[g].parent # None => depth[folder[g].parent] < depth[g]
    BY Depths
  <2>2. \A g \in Folders' : folder'[g].parent # None => depth[folder'[g].parent] < depth[g]
    BY <1>1, <2>1
  <2>3. \A i \in DOMAIN q : q[i][1] = "children" => \A g \in q[i][3] : depth[g] < depth[q[i][2]]
    BY <1>2, <1>3, <1>4
  <2> QED
    BY <2>2, <2>3 DEF q, Descends
<1> QED
  BY <1>5, <1>6, <1>7

(* A folder comes, which no step has to do with: it is at the root, and    *)
(* none names a folder that is not there yet.                              *)
LEMMA DeletionGoesBeside ==
  ASSUME TypeOK, ItsOwn, ChildrenFirst, Descends, Emptying, UNCHANGED <<todo, who>>,
         NEW k \in creating, CreateFolder(k), folder[k.id] = Null
  PROVE  ItsOwn' /\ ChildrenFirst' /\ Descends'
<1> DEFINE row == [user |-> k.user, parent |-> None, name |-> k.name]
<1>1. k.id \in Folder /\ \A g \in Folder : folder'[g] = IF g = k.id THEN row ELSE folder[g]
  BY DEF CreateFolder, TypeOK
<1>2. row \in FolderRow /\ row.parent = None
  BY DEF TypeOK, FolderRow
<1> HIDE DEF row
<1>3. Folders' = Folders \cup {k.id} /\ k.id \notin Folders /\ folder'[k.id] = row /\ row # Null
  BY <1>1, <1>2, FolderRows DEF Folders
<1>4. \A f \in Folder : f # k.id => folder'[f] = folder[f]
  BY <1>1
<1>5. ItsOwn'
  <2> SUFFICES ASSUME NEW i \in DOMAIN todo, NEW f \in Folder, Handles(i, f)'
               PROVE  folder'[f] # Null /\ (f \in Folders' => folder'[f].user = who)
    BY DEF ItsOwn
  <2>1. Handles(i, f)
    BY DEF Handles
  <2>2. folder[f] # Null /\ (f \in Folders => folder[f].user = who)
    BY <2>1 DEF ItsOwn
  <2>3. f # k.id
    BY <2>2
  <2> QED
    BY <1>3, <1>4, <2>2, <2>3
<1>6. ChildrenFirst'
  <2> SUFFICES ASSUME NEW i \in DOMAIN todo, todo[i][1] = "remove", NEW f \in Folders', folder'[f].parent = todo[i][2]
               PROVE  \E j \in 1..(i - 1) : Handles(j, f)'
    BY DEF ChildrenFirst
  <2>1. todo[i] \in FolderSteps
    BY DEF Emptying
  <2>2. todo[i][2] \in Folder
    BY <2>1, StepKinds
  <2>3. f # k.id
    BY <1>2, <1>3, <2>2, LibraryAssumption
  <2>4. f \in Folders /\ folder[f].parent = todo[i][2]
    BY <1>3, <1>4, <2>3 DEF Folders
  <2>5. PICK j \in 1..(i - 1) : Handles(j, f)
    BY <2>4 DEF ChildrenFirst
  <2> QED
    BY <2>5 DEF Handles
<1>7. Descends'
  <2>1. PICK depth \in [Folder -> 0..Cardinality(Folder)] :
          /\ \A f \in Folders : folder[f].parent # None => depth[folder[f].parent] < depth[f]
          /\ \A i \in DOMAIN todo : todo[i][1] = "children" => \A g \in todo[i][3] : depth[g] < depth[todo[i][2]]
    BY DEF Descends
  <2>2. \A f \in Folders' : folder'[f].parent # None => depth[folder'[f].parent] < depth[f]
    BY <1>2, <1>3, <1>4, <2>1 DEF Folders
  <2> QED
    BY <2>1, <2>2 DEF Descends
<1> QED
  BY <1>5, <1>6, <1>7

LEMMA DeletionStep ==
  ASSUME Typed, TreeInv, DeletionInv, [Next]_vars
  PROVE  DeletionInv'
<1> SUFFICES ASSUME "stale" \notin slips', todo' # <<>>, Emptying'
             PROVE  ItsOwn' /\ ChildrenFirst' /\ Descends'
  BY DEF DeletionInv
<1>1. TypeOK /\ Work /\ Tree /\ "stale" \notin slips /\ op' = "deleteFolder" /\ todo' \in Seq(FolderSteps)
  BY FolderChanges DEF Typed, TreeInv, Emptying
<1>2. ASSUME NEW f \in Folder, DeleteFolder(f)
      PROVE  ItsOwn' /\ ChildrenFirst' /\ Descends'
  BY <1>1, <1>2, DeletionStarts
<1>3. CASE GetChildren
  <2>1. todo # <<>> /\ Emptying
    BY <1>1, <1>3, Heads DEF GetChildren, Pending
  <2>2. ItsOwn /\ ChildrenFirst /\ Descends
    BY <1>1, <2>1 DEF DeletionInv
  <2> QED
    BY <1>1, <1>3, <2>2, DeletionExpands
<1>4. CASE RemoveFolder
  <2>1. todo # <<>> /\ Emptying /\ Pending("remove")
    BY <1>1, <1>4, Heads DEF RemoveFolder, Pending
  <2>2. ItsOwn /\ ChildrenFirst /\ Descends
    BY <1>1, <2>1 DEF DeletionInv
  <2>3. Arg \in Folder
    BY <1>1, <2>1, <2>2, NothingInside
  <2> DEFINE x == <<"empty", Arg>>
  <2>4. x \in FolderSteps /\ x[1] = "empty"
    BY <2>3 DEF FolderSteps
  <2>5. \A g \in Folder : folder'[g] = IF g = Arg THEN Gone ELSE folder[g]
    BY <1>1, <1>4 DEF RemoveFolder, TypeOK
  <2>6. /\ Folders' \subseteq Folders /\ Arg \notin Folders' /\ \A f \in Folders' : folder'[f] = folder[f]
        /\ \A f \in Folder : folder[f] # Null => folder'[f] # Null
    BY <2>3, <2>5, FolderRows, <1>1 DEF Folders
  <2>7. \A f \in Folders' : ~Handles(1, f)
    <3>1. todo \in Seq(FolderSteps)
      BY <2>1 DEF Emptying
    <3>2. Head(todo) = todo[1]
      BY <2>1, <3>1, TailFacts
    <3> QED
      BY <2>6, <3>2 DEF Handles, Arg
  <2>8. who' = who /\ (todo' = Tail(todo) \/ todo' = Tail(todo) \o <<x>>)
    <3>1. who' = who
      BY <1>4 DEF RemoveFolder
    <3>2. Tail(todo) \o <<>> = Tail(todo)
      <4>1. todo \in Seq(FolderSteps)
        BY <2>1 DEF Emptying
      <4>2. Tail(todo) \in Seq(FolderSteps)
        BY <2>1, <4>1, TailFacts
      <4> QED
        BY <4>2
    <3>3. \/ (x \in ToSet(todo) /\ todo' = Tail(todo) \o <<>>)
          \/ (x \notin ToSet(todo) /\ todo' = Tail(todo) \o <<x>>)
      BY <1>4 DEF RemoveFolder
    <3> QED
      BY <3>1, <3>2, <3>3
  <2> HIDE DEF x
  <2> QED
    BY <1>1, <2>1, <2>2, <2>4, <2>6, <2>7, <2>8, DeletionShrinks
<1>5. CASE EmptyFolder
  <2>1. todo # <<>> /\ Emptying /\ Pending("empty") /\ todo' = Tail(todo) /\ who' = who /\ folder' = folder
    BY <1>1, <1>5, Heads DEF EmptyFolder, Pending, Done
  <2>2. ItsOwn /\ ChildrenFirst /\ Descends
    BY <1>1, <2>1 DEF DeletionInv
  <2>3. todo \in Seq(FolderSteps) /\ Head(todo)[1] = "empty"
    BY <2>1 DEF Emptying, Pending
  <2>4. Head(todo) = todo[1] /\ Head(todo) \in FolderSteps
    BY <2>1, <2>3, TailFacts
  <2>5. Folders' = Folders
    BY <2>1 DEF Folders
  <2>6. \A f \in Folders' : ~Handles(1, f)
    BY <2>3, <2>4 DEF Handles
  <2> QED
    BY <1>1, <2>1, <2>2, <2>3, <2>4, <2>5, <2>6, DeletionShrinks
<1>6. ASSUME UNCHANGED <<todo, op, who>>, folder' = folder \/ \E k \in creating : CreateFolder(k)
      PROVE  ItsOwn' /\ ChildrenFirst' /\ Descends'
  <2>1. todo # <<>> /\ Emptying
    BY <1>1, <1>6 DEF Emptying
  <2>2. ItsOwn /\ ChildrenFirst /\ Descends
    BY <1>1, <2>1 DEF DeletionInv
  <2>3. CASE folder' = folder
    BY <1>6, <2>2, <2>3 DEF ItsOwn, ChildrenFirst, Descends, Handles, Folders
  <2>4. ASSUME NEW k \in creating, CreateFolder(k)
        PROVE  ItsOwn' /\ ChildrenFirst' /\ Descends'
    <3>1. folder[k.id] = Null
      BY <1>1 DEF Tree, NewIds
    <3> QED
      BY <1>1, <1>6, <2>1, <2>2, <2>4, <3>1, DeletionGoesBeside
  <2> QED
    BY <1>6, <2>3, <2>4
<1> QED
  BY <1>1, <1>2, <1>3, <1>4, <1>5, <1>6, DeletionChanges

(* Where the chats are.                                                    *)
Stays(c) == c \in Chats /\ chat'[c].user = chat[c].user /\ chat'[c].folder = chat[c].folder
Arrives(c) ==
  /\ folder' = folder
  /\ \E u \in User, g \in Folder \cup {None} :
       chat'[c].user = u /\ chat'[c].folder = g /\ (g = None \/ g \in FoldersOf(u))

LEMMA FirstOf ==
  ASSUME NEW a, NEW b, NEW q, q = <<a, b>> \/ q = <<b>>
  PROVE  Head(q) = a \/ Head(q) = b
  OBVIOUS

LEMMA RowChanges ==
  ASSUME TypeOK, NEW d \in Chats, NEW r \in ChatRow, r.user = chat[d].user, chat' = [chat EXCEPT ![d] = r]
  PROVE  \A c \in Chats' : (c # d \/ r.folder = chat[d].folder => Stays(c)) /\ (c = d => chat'[c] = r)
<1>1. \A c \in Chat : chat'[c] = IF c = d THEN r ELSE chat[c]
  BY DEF TypeOK
<1>2. \A c \in Chats' : c \in Chat /\ c \in Chats
  BY <1>1 DEF Chats
<1> QED
  BY <1>1, <1>2 DEF Stays

LEMMA InsertedChats ==
  ASSUME TypeOK, NEW u \in User, NEW d \in Chat, NEW f, NEW ts, Insert(u, d, f, ts), folder' = folder,
         f \in FoldersOf(u) \cup {None}
  PROVE  \A c \in Chats' : Stays(c) \/ Arrives(c)
<1> DEFINE r == [user |-> u, folder |-> f, tags |-> ts, archived |-> FALSE, shared |-> FALSE]
<1>1. r.user = u /\ r.folder = f
  OBVIOUS
<1>2. \A c \in Chat : chat'[c] = IF c = d THEN r ELSE chat[c]
  BY DEF Insert, TypeOK
<1> HIDE DEF r
<1>3. \A c \in Chats' : c \in Chat /\ (c # d => Stays(c))
  BY <1>2 DEF Chats, Stays
<1>4. d \in Chats' => Arrives(d)
  <2>1. f \in Folder \cup {None}
    BY DEF FoldersOf, Folders
  <2> QED
    BY <1>1, <1>2, <2>1 DEF Arrives
<1> QED
  BY <1>3, <1>4

LEMMA FewerChats ==
  ASSUME TypeOK, \A c \in Chat : chat'[c] = chat[c] \/ chat'[c] = Gone
  PROVE  \A c \in Chats' : Stays(c)
  BY DEF Chats, Stays

PlaceSlips == {"stale", "foreign", "deleteFolder"}

LEMMA ChatPlaces ==
  ASSUME Typed, [Next]_vars, slips' \cap PlaceSlips = {}
  PROVE  \A c \in Chats' : Stays(c) \/ Arrives(c)
<1>0. TypeOK /\ Work /\ "stale" \notin slips' /\ "foreign" \notin slips'
  BY DEF Typed, PlaceSlips
<1>r. \A c \in Chats : chat[c] \in ChatRow /\ c \in Chat /\ chat[c].user \in User
  BY <1>0, Rows
<1>1. ASSUME chat' = chat
      PROVE  \A c \in Chats' : Stays(c) \/ Arrives(c)
  BY <1>1 DEF Stays, Chats
<1>2. ASSUME NEW d \in Chats, NEW ts, chat' = [chat EXCEPT ![d] = [chat[d] EXCEPT !.tags = ts]], ts \in SUBSET Tag
      PROVE  \A c \in Chats' : Stays(c) \/ Arrives(c)
  <2> DEFINE r == [chat[d] EXCEPT !.tags = ts]
  <2>1. r \in ChatRow /\ r.user = chat[d].user /\ r.folder = chat[d].folder
    BY <1>2, <1>r DEF ChatRow
  <2>2. chat' = [chat EXCEPT ![d] = r]
    BY <1>2
  <2> HIDE DEF r
  <2> QED
    BY <1>0, <2>1, <2>2, RowChanges
<1>3. ASSUME NEW c \in Chat, ChatRequest(c)
      PROVE  \A d \in Chats' : Stays(d) \/ Arrives(d)
  <2>1. CASE DeleteAllTags(c) \/ \E ts \in SUBSET Tag : UpdateTags(c, ts)
    <3>1. c \in Chats /\ chat' = [chat EXCEPT ![c] = [chat[c] EXCEPT !.tags = {}]]
      BY <2>1 DEF DeleteAllTags, UpdateTags
    <3> QED
      BY <1>2, <3>1
  <2>2. ASSUME NEW t \in Tag, RemoveTag(c, t)
        PROVE  \A d \in Chats' : Stays(d) \/ Arrives(d)
    <3>1. c \in Chats /\ chat' = [chat EXCEPT ![c] = [chat[c] EXCEPT !.tags = chat[c].tags \ {t}]]
      BY <2>2 DEF RemoveTag
    <3>2. chat[c].tags \ {t} \in SUBSET Tag
      BY <1>r, <3>1 DEF ChatRow
    <3> QED
      BY <1>2, <3>1, <3>2
  <2>3. CASE ArchiveChat(c)
    <3> DEFINE r == [chat[c] EXCEPT !.archived = ~@]
    <3>1. c \in Chats /\ chat' = [chat EXCEPT ![c] = r]
      BY <2>3 DEF ArchiveChat
    <3>2. r \in ChatRow /\ r.user = chat[c].user /\ r.folder = chat[c].folder
      BY <1>r, <3>1 DEF ChatRow
    <3> HIDE DEF r
    <3> QED
      BY <1>0, <3>1, <3>2, RowChanges
  <2>4. ASSUME NEW f \in Folder \cup {None}, MoveChat(c, f)
        PROVE  \A d \in Chats' : Stays(d) \/ Arrives(d)
    <3> DEFINE r == [chat[c] EXCEPT !.folder = f]
               u == chat[c].user
    <3>1. c \in Chats /\ chat' = [chat EXCEPT ![c] = r] /\ folder' = folder /\ f \in Shown(u) /\ ~Stale(f)
      BY <1>0, <2>4 DEF MoveChat, Slip
    <3>2. r \in ChatRow /\ r.user = u /\ r.folder = f
      BY <1>r, <3>1 DEF ChatRow
    <3>3. f = None \/ f \in FoldersOf(u)
      BY <3>1 DEF Shown, Stale, Folders
    <3> HIDE DEF r
    <3>4. \A d \in Chats' : (d # c => Stays(d)) /\ (d = c => chat'[d] = r)
      <4>1. c \in Chats /\ r \in ChatRow /\ r.user = chat[c].user /\ chat' = [chat EXCEPT ![c] = r]
        BY <3>1, <3>2
      <4>2. \A d \in Chats' : (d # c \/ r.folder = chat[c].folder => Stays(d)) /\ (d = c => chat'[d] = r)
        BY <1>0, <4>1, RowChanges
      <4> QED
        BY <4>2
    <3>5. chat'[c] = r => Arrives(c)
      BY <1>r, <3>1, <3>2, <3>3 DEF Arrives
    <3> QED
      BY <3>4, <3>5
  <2>5. CASE DeleteChat(c) \/ UnshareChat(c) \/ ShareChat(c) \/ ShareAgain(c) \/ \E t \in Tag : AddTag(c, t)
    <3>1. chat' = chat
      BY <2>5 DEF DeleteChat, UnshareChat, ShareChat, ShareAgain, AddTag
    <3> QED
      BY <1>1, <3>1
  <2>6. ASSUME NEW new \in Chat, NEW u \in User, NEW row, Clone(u, new, row)
        PROVE  \A d \in Chats' : Stays(d) \/ Arrives(d)
    <3>1. Insert(u, new, row.folder, row.tags) /\ folder' = folder /\ row.folder \in FoldersOf(u) \cup {None}
      BY <1>0, <2>6 DEF Clone, Slip
    <3> QED
      BY <1>0, <3>1, InsertedChats
  <2>7. ASSUME NEW new \in Chat, CloneChat(c, new) \/ \E u \in User : CloneSharedChat(u, c, new)
        PROVE  \A d \in Chats' : Stays(d) \/ Arrives(d)
    BY <1>r, <2>6, <2>7 DEF CloneChat, CloneSharedChat
  <2> QED
    BY <1>3, <2>1, <2>2, <2>3, <2>4, <2>5, <2>7 DEF ChatRequest
<1>4. ASSUME NEW u \in User, UserRequest(u)
      PROVE  \A d \in Chats' : Stays(d) \/ Arrives(d)
  <2>1. CASE ArchiveAll(u)
    <3>1. \A c \in ChatsOf(u) : LET r == [chat[c] EXCEPT !.archived = TRUE]
                                IN  r.user = chat[c].user /\ r.folder = chat[c].folder
      <4>1. \A c \in ChatsOf(u) : chat[c] \in ChatRow
        BY <1>r DEF ChatsOf
      <4> QED
        BY <4>1 DEF ChatRow
    <3>2. \A c \in Chat : chat'[c] = IF c \in ChatsOf(u) THEN [chat[c] EXCEPT !.archived = TRUE] ELSE chat[c]
      BY <2>1 DEF ArchiveAll
    <3>3. \A c \in Chats' : c \in Chat /\ c \in Chats
      BY <3>2 DEF Chats, ChatsOf
    <3> QED
      BY <3>1, <3>2, <3>3 DEF Stays
  <2>2. CASE DeleteAllChats(u) \/ \E f \in Folder, n \in Name : AskFolder(u, f, n)
    <3>1. chat' = chat
      BY <2>2 DEF DeleteAllChats, AskFolder
    <3> QED
      BY <1>1, <3>1
  <2>3. ASSUME NEW c \in Chat, NEW f \in Folder \cup {None}, NEW ts, f \in Shown(u), ~Stale(f),
               Insert(u, c, f, ts), folder' = folder
        PROVE  \A d \in Chats' : Stays(d) \/ Arrives(d)
    <3>1. f \in FoldersOf(u) \cup {None}
      BY <2>3 DEF Shown, Stale, Folders
    <3> QED
      BY <1>0, <2>3, <3>1, InsertedChats
  <2>4. ASSUME NEW c \in Chat, NEW f \in Folder \cup {None},
               CreateNewChat(u, c, f) \/ \E ts \in SUBSET Tag : ImportChat(u, c, f, ts)
        PROVE  \A d \in Chats' : Stays(d) \/ Arrives(d)
    BY <1>0, <2>3, <2>4 DEF CreateNewChat, ImportChat, Slip
  <2> QED
    BY <1>4, <2>1, <2>2, <2>4 DEF UserRequest
<1>5. ASSUME NEW f \in Folder, FolderRequest(f)
      PROVE  chat' = chat
  BY <1>5 DEF FolderRequest, RenameFolder, MoveFolder, DeleteFolder
<1>6. CASE Rest
  <2>1. CASE DeleteRow \/ DeleteRows \/ EmptyFolder
    <3>1. \A c \in Chat : chat'[c] = chat[c] \/ chat'[c] = Gone
      BY <1>0, <2>1 DEF DeleteRow, DeleteRows, EmptyFolder, TypeOK
    <3> QED
      BY <1>0, <3>1, FewerChats
  <2>2. CASE AddChatTag
    <3>1. Linking
      BY <1>0, <2>2, Heads DEF AddChatTag
    <3>2. PICK c \in Tagged, t \in Tag : Head(todo) = <<"tag", c, t>>
      BY <3>1 DEF Linking
    <3>3. Arg = c /\ Arg2 = t
      BY <3>2, Triple, Zenon DEF Arg, Arg2
    <3>4. c \in Chats
      BY DEF Tagged, ChatsOf
    <3>5. chat' = [chat EXCEPT ![c] = [chat[c] EXCEPT !.tags = chat[c].tags \cup {t}]]
      BY <2>2, <3>3 DEF AddChatTag
    <3>6. chat[c].tags \cup {t} \in SUBSET Tag
      BY <1>r, <3>4 DEF ChatRow
    <3> QED
      BY <1>2, <3>4, <3>5, <3>6
  <2>3. CASE SetShareId
    <3>1. PICK c \in Chats, b \in BOOLEAN : Head(todo) = <<"link", c, b>>
      <4>1. (Sharing \/ Unsharing) /\ Head(todo)[1] = "link"
        BY <1>0, <2>3, Heads DEF SetShareId, Pending
      <4>2. CASE Sharing
        <5>1. PICK c \in Chats : todo = <<<<"link", c, TRUE>>>>
          BY <4>2 DEF Sharing
        <5>2. Head(todo) = <<"link", c, TRUE>>
          BY <5>1, OneLeft, Zenon
        <5> QED
          BY <5>2
      <4>3. CASE Unsharing
        <5>1. PICK c \in Chats : todo = <<<<"uncopy", {c}>>, <<"link", c, FALSE>>>> \/ todo = <<<<"link", c, FALSE>>>>
          BY <4>3 DEF Unsharing
        <5>2. Head(todo) = <<"uncopy", {c}>> \/ Head(todo) = <<"link", c, FALSE>>
          BY <5>1, FirstOf, Zenon
        <5>3. <<"uncopy", {c}>>[1] = "uncopy"
          OBVIOUS
        <5>4. Head(todo) = <<"link", c, FALSE>>
          BY <4>1, <5>2, <5>3
        <5> QED
          BY <5>4
      <4> QED
        BY <4>1, <4>2, <4>3
    <3>2. Arg = c /\ Arg2 = b
      BY <3>1, Triple, Zenon DEF Arg, Arg2
    <3> DEFINE r == [chat[c] EXCEPT !.shared = b]
    <3>3. chat' = [chat EXCEPT ![c] = r]
      BY <2>3, <3>2 DEF SetShareId
    <3>4. r \in ChatRow /\ r.user = chat[c].user /\ r.folder = chat[c].folder
      BY <1>r DEF ChatRow
    <3> HIDE DEF r
    <3> QED
      BY <1>0, <3>3, <3>4, RowChanges
  <2>4. CASE EnsureTag \/ InsertTag \/ Prune \/ DeleteCopies \/ GetChildren \/ RemoveFolder \/ \E k \in creating : CreateFolder(k)
    <3>1. chat' = chat
      BY <2>4 DEF EnsureTag, InsertTag, Prune, DeleteCopies, GetChildren, RemoveFolder, CreateFolder
    <3> QED
      BY <1>1, <3>1
  <2> QED
    BY <1>6, <2>1, <2>2, <2>3, <2>4 DEF Rest
<1>7. CASE Crash
  BY <1>1, <1>7 DEF Crash
<1>8. CASE UNCHANGED vars
  BY <1>1, <1>8 DEF vars
<1> QED
  BY <1>1, <1>3, <1>4, <1>5, <1>6, <1>7, <1>8 DEF Next

LEMMA Emptied ==
  ASSUME Work, NEW g, <<"empty", g>> \in ToSet(todo)
  PROVE  Emptying /\ todo # <<>>
<1> DEFINE x == <<"empty", g>>
           Kind(S) == \A y \in S : y[1] # "empty"
<1>0. todo # <<>> /\ x[1] = "empty" /\ x \in ToSet(todo)
  BY DEF ToSet
<1> HIDE DEF x, Kind
<1>1. ASSUME NEW S, todo \in Seq(S), Kind(S)
      PROVE  FALSE
  BY <1>0, <1>1, ElementOf DEF Kind
<1>2. ASSUME NEW c \in Chat, DeletionWork(c)
      PROVE  FALSE
  <2>1. todo \in Seq(DeletionSteps)
    BY <1>2 DEF DeletionWork
  <2>2. Kind(DeletionSteps)
    BY DEF DeletionSteps, Kind
  <2> QED
    BY <1>1, <2>1, <2>2
<1>3. ASSUME Sharing \/ Unsharing
      PROVE  FALSE
  <2>1. PICK c \in Chats, b \in BOOLEAN : todo = <<<<"uncopy", {c}>>, <<"link", c, b>>>> \/ todo = <<<<"link", c, b>>>>
    BY <1>3 DEF Sharing, Unsharing
  <2> DEFINE y == <<"uncopy", {c}>>
             z == <<"link", c, b>>
  <2>4. todo = <<y, z>> \/ todo = <<z>>
    BY <2>1
  <2> HIDE DEF y, z
  <2>5. x = y \/ x = z
    BY <1>0, <2>4, OneOrTwo
  <2>2. x = <<"uncopy", {c}>> \/ x = <<"link", c, b>>
    BY <2>5 DEF y, z
  <2>3. <<"uncopy", {c}>>[1] = "uncopy" /\ <<"link", c, b>>[1] = "link"
    OBVIOUS
  <2> QED
    BY <1>0, <2>2, <2>3
<1>4. ASSUME DeletingAll
      PROVE  FALSE
  <2>1. todo = <<<<"uncopy", ChatsOf(who)>>, <<"deleteAll", who>>>> \/ todo = <<<<"deleteAll", who>>>>
    BY <1>4 DEF DeletingAll
  <2>2. x = <<"uncopy", ChatsOf(who)>> \/ x = <<"deleteAll", who>>
    BY <1>0, <2>1, OneOrTwo, Zenon
  <2>3. <<"uncopy", ChatsOf(who)>>[1] = "uncopy" /\ <<"deleteAll", who>>[1] = "deleteAll"
    OBVIOUS
  <2> QED
    BY <1>0, <2>2, <2>3
<1>5. ASSUME Inserting \/ Pruning \/ Adding \/ Linking
      PROVE  FALSE
  <2>1. \/ todo \in Seq({"insertTag"} \X InUse) \/ todo \in Seq({"prune"} \X Tag \X {0})
        \/ todo \in Seq(TagSteps \cup ({"tag"} \X Tagged \X Tag)) \/ todo \in Seq(TagSteps)
    BY <1>5 DEF Inserting, Pruning, Adding, Linking
  <2>2. Kind({"insertTag"} \X InUse) /\ Kind({"prune"} \X Tag \X {0})
    BY DEF Kind
  <2>3. Kind(TagSteps) /\ Kind(TagSteps \cup ({"tag"} \X Tagged \X Tag))
    BY DEF Kind, TagSteps
  <2> QED
    BY <1>1, <2>1, <2>2, <2>3
<1> QED
  BY <1>0, <1>2, <1>3, <1>4, <1>5 DEF Work

LEMMA EmptyingGoesOn ==
  ASSUME Work, Emptying, todo # <<>>, [Next]_vars
  PROVE  GetChildren \/ RemoveFolder \/ EmptyFolder \/ Crash \/ UNCHANGED <<todo, who>>
<1>1. CASE UNCHANGED vars
  BY <1>1 DEF vars
<1>2. ASSUME NEW c \in Chat, ChatRequest(c)
      PROVE  FALSE
  BY <1>2 DEF ChatRequest, DeleteAllTags, ArchiveChat, DeleteChat, ShareChat, ShareAgain, UnshareChat, MoveChat,
              AddTag, RemoveTag, UpdateTags, CloneChat, CloneSharedChat, Clone, Request
<1>3. ASSUME NEW u \in User, UserRequest(u)
      PROVE  UNCHANGED <<todo, who>>
  BY <1>3 DEF UserRequest, ArchiveAll, DeleteAllChats, AskFolder, CreateNewChat, ImportChat, Request
<1>4. ASSUME NEW f \in Folder, FolderRequest(f)
      PROVE  FALSE
  BY <1>4 DEF FolderRequest, RenameFolder, MoveFolder, DeleteFolder, Request
<1>5. ASSUME NEW k \in creating, CreateFolder(k)
      PROVE  UNCHANGED <<todo, who>>
  BY <1>5 DEF CreateFolder
<1>6. ASSUME EnsureTag \/ InsertTag \/ AddChatTag \/ Prune \/ DeleteRow \/ DeleteRows \/ DeleteCopies \/ SetShareId
      PROVE  FALSE
  <2>1. op = "deleteFolder"
    BY DEF Emptying
  <2>2. /\ ~Inserting /\ ~Linking /\ ~Adding /\ ~Pruning /\ ~Unsharing /\ ~Sharing /\ ~DeletingAll
        /\ ~\E c \in Chat : DeletionWork(c)
    BY <2>1 DEF Inserting, Linking, Adding, Pruning, Unsharing, Sharing, DeletingAll, DeletionWork
  <2> QED
    BY <1>6, <2>2, Heads DEF EnsureTag, InsertTag, AddChatTag, Prune, DeleteRow, DeleteRows, DeleteCopies, SetShareId
<1> QED
  BY <1>1, <1>2, <1>3, <1>4, <1>5, <1>6 DEF Next, Rest

Placed(u, g) == g \in FoldersOf(u) \cup {None} \/ Awaits(u, <<"empty", g>>)
InPlace(c) == Placed(chat[c].user, chat[c].folder)

LEMMA PlaceParts == PlaceInv <=> (slips \cap PlaceSlips = {} => \A c \in Chats : InPlace(c))
  BY DEF PlaceInv, PlaceSlips, InPlace, Placed

LEMMA PlaceKept ==
  ASSUME \A c \in Chats : InPlace(c), \A c \in Chats' : Stays(c) \/ Arrives(c),
         \A u, g : Placed(u, g) => Placed(u, g)'
  PROVE  \A c \in Chats' : InPlace(c)'
<1> SUFFICES ASSUME NEW c \in Chats'
             PROVE  InPlace(c)'
  OBVIOUS
<1>1. CASE Stays(c)
  <2> DEFINE u == chat[c].user
             g == chat[c].folder
  <2>1. Placed(u, g)
    BY <1>1 DEF Stays, InPlace
  <2>2. \A v, h : v = u /\ h = g => Placed(v, h)'
    BY <2>1
  <2>3. chat'[c].user = u /\ chat'[c].folder = g
    BY <1>1 DEF Stays
  <2> QED
    BY <2>2, <2>3 DEF InPlace
<1>2. CASE Arrives(c)
  <2>1. PICK u \in User, g \in Folder \cup {None} :
          chat'[c].user = u /\ chat'[c].folder = g /\ (g = None \/ g \in FoldersOf(u)) /\ folder' = folder
    BY <1>2 DEF Arrives
  <2>2. Placed(u, g)'
    BY <2>1 DEF Placed, FoldersOf, Folders
  <2> QED
    BY <2>1, <2>2 DEF InPlace
<1> QED
  BY <1>1, <1>2

(* A folder is gone, or the chats in one: what is left is still in place.  *)
LEMMA PlaceRemove ==
  ASSUME Typed, ItsOwn, ChildrenFirst, RemoveFolder, NEW u, NEW g, Placed(u, g)
  PROVE  Placed(u, g)'
<1> DEFINE x == <<"empty", Arg>>
<1>1. TypeOK /\ Work /\ Emptying /\ todo # <<>> /\ Pending("remove")
  BY Heads DEF Typed, RemoveFolder, Pending
<1>2. todo \in Seq(FolderSteps) /\ Head(todo)[1] = "remove" /\ who' = who
  BY <1>1 DEF Emptying, Pending, RemoveFolder
<1>3. Arg \in Folder
  BY <1>1, NothingInside
<1>4. x \in FolderSteps /\ x[1] = "empty"
  BY <1>3 DEF FolderSteps
<1>5. \/ (x \in ToSet(todo) /\ todo' = Tail(todo) \o <<>>)
      \/ (x \notin ToSet(todo) /\ todo' = Tail(todo) \o <<x>>)
  BY DEF RemoveFolder
<1> HIDE DEF x
<1>6. Tail(todo) \o <<>> = Tail(todo)
  <2>1. Tail(todo) \in Seq(FolderSteps)
    BY <1>1, <1>2, TailFacts
  <2> QED
    BY <2>1
<1>7. /\ \A s \in ToSet(todo) : s # Head(todo) => s \in ToSet(todo')
      /\ todo' = Tail(todo) \o <<x>> => x \in ToSet(todo')
  BY <1>1, <1>2, <1>4, <1>5, <1>6, AfterFirst
<1>8. x \in ToSet(todo')
  BY <1>2, <1>4, <1>5, <1>7
<1>9. CASE Awaits(u, <<"empty", g>>)
  <2>1. <<"empty", g>> # Head(todo)
    BY <1>2
  <2> QED
    BY <1>2, <1>7, <1>9, <2>1 DEF Awaits, Placed
<1>10. CASE g = None
  BY <1>10 DEF Placed
<1>11. CASE g \in FoldersOf(u)
  <2>1. \A f \in Folder : folder'[f] = IF f = Arg THEN Gone ELSE folder[f]
    BY <1>1 DEF RemoveFolder, TypeOK
  <2>2. CASE g # Arg
    BY <1>11, <2>1, <2>2 DEF Placed, FoldersOf, Folders
  <2>3. CASE g = Arg
    <3>1. Head(todo) = todo[1] /\ 1 \in DOMAIN todo
      BY <1>1, <1>2, TailFacts
    <3>2. Handles(1, Arg)
      BY <1>2, <3>1 DEF Handles, Arg
    <3>3. folder[g].user = who
      BY <1>3, <1>11, <2>3, <3>1, <3>2 DEF ItsOwn, FoldersOf
    <3>4. u = who
      BY <1>11, <3>3 DEF FoldersOf
    <3> QED
      BY <1>2, <1>8, <2>3, <3>4 DEF Placed, Awaits, x
  <2> QED
    BY <2>2, <2>3
<1> QED
  BY <1>9, <1>10, <1>11 DEF Placed

LEMMA PlaceEmpty ==
  ASSUME Typed, EmptyFolder, \A c \in Chats : InPlace(c)
  PROVE  \A c \in Chats' : InPlace(c)'
<1>1. TypeOK /\ Work /\ Emptying /\ todo # <<>> /\ todo' = Tail(todo) /\ who' = who /\ folder' = folder
  BY Heads DEF Typed, EmptyFolder, Pending, Done
<1>2. todo \in Seq(FolderSteps) /\ Head(todo) \in FolderSteps /\ Head(todo)[1] = "empty"
  <2>1. todo \in Seq(FolderSteps)
    BY <1>1 DEF Emptying
  <2> QED
    BY <1>1, <2>1, TailFacts DEF EmptyFolder, Pending
<1>3. \A s \in ToSet(todo) : s # Head(todo) => s \in ToSet(todo')
  BY <1>1, <1>2, AfterFirst
<1>4. \A f : Head(todo) = <<"empty", f>> => f = Arg
  BY DEF Arg
<1> SUFFICES ASSUME NEW c \in Chats'
             PROVE  InPlace(c)'
  OBVIOUS
<1> DEFINE u == chat[c].user
           g == chat[c].folder
<1>5. c \in Chats /\ chat'[c] = chat[c] /\ ~(u = who /\ g = Arg)
  <2>1. \A d \in Chat : chat'[d] = IF d \in {e \in ChatsOf(who) : chat[e].folder = Arg} THEN Gone ELSE chat[d]
    BY DEF EmptyFolder
  <2> QED
    BY <2>1 DEF Chats, ChatsOf
<1>6. Placed(u, g)
  BY <1>5 DEF InPlace
<1>7. \A v, h : v = u /\ h = g => Placed(v, h)'
  <2> SUFFICES ASSUME NEW v, NEW h, v = u, h = g
               PROVE  Placed(v, h)'
    OBVIOUS
  <2>1. CASE h \in FoldersOf(v) \cup {None}
    BY <1>1, <2>1 DEF Placed, FoldersOf, Folders
  <2>2. CASE Awaits(v, <<"empty", h>>)
    <3>1. v = who /\ <<"empty", h>> \in ToSet(todo) /\ h # Arg
      BY <1>5, <2>2 DEF Awaits
    <3>2. <<"empty", h>> # Head(todo)
      BY <1>4, <3>1
    <3> QED
      BY <1>1, <1>3, <3>1, <3>2 DEF Placed, Awaits
  <2> QED
    BY <1>6, <2>1, <2>2 DEF Placed
<1> QED
  BY <1>5, <1>7 DEF InPlace

LEMMA FoldersStay ==
  ASSUME TypeOK, Tree, [Next]_vars, ~RemoveFolder, NEW u
  PROVE  FoldersOf(u) \subseteq FoldersOf(u)'
<1>1. CASE folder' = folder
  BY <1>1 DEF FoldersOf, Folders
<1>2. ASSUME NEW k \in creating, CreateFolder(k)
      PROVE  \A f \in Folders : folder'[f] = folder[f]
  <2>1. folder[k.id] = Null /\ folder' = [folder EXCEPT ![k.id] = [user |-> k.user, parent |-> None, name |-> k.name]]
    BY <1>2 DEF CreateFolder, Tree, NewIds
  <2> QED
    BY <2>1 DEF Folders, TypeOK
<1>3. ASSUME NEW f \in Folder, NEW r \in FolderRow, f \in Folders, r.user = folder[f].user, folder' = [folder EXCEPT ![f] = r]
      PROVE  FoldersOf(u) \subseteq FoldersOf(u)'
  <2>1. \A g \in Folder : folder'[g] = IF g = f THEN r ELSE folder[g]
    BY <1>3 DEF TypeOK
  <2>2. r # Null /\ r # Gone
    BY FolderRows
  <2> QED
    BY <1>3, <2>1, <2>2 DEF FoldersOf, Folders
<1>4. ASSUME NEW f \in Folder, NEW n \in Name, RenameFolder(f, n)
      PROVE  FoldersOf(u) \subseteq FoldersOf(u)'
  <2> DEFINE r == [folder[f] EXCEPT !.name = n]
  <2>1. f \in Folders /\ folder' = [folder EXCEPT ![f] = r]
    BY <1>4 DEF RenameFolder
  <2>2. r \in FolderRow /\ r.user = folder[f].user
    BY <2>1, FolderRows DEF FolderRow
  <2> HIDE DEF r
  <2> QED
    BY <1>3, <2>1, <2>2
<1>5. ASSUME NEW f \in Folder, NEW p \in Folder \cup {None}, MoveFolder(f, p)
      PROVE  FoldersOf(u) \subseteq FoldersOf(u)'
  <2> DEFINE r == [folder[f] EXCEPT !.parent = p]
  <2>1. f \in Folders /\ folder' = [folder EXCEPT ![f] = r]
    BY <1>5 DEF MoveFolder
  <2>2. r \in FolderRow /\ r.user = folder[f].user
    BY <2>1, FolderRows DEF FolderRow
  <2> HIDE DEF r
  <2> QED
    BY <1>3, <2>1, <2>2
<1>6. ASSUME NEW v \in User, NEW f \in Folder, NEW n \in Name, AskFolder(v, f, n)
      PROVE  folder' = folder
  BY <1>6 DEF AskFolder
<1>7. CASE \A f \in Folders : folder'[f] = folder[f]
  BY <1>7 DEF FoldersOf, Folders
<1> QED
  BY <1>1, <1>2, <1>4, <1>5, <1>6, <1>7, FolderChanges

LEMMA PlaceStep ==
  ASSUME Typed, TreeInv, DeletionInv, PlaceInv, [Next]_vars
  PROVE  PlaceInv'
<1> SUFFICES ASSUME slips' \cap PlaceSlips = {}
             PROVE  \A c \in Chats' : InPlace(c)'
  BY DEF PlaceInv, PlaceSlips, InPlace, Placed
<1>1. /\ TypeOK /\ Work /\ Tree /\ "stale" \notin slips /\ "deleteFolder" \notin slips'
      /\ \A c \in Chats : InPlace(c)
  <2>1. slips \cap PlaceSlips = {}
    BY FolderChanges
  <2> QED
    BY <2>1, PlaceParts DEF Typed, TreeInv, PlaceSlips
<1>2. \A c \in Chats' : Stays(c) \/ Arrives(c)
  BY ChatPlaces
<1>3. CASE RemoveFolder
  <2>1. ItsOwn /\ ChildrenFirst
    BY <1>1, <1>3, Heads DEF RemoveFolder, Pending, DeletionInv
  <2>2. \A u, g : Placed(u, g) => Placed(u, g)'
    BY <1>3, <2>1, PlaceRemove
  <2> QED
    BY <1>1, <1>2, <2>2, PlaceKept
<1>4. CASE EmptyFolder
  BY <1>1, <1>4, PlaceEmpty
<1>5. CASE ~RemoveFolder /\ ~EmptyFolder
  <2>1. \A u : FoldersOf(u) \subseteq FoldersOf(u)'
    BY <1>1, <1>5, FoldersStay
  <2>2. ASSUME NEW u, NEW g, Awaits(u, <<"empty", g>>)
        PROVE  Awaits(u, <<"empty", g>>)'
    <3>1. Emptying /\ todo # <<>> /\ u = who /\ <<"empty", g>> \in ToSet(todo)
      BY <1>1, <2>2, Emptied DEF Awaits
    <3>2. CASE GetChildren
      <4>1. ItsOwn /\ ChildrenFirst /\ Descends
        BY <1>1, <3>1 DEF DeletionInv
      <4>2. <<"empty", g>> # Head(todo) /\ who' = who
        BY <3>2 DEF GetChildren, Pending
      <4> QED
        BY <1>1, <3>1, <3>2, <4>1, <4>2, DeletionExpands DEF Awaits
    <3>3. CASE Crash
      BY <1>1, <3>1, <3>3 DEF Crash, Slip, Emptying
    <3>4. CASE UNCHANGED <<todo, who>>
      BY <2>2, <3>4 DEF Awaits
    <3> QED
      BY <1>1, <1>5, <3>1, <3>2, <3>3, <3>4, EmptyingGoesOn
  <2>3. \A u, g : Placed(u, g) => Placed(u, g)'
    BY <2>1, <2>2 DEF Placed
  <2> QED
    BY <1>1, <1>2, <2>3, PlaceKept
<1> QED
  BY <1>3, <1>4, <1>5

(* ChatsListed: every folder can be reached from the root of its user, and *)
(* every chat is at the root or in a folder of its user.  A folder is      *)
(* removed only when those in it are gone, and the chats in it stay in the *)
(* list of what is to be emptied until they are deleted.                   *)
THEOREM FoldersAndChatsListed == Spec => []ChatsListed
<1> DEFINE Inv == Typed /\ TreeInv /\ DeletionInv /\ PlaceInv
<1>1. Init => Inv
  <2>1. Init => Folders = {} /\ Chats = {} /\ creating = {} /\ todo = <<>>
    BY DEF Init, Folders, Chats
  <2> QED
    BY <2>1, TypedInit DEF TreeInv, Tree, NewIds, Parents, DeletionInv, PlaceInv
<1>2. Inv /\ [Next]_vars => Inv'
  BY TypedStep, TreeStep, DeletionStep, PlaceStep
<1>3. Inv => ChatsListed
  <2> SUFFICES ASSUME Inv
               PROVE  ChatsListed
    OBVIOUS
  <2>1. "stale" \notin slips => \A f \in Folders : Reachable(folder[f].user, f)
    BY DEF TreeInv, Tree
  <2>2. ASSUME ~Excused(PlaceSlips), NEW c \in Chats
        PROVE  chat[c].folder = None \/ Reachable(chat[c].user, chat[c].folder)
    <3>1. Work /\ slips \cap PlaceSlips = {} /\ "stale" \notin slips /\ (todo # <<>> => op # "deleteFolder")
      BY <2>2 DEF Typed, Excused, PlaceSlips
    <3>2. Placed(chat[c].user, chat[c].folder)
      BY <3>1, PlaceParts DEF InPlace
    <3>3. ~Awaits(chat[c].user, <<"empty", chat[c].folder>>)
      BY <3>1, Emptied DEF Awaits, Emptying
    <3>4. chat[c].folder = None \/ chat[c].folder \in FoldersOf(chat[c].user)
      BY <3>2, <3>3 DEF Placed
    <3> QED
      BY <2>1, <3>1, <3>4 DEF FoldersOf
  <2> QED
    BY <2>1, <2>2 DEF ChatsListed, PlaceSlips
<1> HIDE DEF Inv
<1>4. Spec => []Inv
  BY <1>1, <1>2, PTL DEF Spec
<1> QED
  BY <1>3, <1>4, PTL
=============================================================================
