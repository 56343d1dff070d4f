---------------------------- MODULE SessionPool ----------------------------
(***************************************************************************)
(* SESSION_POOL and USER_POOL of backend/open_webui/socket/main.py: which  *)
(* user each Socket.IO session belongs to, and which sessions each user    *)
(* has.  "Is this user active?" is answered by USER_POOL having the user.  *)
(*                                                                         *)
(* With one instance the pools are dictionaries and no handler suspends    *)
(* while it works on them.  With several the pools are Redis hashes, and   *)
(* every dictionary operation is a command of its own (RedisDict in        *)
(* socket/utils.py), so that handlers of different instances interleave    *)
(* between commands.  The commands are synchronous: an instance runs one   *)
(* handler at a time.  One instance is thus the special case in which      *)
(* nothing interleaves.                                                    *)
(*                                                                         *)
(* The document manager is reduced to the sessions it knows.  In memory it *)
(* does not suspend its caller; over Redis it does, and CollabDoc is about *)
(* what happens then.                                                      *)
(*                                                                         *)
(* A list of session ids is represented by its set: the code removes every *)
(* occurrence of an id, and its readers drop repetitions.                  *)
(***************************************************************************)
EXTENDS Server, Naturals, FiniteSets

CONSTANTS
  User,
  NoUser,    \* no entry in SESSION_POOL, or a connection without a token
  Absent,    \* no entry in USER_POOL
  Shared,    \* the pools are in Redis and survive an instance
  Crashes    \* instances may crash (and restart with no connection)

ASSUME SessionAssumption ==
  /\ NoUser \notin User
  /\ \A S \in SUBSET Sid : S # Absent
  /\ Shared \in BOOLEAN /\ Crashes \in BOOLEAN

VARIABLES
  conn,      \* new, open, closed
  switched,  \* history: sessions that have registered for another user before
  sess,      \* SESSION_POOL: the user of a session id
  pool,      \* USER_POOL: the session ids of a user
  editing,   \* session ids in the user sets of the document manager
  pc,        \* of an instance: idle, or the next command of its handler
  sid,       \* the session its handler serves
  user,      \* the user it does so for
  got        \* the list it has read

handler == <<pc, sid, user, got>>
vars == <<conn, switched, sess, pool, editing, handler>>

TypeOK ==
  /\ conn \in [Sid -> {"new", "open", "closed"}] /\ switched \subseteq Sid
  /\ sess \in [Sid -> User \cup {NoUser}]
  /\ pool \in [User -> {Absent} \cup SUBSET Sid]
  /\ editing \subseteq Sid
  /\ pc \in [Instance -> {"idle", "has", "read", "put", "take", "store", "check", "delete",
                          "documents"}]
  /\ sid \in [Instance -> Sid]
  /\ user \in [Instance -> User]
  /\ got \in [Instance -> SUBSET Sid]

Init ==
  /\ conn = [s \in Sid |-> "new"] /\ switched = {}
  /\ sess = [s \in Sid |-> NoUser]
  /\ pool = [u \in User |-> Absent]
  /\ editing = {}
  /\ pc = [i \in Instance |-> "idle"]
  /\ sid \in [Instance -> Sid]
  /\ user \in [Instance -> User]
  /\ got = [i \in Instance |-> {}]

Idle(i) == pc[i] = "idle"
Goto(i, l) == pc' = [pc EXCEPT ![i] = l]

-----------------------------------------------------------------------------
(* connect and user-join: SESSION_POOL[sid] = user, then the session id is *)
(* appended to the list of the user.                                       *)

Register(i, s, u) ==
  /\ sess' = [sess EXCEPT ![s] = u]
  /\ sid' = [sid EXCEPT ![i] = s]
  /\ user' = [user EXCEPT ![i] = u]
  /\ Goto(i, "has")
  /\ UNCHANGED got

Connect(i, s) ==
  /\ Idle(i) /\ Home[s] = i /\ conn[s] = "new"
  /\ conn' = [conn EXCEPT ![s] = "open"]
  /\ \/ UNCHANGED <<sess, handler>>
     \/ \E u \in User : Register(i, s, u)
  /\ UNCHANGED <<pool, editing, switched>>

UserJoin(i, s, u) ==
  /\ Idle(i) /\ Home[s] = i /\ conn[s] = "open"
  /\ Register(i, s, u)
  /\ switched' = IF sess[s] \in {NoUser, u} THEN switched ELSE switched \cup {s}
  /\ UNCHANGED <<conn, pool, editing>>

(* user.id in USER_POOL                                                    *)
HasUser(i) ==
  /\ pc[i] = "has"
  /\ \/ pool[user[i]] # Absent /\ Goto(i, "read") /\ UNCHANGED got
     \/ pool[user[i]] = Absent /\ Goto(i, "put") /\ got' = [got EXCEPT ![i] = {}]
  /\ UNCHANGED <<conn, switched, sess, pool, editing, sid, user>>

(* USER_POOL[user.id]; a KeyError ends the handler.                        *)
ReadList(i) ==
  /\ pc[i] = "read"
  /\ \/ pool[user[i]] # Absent /\ Goto(i, "put") /\ got' = [got EXCEPT ![i] = pool[user[i]]]
     \/ pool[user[i]] = Absent /\ Goto(i, "idle") /\ UNCHANGED got
  /\ UNCHANGED <<conn, switched, sess, pool, editing, sid, user>>

(* Mutant: the list is replaced by a new one.                              *)
PutListAfresh(i) ==
  /\ pc[i] = "put"
  /\ pool' = [pool EXCEPT ![user[i]] = {sid[i]}]
  /\ Goto(i, "idle")
  /\ UNCHANGED <<conn, switched, sess, editing, sid, user, got>>

PutList(i) ==
  /\ pc[i] = "put"
  /\ pool' = [pool EXCEPT ![user[i]] = got[i] \cup {sid[i]}]
  /\ Goto(i, "idle")
  /\ UNCHANGED <<conn, switched, sess, editing, sid, user, got>>

(* A session that has registered opens a document.                         *)
JoinDocument(i, s) ==
  /\ Idle(i) /\ Home[s] = i /\ conn[s] = "open" /\ sess[s] # NoUser
  /\ editing' = editing \cup {s}
  /\ UNCHANGED <<conn, switched, sess, pool, handler>>

-----------------------------------------------------------------------------
(* disconnect                                                              *)

(* The entry of the session is looked up, read and deleted: three commands *)
(* on a key that no other instance touches.                                *)
Disconnect(i, s) ==
  /\ Idle(i) /\ Home[s] = i /\ conn[s] = "open"
  /\ conn' = [conn EXCEPT ![s] = "closed"]
  /\ \/ /\ sess[s] = NoUser
        /\ UNCHANGED <<sess, handler>>
     \/ /\ sess[s] # NoUser
        /\ sess' = [sess EXCEPT ![s] = NoUser]
        /\ sid' = [sid EXCEPT ![i] = s]
        /\ user' = [user EXCEPT ![i] = sess[s]]
        /\ Goto(i, "take")
        /\ UNCHANGED got
  /\ UNCHANGED <<pool, editing, switched>>

(* Mutant: the list is written back as it was read.                        *)
TakeOutNothing(i) ==
  /\ pc[i] = "take"
  /\ \/ /\ pool[user[i]] # Absent
        /\ got' = [got EXCEPT ![i] = pool[user[i]]]
        /\ Goto(i, "store")
     \/ /\ pool[user[i]] = Absent
        /\ Goto(i, "idle")
        /\ UNCHANGED got
  /\ UNCHANGED <<conn, switched, sess, pool, editing, sid, user>>

(* [_sid for _sid in USER_POOL[user_id] if _sid != sid]                    *)
TakeOut(i) ==
  /\ pc[i] = "take"
  /\ \/ /\ pool[user[i]] # Absent
        /\ got' = [got EXCEPT ![i] = pool[user[i]] \ {sid[i]}]
        /\ Goto(i, "store")
     \/ /\ pool[user[i]] = Absent
        /\ Goto(i, "idle")
        /\ UNCHANGED got
  /\ UNCHANGED <<conn, switched, sess, pool, editing, sid, user>>

StoreList(i) ==
  /\ pc[i] = "store"
  /\ pool' = [pool EXCEPT ![user[i]] = got[i]]
  /\ Goto(i, "check")
  /\ UNCHANGED <<conn, switched, sess, editing, sid, user, got>>

(* Mutant: a user who has another session stays in the documents.          *)
CheckEmptyThenReturn(i) ==
  /\ pc[i] = "check"
  /\ \/ pool[user[i]] = {} /\ Goto(i, "delete")
     \/ pool[user[i]] # {} /\ Goto(i, "idle")
  /\ UNCHANGED <<conn, switched, sess, pool, editing, sid, user, got>>

(* len(USER_POOL[user_id]) == 0                                            *)
CheckEmpty(i) ==
  /\ pc[i] = "check"
  /\ \/ pool[user[i]] = {} /\ Goto(i, "delete")
     \/ pool[user[i]] = Absent /\ Goto(i, "idle")
     \/ pool[user[i]] \notin {{}, Absent} /\ Goto(i, "documents")
  /\ UNCHANGED <<conn, switched, sess, pool, editing, sid, user, got>>

DeleteUser(i) ==
  /\ pc[i] = "delete"
  /\ pool' = [pool EXCEPT ![user[i]] = Absent]
  /\ \/ pool[user[i]] # Absent /\ Goto(i, "documents")
     \/ pool[user[i]] = Absent /\ Goto(i, "idle")
  /\ UNCHANGED <<conn, switched, sess, editing, sid, user, got>>

(* YDOC_MANAGER.remove_user_from_all_documents(sid)                        *)
LeaveDocuments(i) ==
  /\ pc[i] = "documents"
  /\ editing' = editing \ {sid[i]}
  /\ Goto(i, "idle")
  /\ UNCHANGED <<conn, switched, sess, pool, sid, user, got>>

-----------------------------------------------------------------------------
(* An instance dies with its connections; what is in Redis stays.          *)
Crash(i) ==
  /\ Crashes
  /\ conn' = [s \in Sid |-> IF Home[s] = i /\ conn[s] = "open" THEN "closed" ELSE conn[s]]
  /\ Goto(i, "idle")
  /\ \/ Shared /\ UNCHANGED <<sess, pool, editing>>
     \/ /\ ~Shared
        /\ sess' = [s \in Sid |-> NoUser]
        /\ pool' = [u \in User |-> Absent]
        /\ editing' = {}
  /\ UNCHANGED <<switched, sid, user, got>>

Handler(i) ==
  \/ \E s \in Sid : Connect(i, s) \/ JoinDocument(i, s) \/ Disconnect(i, s)
  \/ \E s \in Sid, u \in User : UserJoin(i, s, u)

Command(i) ==
  \/ HasUser(i) \/ ReadList(i) \/ PutList(i)
  \/ TakeOut(i) \/ StoreList(i) \/ CheckEmpty(i) \/ DeleteUser(i) \/ LeaveDocuments(i)

Next == \E i \in Instance : Handler(i) \/ Command(i) \/ Crash(i)

Spec == Init /\ [][Next]_vars

-----------------------------------------------------------------------------
(* Properties.  They speak of moments when no handler is half-way: those   *)
(* at which a request reads the pools on an instance of its own.           *)

Quiet == \A i \in Instance : Idle(i)

(* An open session that has registered is in the list of its user: events  *)
(* sent to the user reach it, and the user counts as active.               *)
SessionListed ==
  Quiet => \A s \in Sid :
    conn[s] = "open" /\ sess[s] # NoUser =>
      pool[sess[s]] # Absent /\ s \in pool[sess[s]]

(* A session that has gone has left SESSION_POOL and every document it was *)
(* editing, so that the last one to leave can clean the document up.  In   *)
(* particular no KeyError cuts the disconnect handler short.               *)
ClosedLeaves ==
  \A s \in Sid : Idle(Home[s]) /\ conn[s] = "closed" => sess[s] = NoUser /\ s \notin editing

(* "Check if a user is currently active" is a look-up of the key, so an    *)
(* empty list must not stay behind.                                        *)
NoEmptyList == Quiet => \A u \in User : pool[u] # {}

(* "Get the list of active user IDs": a listed user has an open session,   *)
(* or had one that has changed to another user.                            *)
ActiveUsersSound ==
  Quiet => \A u \in User : pool[u] # Absent =>
    \E s \in pool[u] : (conn[s] = "open" /\ sess[s] = u) \/ s \in switched

=============================================================================
