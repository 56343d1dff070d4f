----------------------------- MODULE PoolProofs -----------------------------
(***************************************************************************)
(* Proofs about the pools of socket/main.py.                               *)
(*                                                                         *)
(* About SessionPool with one instance, for any number of sessions and     *)
(* users.  With several instances the properties fail (see the runs), so   *)
(* the hypothesis is needed.                                               *)
(*                                                                         *)
(* About UsagePool, for any number of processes, sessions, models and      *)
(* reports, with crashes and restarts, and with processes that stall.      *)
(***************************************************************************)
EXTENDS SessionPool, UsagePool, TLAPS

USE ServerAssumption, SessionAssumption

-----------------------------------------------------------------------------
(* Sessions and users.                                                     *)

(* Why one instance keeps its promises: what its handler has read is still *)
(* so when it writes, and the session it is registering is the only open   *)
(* one that a list may miss.                                               *)
Registering(i) == pc[i] \in {"has", "read", "put"}
Leaving(i) == pc[i] \in {"take", "store", "check", "delete", "documents"}
InList(s) == pool[sess[s]] # Absent /\ s \in pool[sess[s]]

HandlerOK(i) ==
  /\ Registering(i) => conn[sid[i]] = "open" /\ sess[sid[i]] = user[i]
  /\ Leaving(i) => conn[sid[i]] = "closed"
  /\ pc[i] \in {"read", "take", "store", "check"} => pool[user[i]] # Absent
  /\ pc[i] = "put" => got[i] = IF pool[user[i]] = Absent THEN {} ELSE pool[user[i]]
  /\ pc[i] = "store" => got[i] = pool[user[i]] \ {sid[i]}
  /\ pc[i] = "delete" => pool[user[i]] = {}

ListedOrRegistering(i) ==
  \A s \in Sid :
    /\ conn[s] = "new" => sess[s] = NoUser
    /\ conn[s] = "open" /\ sess[s] # NoUser =>
         InList(s) \/ (Registering(i) /\ sid[i] = s)

OneInstanceInv == TypeOK /\ \A i \in Instance : HandlerOK(i) /\ ListedOrRegistering(i)

(* What no crash that leaves Redis behind may disturb.                     *)
GoneOrLeaving(i) ==
  /\ \A s \in Sid : conn[s] # "open" => sess[s] = NoUser
  /\ \A s \in editing :
       \/ conn[s] = "open" /\ sess[s] # NoUser
       \/ Leaving(i) /\ sid[i] = s
  /\ \A u \in User : pool[u] = {} => pc[i] \in {"check", "delete"} /\ user[i] = u

CleanInv == OneInstanceInv /\ \A i \in Instance : GoneOrLeaving(i)

(* A list has sessions of its user only, but for those that have changed   *)
(* user and the one that is being taken out.                               *)
OwnSessions(i) ==
  \A u \in User : pool[u] # Absent => \A s \in pool[u] :
    \/ conn[s] = "open" /\ sess[s] = u
    \/ s \in switched
    \/ pc[i] \in {"take", "store"} /\ sid[i] = s /\ user[i] = u

OwnInv == CleanInv /\ \A i \in Instance : OwnSessions(i)

OneInstance == \E i : Instance = {i}

(* Without Redis, a crash takes the pools with it, and the document        *)
(* manager does not suspend the handlers that call it.                     *)
InMemory == ~Shared

LEMMA InitOne == Init => OneInstanceInv
<1> SUFFICES ASSUME Init PROVE OneInstanceInv
  OBVIOUS
<1>1. TypeOK
  BY DEF Init, TypeOK
<1>2. QED
  BY <1>1 DEF Init, OneInstanceInv, HandlerOK, ListedOrRegistering, Registering, Leaving

LEMMA NextOne ==
  ASSUME OneInstance
  PROVE  OneInstanceInv /\ [Next]_vars => OneInstanceInv'
<1> SUFFICES ASSUME OneInstanceInv, [Next]_vars PROVE OneInstanceInv'
  OBVIOUS
<1> PICK i : Instance = {i}
  BY DEF OneInstance
<1>0. TypeOK /\ HandlerOK(i) /\ ListedOrRegistering(i)
  BY DEF OneInstanceInv
<1> SUFFICES TypeOK' /\ HandlerOK(i)' /\ ListedOrRegistering(i)'
  BY DEF OneInstanceInv
<1> USE DEF Idle, Goto, Registering, Leaving, InList, handler
<1>1. ASSUME NEW s \in Sid, Connect(i, s)
      PROVE  TypeOK' /\ HandlerOK(i)' /\ ListedOrRegistering(i)'
  <2>1. CASE \E u \in User : Register(i, s, u)
    <3> PICK u \in User : Register(i, s, u)
      BY <2>1
    <3>1. TypeOK'
      BY <1>0, <1>1 DEF TypeOK, Connect, Register
    <3>2. HandlerOK(i)'
      <4>1. conn'[s] = "open" /\ sess'[s] = u /\ sid'[i] = s /\ user'[i] = u /\ pc'[i] = "has"
        BY <1>0, <1>1 DEF TypeOK, Connect, Register
      <4>2. pc'[i] \notin {"read", "put", "take", "store", "check", "delete", "documents"}
        BY <4>1
      <4>3. QED  BY <4>1, <4>2 DEF HandlerOK
    <3>3. ListedOrRegistering(i)'
      BY <1>0, <1>1 DEF TypeOK, ListedOrRegistering, Connect, Register
    <3>4. QED  BY <3>1, <3>2, <3>3
  <2>2. CASE UNCHANGED <<sess, handler>>
    BY <1>0, <1>1, <2>2 DEF TypeOK, HandlerOK, ListedOrRegistering, Connect
  <2>3. QED  BY <1>1, <2>1, <2>2 DEF Connect
<1>2. ASSUME NEW s \in Sid, NEW u \in User, UserJoin(i, s, u)
      PROVE  TypeOK' /\ HandlerOK(i)' /\ ListedOrRegistering(i)'
  <2>1. TypeOK'
    BY <1>0, <1>2 DEF TypeOK, UserJoin, Register
  <2>2. HandlerOK(i)' /\ ListedOrRegistering(i)'
    BY <1>0, <1>2 DEF TypeOK, HandlerOK, ListedOrRegistering, UserJoin, Register
  <2>3. QED  BY <2>1, <2>2
<1>3. CASE HasUser(i)
  BY <1>0, <1>3 DEF TypeOK, HandlerOK, ListedOrRegistering, HasUser
<1>4. CASE ReadList(i)
  BY <1>0, <1>4 DEF TypeOK, HandlerOK, ListedOrRegistering, ReadList
<1>5. CASE PutList(i)
  BY <1>0, <1>5 DEF TypeOK, HandlerOK, ListedOrRegistering, PutList
<1>6. ASSUME NEW s \in Sid, JoinDocument(i, s)
      PROVE  TypeOK' /\ HandlerOK(i)' /\ ListedOrRegistering(i)'
  BY <1>0, <1>6 DEF TypeOK, HandlerOK, ListedOrRegistering, JoinDocument
<1>7. ASSUME NEW s \in Sid, Disconnect(i, s)
      PROVE  TypeOK' /\ HandlerOK(i)' /\ ListedOrRegistering(i)'
  BY <1>0, <1>7 DEF TypeOK, HandlerOK, ListedOrRegistering, Disconnect
<1>8. CASE TakeOut(i)
  BY <1>0, <1>8 DEF TypeOK, HandlerOK, ListedOrRegistering, TakeOut
<1>9. CASE StoreList(i)
  BY <1>0, <1>9 DEF TypeOK, HandlerOK, ListedOrRegistering, StoreList
<1>10. CASE CheckEmpty(i)
  BY <1>0, <1>10 DEF TypeOK, HandlerOK, ListedOrRegistering, CheckEmpty
<1>11. CASE DeleteUser(i)
  BY <1>0, <1>11 DEF TypeOK, HandlerOK, ListedOrRegistering, DeleteUser
<1>12. CASE LeaveDocuments(i)
  BY <1>0, <1>12 DEF TypeOK, HandlerOK, ListedOrRegistering, LeaveDocuments
<1>13. CASE Crash(i)
  BY <1>0, <1>13 DEF TypeOK, HandlerOK, ListedOrRegistering, Crash
<1>14. CASE UNCHANGED vars
  BY <1>0, <1>14 DEF TypeOK, HandlerOK, ListedOrRegistering, vars
<1>15. QED
  BY <1>1, <1>2, <1>3, <1>4, <1>5, <1>6, <1>7, <1>8, <1>9, <1>10, <1>11, <1>12, <1>13, <1>14
     DEF Next, Handler, Command

(* On one instance every open session is found under its user, whatever    *)
(* crashes and changes of user there are.                                  *)
THEOREM OpenSessionsListed ==
  ASSUME OneInstance
  PROVE  Spec => []SessionListed
<1>1. Init => OneInstanceInv
  BY InitOne
<1>2. OneInstanceInv /\ [Next]_vars => OneInstanceInv'
  BY NextOne
<1>3. OneInstanceInv => SessionListed
  BY DEF OneInstance, OneInstanceInv, ListedOrRegistering, InList, Registering, SessionListed,
     Quiet, Idle
<1>4. QED  BY <1>1, <1>2, <1>3, PTL DEF Spec

-----------------------------------------------------------------------------
LEMMA InitClean == Init => CleanInv
BY InitOne DEF Init, CleanInv, GoneOrLeaving

LEMMA NextClean ==
  ASSUME OneInstance, InMemory
  PROVE  CleanInv /\ [Next]_vars => CleanInv'
<1> SUFFICES ASSUME CleanInv, [Next]_vars PROVE CleanInv'
  OBVIOUS
<1> PICK i : Instance = {i}
  BY DEF OneInstance
<1>0. TypeOK /\ HandlerOK(i) /\ ListedOrRegistering(i) /\ GoneOrLeaving(i)
  BY DEF CleanInv, OneInstanceInv
<1> SUFFICES GoneOrLeaving(i)'
  BY NextOne DEF CleanInv
<1> USE DEF Idle, Goto, Registering, Leaving, handler, TypeOK, HandlerOK, GoneOrLeaving
<1>1. ASSUME NEW s \in Sid, Connect(i, s) PROVE GoneOrLeaving(i)'
  BY <1>0, <1>1 DEF Connect, Register
<1>2. ASSUME NEW s \in Sid, NEW u \in User, UserJoin(i, s, u) PROVE GoneOrLeaving(i)'
  BY <1>0, <1>2 DEF UserJoin, Register
<1>3. CASE HasUser(i)
  BY <1>0, <1>3 DEF HasUser
<1>4. CASE ReadList(i)
  BY <1>0, <1>4 DEF ReadList
<1>5. CASE PutList(i)
  BY <1>0, <1>5 DEF PutList
<1>6. ASSUME NEW s \in Sid, JoinDocument(i, s) PROVE GoneOrLeaving(i)'
  BY <1>0, <1>6 DEF JoinDocument
<1>7. ASSUME NEW s \in Sid, Disconnect(i, s) PROVE GoneOrLeaving(i)'
  BY <1>0, <1>7 DEF Disconnect
<1>8. CASE TakeOut(i)
  BY <1>0, <1>8 DEF TakeOut
<1>9. CASE StoreList(i)
  BY <1>0, <1>9 DEF StoreList
<1>10. CASE CheckEmpty(i)
  BY <1>0, <1>10 DEF CheckEmpty
<1>11. CASE DeleteUser(i)
  BY <1>0, <1>11 DEF DeleteUser
<1>12. CASE LeaveDocuments(i)
  BY <1>0, <1>12 DEF LeaveDocuments
<1>13. CASE Crash(i)
  BY <1>0, <1>13 DEF Crash, InMemory
<1>14. CASE UNCHANGED vars
  BY <1>0, <1>14 DEF vars
<1>15. QED
  BY <1>1, <1>2, <1>3, <1>4, <1>5, <1>6, <1>7, <1>8, <1>9, <1>10, <1>11, <1>12, <1>13, <1>14
     DEF Next, Handler, Command

(* On one instance a disconnect removes the session from SESSION_POOL and  *)
(* from every document, and leaves no empty list that counts as active.    *)
THEOREM DisconnectLeavesNothing ==
  ASSUME OneInstance, InMemory
  PROVE  Spec => [](ClosedLeaves /\ NoEmptyList)
<1>1. Init => CleanInv
  BY InitClean
<1>2. CleanInv /\ [Next]_vars => CleanInv'
  BY NextClean
<1>3. CleanInv => ClosedLeaves /\ NoEmptyList
  BY DEF OneInstance, CleanInv, GoneOrLeaving, Leaving, ClosedLeaves, NoEmptyList, Quiet, Idle
<1>4. QED  BY <1>1, <1>2, <1>3, PTL DEF Spec

-----------------------------------------------------------------------------
LEMMA InitOwn == Init => OwnInv
BY InitClean DEF Init, OwnInv, OwnSessions

LEMMA NextOwn ==
  ASSUME OneInstance, InMemory
  PROVE  OwnInv /\ [Next]_vars => OwnInv'
<1> SUFFICES ASSUME OwnInv, [Next]_vars PROVE OwnInv'
  OBVIOUS
<1> PICK i : Instance = {i}
  BY DEF OneInstance
<1>0. TypeOK /\ HandlerOK(i) /\ ListedOrRegistering(i) /\ GoneOrLeaving(i) /\ OwnSessions(i)
  BY DEF OwnInv, CleanInv, OneInstanceInv
<1> SUFFICES OwnSessions(i)'
  BY NextClean DEF OwnInv
<1> USE DEF Idle, Goto, Registering, Leaving, handler, TypeOK, HandlerOK, OwnSessions
<1>1. ASSUME NEW s \in Sid, Connect(i, s) PROVE OwnSessions(i)'
  BY <1>0, <1>1 DEF Connect, Register
<1>2. ASSUME NEW s \in Sid, NEW u \in User, UserJoin(i, s, u) PROVE OwnSessions(i)'
  BY <1>0, <1>2 DEF UserJoin, Register
<1>3. CASE HasUser(i)
  BY <1>0, <1>3 DEF HasUser
<1>4. CASE ReadList(i)
  BY <1>0, <1>4 DEF ReadList
<1>5. CASE PutList(i)
  BY <1>0, <1>5 DEF PutList
<1>6. ASSUME NEW s \in Sid, JoinDocument(i, s) PROVE OwnSessions(i)'
  BY <1>0, <1>6 DEF JoinDocument
<1>7. ASSUME NEW s \in Sid, Disconnect(i, s) PROVE OwnSessions(i)'
  BY <1>0, <1>7 DEF Disconnect
<1>8. CASE TakeOut(i)
  BY <1>0, <1>8 DEF TakeOut
<1>9. CASE StoreList(i)
  BY <1>0, <1>9 DEF StoreList
<1>10. CASE CheckEmpty(i)
  BY <1>0, <1>10 DEF CheckEmpty
<1>11. CASE DeleteUser(i)
  BY <1>0, <1>11 DEF DeleteUser
<1>12. CASE LeaveDocuments(i)
  BY <1>0, <1>12 DEF LeaveDocuments
<1>13. CASE Crash(i)
  BY <1>0, <1>13 DEF Crash, InMemory
<1>14. CASE UNCHANGED vars
  BY <1>0, <1>14 DEF vars
<1>15. QED
  BY <1>1, <1>2, <1>3, <1>4, <1>5, <1>6, <1>7, <1>8, <1>9, <1>10, <1>11, <1>12, <1>13, <1>14
     DEF Next, Handler, Command

(* On one instance whoever is listed as active has an open session, or had *)
(* one that has changed to another user.                                   *)
THEOREM ActiveUsersHere ==
  ASSUME OneInstance, InMemory
  PROVE  Spec => []ActiveUsersSound
<1>1. Init => OwnInv
  BY InitOwn
<1>2. OwnInv /\ [Next]_vars => OwnInv'
  BY NextOwn
<1>3. OwnInv => ActiveUsersSound
  <2> SUFFICES ASSUME OwnInv, Quiet, NEW u \in User, pool[u] # Absent
               PROVE  \E s \in pool[u] : (conn[s] = "open" /\ sess[s] = u) \/ s \in switched
    BY DEF ActiveUsersSound
  <2>1. PICK i : Instance = {i}
    BY DEF OneInstance
  <2>2. pc[i] = "idle" /\ OwnSessions(i) /\ GoneOrLeaving(i) /\ TypeOK
    BY <2>1 DEF OwnInv, CleanInv, OneInstanceInv, Quiet, Idle
  <2>3. pool[u] # {} /\ pool[u] \subseteq Sid
    BY <2>2 DEF GoneOrLeaving, TypeOK
  <2>4. QED  BY <2>2, <2>3 DEF OwnSessions
<1>4. QED  BY <1>1, <1>2, <1>3, PTL DEF Spec

-----------------------------------------------------------------------------
(* Models in use.                                                          *)

HIDE SessionAssumption
USE UsageAssumption

(* Why: whoever cleans up, or is about to give up the lock, has it, and    *)
(* renews it before it expires, unless he is late.                         *)
LockHeld ==
  InRedis /\ ~late => \A i \in Instance :
    Cleaning(i) \/ step[i] \in {"release", "delete"} =>
      /\ lock = i /\ ttl > 0
      /\ step[i] = "sleep" => wait[i] < ttl
      /\ step[i] \in {"scan", "models"} => ttl = LockTTL

(* A process with a pool of its own that keeps up never gives up; while it *)
(* sleeps, the entries may get as old as the time that has passed permits; *)
(* while it writes, an entry is what was read of it, or has been written.  *)
SoFar(i) == IF step[i] = "sleep" THEN wait[i] ELSE 0
Kept(a) == IF a > Timeout THEN Gone ELSE a
EntriesOK(i) ==
  \A m \in Model, s \in Sid :
    /\ pinged[m][s] <= Timeout => usage[m][s] = pinged[m][s]
    /\ usage[m][s] # Gone => usage[m][s] + SoFar(i) <= 2 * Timeout
    /\ step[i] = "models" => IF m \in todo[i]
                           THEN snap[i][m][s] = Kept(usage[m][s])
                           ELSE usage[m][s] # Gone => usage[m][s] <= Timeout
CleanerOK(i) ==
  /\ step[i] \in {"try", "renew", "scan", "models", "sleep", "down"}
  /\ step[i] = "sleep" => wait[i] <= Timeout
  /\ step[i] = "models" => \A m \in todo[i] : InUse(m)
  /\ step[i] = "down" => usage = Nothing
  /\ \A p \in ping[i] : ~InBody(i) /\ step[i] # "down" /\ seen[i] = usage[p[2]]
OwnPool == ~InRedis /\ ~late => \A i \in Instance : CleanerOK(i) /\ EntriesOK(i)

LEMMA GoneNat == Gone \in Nat /\ Cap \in Nat /\ 0 \in Age /\ Gone \in Age
BY DEF Gone, Cap, Age

LEMMA NothingType == Nothing \in [Model -> Entries]
BY GoneNat DEF Nothing, Entries

LEMMA LessType == \A n \in Nat : \A k \in 0..n : Less(k) \in 0..n
BY DEF Less

LEMMA OlderType == \A a \in Age : Older(a) \in Age
BY DEF Older, Age, Gone, Cap

LEMMA AgedType == \A e \in [Model -> Entries] : Aged(e) \in [Model -> Entries]
BY OlderType DEF Aged, Entries

LEMMA DelayType == RetryDelays \subseteq 0..LockTTL
BY DEF RetryDelays

LEMMA InitTypeOK == UsageInit => UsageTypeOK
<1> SUFFICES ASSUME UsageInit PROVE UsageTypeOK
  OBVIOUS
<1> USE DEF UsageInit
<1>1. usage \in [Model -> Entries] /\ pinged \in [Model -> Entries]
  BY NothingType
<1>2. snap \in [Instance -> [Model -> Entries]]
  BY NothingType
<1>3. seen \in [Instance -> Entries]
  BY GoneNat DEF Entries
<1>4. delay \in [Instance -> 0..LockTTL]
  BY DelayType
<1>5. /\ step \in [Instance -> {"try", "down"}]
      /\ attempt \in [Instance -> 0..MaxRetries] /\ wait \in [Instance -> 0..LockTTL]
  BY DEF MaxRetries
<1>6. todo \in [Instance -> SUBSET Model] /\ ping \in [Instance -> SUBSET (Sid \X Model)]
  OBVIOUS
<1>7. store \in Stores /\ lock \in Instance \cup {Free, Dead} /\ late \in BOOLEAN
  OBVIOUS
<1>8. ttl \in 0..LockTTL /\ pings \in 0..MaxPing /\ crashes \in 0..MaxCrash
  OBVIOUS
<1>9. QED  BY <1>1, <1>2, <1>3, <1>4, <1>5, <1>6, <1>7, <1>8 DEF UsageTypeOK

LEMMA NextTypeOK == UsageTypeOK /\ [UsageNext]_usageVars => UsageTypeOK'
<1> SUFFICES ASSUME UsageTypeOK, [UsageNext]_usageVars PROVE UsageTypeOK'
  OBVIOUS
<1> USE DEF UsageTypeOK, cleaner, reporter, lockVars, running, StepTo
<1>0. ASSUME UsageNext PROVE store' = store
  BY <1>0 DEF UsageNext
<1>1. ASSUME NEW i \in Instance, TryLock(i), store' = store PROVE UsageTypeOK'
  <2>1. lock' \in Instance \cup {Free, Dead} /\ ttl' \in 0..LockTTL
    BY <1>1 DEF TryLock, AquireLock
  <2>2. /\ \E p \in {"renew", "retry", "skipped"} : step' = [step EXCEPT ![i] = p]
        /\ UNCHANGED <<usage, pinged, delay, snap, todo, reporter, pings, crashes>>
    BY <1>1 DEF TryLock
  <2>3. attempt' \in [Instance -> 0..MaxRetries]
    <3>1. CASE UNCHANGED attempt
      BY <3>1
    <3>2. CASE attempt[i] < MaxRetries /\ attempt' = [attempt EXCEPT ![i] = @ + 1]
      BY <3>2 DEF MaxRetries
    <3>3. QED  BY <1>1, <3>1, <3>2 DEF TryLock
  <2>4. wait' \in [Instance -> 0..LockTTL]
    BY <1>1 DEF TryLock
  <2>5. QED  BY <1>1, <2>1, <2>2, <2>3, <2>4
<1>2. ASSUME NEW i \in Instance, Renew(i), store' = store PROVE UsageTypeOK'
  <2>1. lock' \in Instance \cup {Free, Dead} /\ ttl' \in 0..LockTTL
    BY <1>2 DEF Renew, RenewLock
  <2>2. QED  BY <1>2, <2>1 DEF Renew
<1>3. ASSUME NEW i \in Instance, Scan(i), store' = store PROVE UsageTypeOK'
  <2>1. [m \in Model |-> [s \in Sid |-> IF usage[m][s] > Timeout THEN Gone ELSE usage[m][s]]]
          \in [Model -> Entries]
    BY GoneNat DEF Entries
  <2>2. snap' \in [Instance -> [Model -> Entries]]
    BY <1>3, <2>1 DEF Scan
  <2>3. QED  BY <1>3, <2>2 DEF Scan
<1>4. ASSUME NEW i \in Instance, NEW m \in Model, WriteModel(i, m), store' = store PROVE UsageTypeOK'
  <2>1. usage' \in [Model -> Entries]
    BY <1>4 DEF WriteModel
  <2>2. step' = step \/ step' = [step EXCEPT ![i] = "release"]
    BY <1>4 DEF WriteModel
  <2>3. todo' \in [Instance -> SUBSET Model]
    <3>1. todo' = todo \/ todo' = [todo EXCEPT ![i] = todo[i] \ {m}]
      BY <1>4 DEF WriteModel
    <3>2. todo[i] \ {m} \in SUBSET Model
      OBVIOUS
    <3>3. QED  BY <3>1, <3>2
  <2>4. QED  BY <1>4, <2>1, <2>2, <2>3 DEF WriteModel
<1>5. ASSUME NEW i \in Instance, Sleep(i), store' = store PROVE UsageTypeOK'
  BY <1>5 DEF Sleep
<1>6. ASSUME NEW i \in Instance, ReleaseLock(i), store' = store PROVE UsageTypeOK'
  BY <1>6 DEF ReleaseLock
<1>7. ASSUME NEW i \in Instance, DeleteLock(i), store' = store PROVE UsageTypeOK'
  BY <1>7 DEF DeleteLock
<1>8. ASSUME NEW i \in Instance, NEW s \in Sid, NEW m \in Model, UsageRead(i, s, m),
             store' = store
      PROVE  UsageTypeOK'
  <2>1. pings + 1 \in 0..MaxPing
    BY <1>8 DEF UsageRead
  <2>2. {<<s, m>>} \in SUBSET (Sid \X Model) /\ usage[m] \in Entries
    OBVIOUS
  <2>3. QED  BY <1>8, <2>1, <2>2 DEF UsageRead
<1>9. ASSUME NEW i \in Instance, NEW s \in Sid, NEW m \in Model, UsageWrite(i, s, m),
             store' = store
      PROVE  UsageTypeOK'
  <2>1. usage' \in [Model -> Entries]
    <3>1. [seen[i] EXCEPT ![s] = 0] \in Entries
      BY GoneNat DEF Entries
    <3>2. QED  BY <1>9, <3>1 DEF UsageWrite
  <2>2. pinged' \in [Model -> Entries]
    <3>1. [pinged[m] EXCEPT ![s] = 0] \in Entries
      BY GoneNat DEF Entries
    <3>2. pinged' = [pinged EXCEPT ![m] = [pinged[m] EXCEPT ![s] = 0]]
      BY <1>9 DEF UsageWrite
    <3>3. QED  BY <3>1, <3>2
  <2>3. QED  BY <1>9, <2>1, <2>2 DEF UsageWrite
<1>10. ASSUME Tick, store' = store PROVE UsageTypeOK'
  <2>1. late' \in BOOLEAN
    BY <1>10 DEF Tick
  <2>2. usage' \in [Model -> Entries] /\ pinged' \in [Model -> Entries]
    BY <1>10, AgedType DEF Tick
  <2>3. snap' \in [Instance -> [Model -> Entries]]
    BY <1>10, AgedType DEF Tick
  <2>4. seen' \in [Instance -> Entries]
    BY <1>10, OlderType DEF Tick, Entries
  <2>5. ttl' \in 0..LockTTL /\ wait' \in [Instance -> 0..LockTTL]
    BY <1>10, LessType DEF Tick
  <2>6. lock' \in Instance \cup {Free, Dead}
    BY <1>10 DEF Tick
  <2>7. QED  BY <1>10, <2>1, <2>2, <2>3, <2>4, <2>5, <2>6 DEF Tick
<1>11. ASSUME NEW i \in Instance, Die(i), store' = store PROVE UsageTypeOK'
  <2>1. crashes + 1 \in 0..MaxCrash
    BY <1>11 DEF Die
  <2>2. usage' \in [Model -> Entries] /\ pinged' \in [Model -> Entries]
    BY <1>11, NothingType DEF Die
  <2>3. lock' \in Instance \cup {Free, Dead}
    BY <1>11 DEF Die
  <2>4. QED  BY <1>11, <2>1, <2>2, <2>3 DEF Die
<1>12. ASSUME NEW i \in Instance, Restart(i), store' = store PROVE UsageTypeOK'
  BY <1>12, DelayType DEF Restart, MaxRetries
<1>13. CASE UNCHANGED usageVars
  BY <1>13 DEF usageVars
<1>14. QED
  BY <1>0, <1>1, <1>2, <1>3, <1>4, <1>5, <1>6, <1>7, <1>8, <1>9, <1>10, <1>11, <1>12, <1>13
     DEF UsageNext, Cleanup, Report

THEOREM TypeCorrect == UsageSpec => []UsageTypeOK
BY InitTypeOK, NextTypeOK, PTL DEF UsageSpec
-----------------------------------------------------------------------------
(* The lock.                                                               *)

LEMMA NextLockHeld == UsageTypeOK /\ LockHeld /\ [UsageNext]_usageVars => LockHeld'
<1> SUFFICES ASSUME UsageTypeOK, LockHeld, [UsageNext]_usageVars, InRedis', ~late',
                    NEW k \in Instance,
                    (Cleaning(k) \/ step[k] \in {"release", "delete"})'
             PROVE  /\ lock' = k /\ ttl' > 0
                    /\ step'[k] = "sleep" => wait'[k] < ttl'
                    /\ step'[k] \in {"scan", "models"} => ttl' = LockTTL
  BY DEF LockHeld, Cleaning
<1> DEFINE Owner(j) == Cleaning(j) \/ step[j] \in {"release", "delete"}
           Goal == /\ lock' = k /\ ttl' > 0
                   /\ step'[k] = "sleep" => wait'[k] < ttl'
                   /\ step'[k] \in {"scan", "models"} => ttl' = LockTTL
<1> USE DEF UsageTypeOK, cleaner, reporter, lockVars, running, StepTo, Cleaning
<1>0. store' = store /\ InRedis
  BY DEF UsageNext, usageVars, InRedis
<1>a. ASSUME ~late, NEW j \in Instance, Owner(j)
      PROVE  /\ lock = j /\ ttl > 0
             /\ step[j] = "sleep" => wait[j] < ttl
             /\ step[j] \in {"scan", "models"} => ttl = LockTTL
  BY <1>0, <1>a DEF LockHeld
<1>b. ASSUME UNCHANGED <<lock, ttl, late>>, step'[k] = step[k], wait'[k] = wait[k]  PROVE Goal
  BY <1>a, <1>b
<1> HIDE DEF Goal
<1>1. ASSUME NEW i \in Instance, TryLock(i) PROVE Goal
  <2>1. UNCHANGED late /\ step[i] \in {"try", "retry"}
    BY <1>1 DEF TryLock
  <2>2. CASE k = i
    <3>1. AquireLock(i, TRUE) /\ step' = [step EXCEPT ![i] = "renew"]
      BY <1>1, <2>2 DEF TryLock
    <3>2. QED  BY <1>0, <2>2, <3>1 DEF AquireLock, Goal
  <2>3. CASE k # i
    <3>1. step'[k] = step[k] /\ wait'[k] = wait[k]
      BY <1>1, <2>3 DEF TryLock
    <3>2. lock # Free
      BY <1>a, <2>1, <3>1
    <3>3. UNCHANGED <<lock, ttl>>
      BY <1>0, <1>1, <3>2 DEF TryLock, AquireLock
    <3>4. QED  BY <1>b, <2>1, <3>1, <3>3
  <2>4. QED  BY <2>2, <2>3
<1>2. ASSUME NEW i \in Instance, Renew(i) PROVE Goal
  <2>1. UNCHANGED <<late, wait>> /\ Owner(i)
    BY <1>2 DEF Renew
  <2>2. lock = i /\ lock # Free
    BY <1>a, <2>1
  <2>3. /\ step' = [step EXCEPT ![i] = "scan"]
        /\ lock' = i /\ ttl' = LockTTL
    BY <1>0, <1>2, <2>2 DEF Renew, RenewLock
  <2>4. k = i
    BY <1>a, <2>1, <2>2, <2>3
  <2>5. QED  BY <2>3, <2>4 DEF Goal
<1>3. ASSUME NEW i \in Instance, Scan(i) PROVE Goal
  BY <1>3, <1>a DEF Scan, Goal
<1>4. ASSUME NEW i \in Instance, NEW m \in Model, WriteModel(i, m) PROVE Goal
  <2>1. step[i] = "models" /\ UNCHANGED <<lockVars, wait, late>>
    BY <1>4 DEF WriteModel
  <2>2. step' = step \/ step' = [step EXCEPT ![i] = "release"]
    BY <1>4 DEF WriteModel
  <2>3. QED  BY <2>1, <2>2, <1>a DEF Goal
<1>5. ASSUME NEW i \in Instance, Sleep(i) PROVE Goal
  <2>1. ttl = LockTTL /\ lock = i
    BY <1>5, <1>a DEF Sleep
  <2>2. UNCHANGED <<lockVars, late>>
    BY <1>5 DEF Sleep
  <2>3. k = i
    BY <1>5, <1>a, <2>1, <2>2 DEF Sleep
  <2>4. wait'[k] = Timeout /\ step'[k] = "sleep"
    BY <1>5, <2>3 DEF Sleep
  <2>5. QED  BY <2>1, <2>2, <2>3, <2>4 DEF Goal
<1>6. ASSUME NEW i \in Instance, ReleaseLock(i) PROVE Goal
  BY <1>6, <1>a DEF ReleaseLock, Goal
<1>7. ASSUME NEW i \in Instance, DeleteLock(i) PROVE Goal
  <2>1. step[i] = "delete" /\ UNCHANGED late
    BY <1>7 DEF DeleteLock
  <2>2. lock = i
    BY <2>1, <1>a
  <2>3. k # i /\ step'[k] = step[k]
    BY <1>7 DEF DeleteLock
  <2>4. QED  BY <1>a, <2>1, <2>2, <2>3
<1>8. ASSUME NEW i \in Instance, Report(i) PROVE Goal
  BY <1>8, <1>b DEF Report, UsageRead, UsageWrite
<1>9. ASSUME Tick PROVE Goal
  <2>1. ~late /\ step' = step /\ ~Due(k) /\ ~InBody(k)
    BY <1>9 DEF Tick
  <2>2. step[k] = "sleep" /\ wait[k] # 0
    BY <2>1 DEF Due, InBody
  <2>3. lock = k /\ wait[k] < ttl /\ wait[k] > 0 /\ wait[k] \in Nat /\ ttl \in Nat
    BY <1>a, <2>1, <2>2
  <2>4. wait'[k] = wait[k] - 1 /\ ttl' = ttl - 1 /\ lock' = lock
    BY <1>9, <2>3 DEF Tick, Less
  <2>5. QED  BY <2>1, <2>2, <2>3, <2>4 DEF Goal
<1>10. ASSUME NEW i \in Instance, Die(i) PROVE Goal
  <2>1. k # i /\ step'[k] = step[k] /\ UNCHANGED <<ttl, wait, late>>
    BY <1>10 DEF Die
  <2>2. lock = k
    BY <1>a, <2>1
  <2>3. lock' = lock
    BY <1>10, <2>1, <2>2 DEF Die
  <2>4. QED  BY <1>b, <2>1, <2>3
<1>11. ASSUME NEW i \in Instance, Restart(i) PROVE Goal
  BY <1>11, <1>b DEF Restart
<1>12. ASSUME UNCHANGED usageVars PROVE Goal
  BY <1>12, <1>b DEF usageVars
<1>13. ASSUME NEW i \in Instance, Cleanup(i) PROVE Goal
  BY <1>1, <1>2, <1>3, <1>4, <1>5, <1>6, <1>7, <1>13 DEF Cleanup
<1>14. ASSUME UsageNext PROVE Goal
  BY <1>8, <1>9, <1>10, <1>11, <1>13, <1>14 DEF UsageNext
<1>15. Goal
  BY <1>12, <1>14
<1>16. QED  BY <1>15 DEF Goal

(* Of any number of processes that share the pool, and that keep up, one   *)
(* cleans up, and it holds the lock all the time, its sleep included: the  *)
(* lock outlives the sleep, and the round renews it before it writes       *)
(* (periodic_usage_pool_cleanup, RedisLock).                               *)
THEOREM OneCleanerAtATime == UsageSpec => []OneCleaner
<1>1. UsageInit => LockHeld
  BY DEF UsageInit, LockHeld, Cleaning
<1>2. LockHeld => OneCleaner
  BY DEF LockHeld, OneCleaner
<1>3. QED
  BY InitTypeOK, NextTypeOK, NextLockHeld, <1>1, <1>2, PTL DEF UsageSpec

-----------------------------------------------------------------------------
(* One process with its pool in memory (without Redis, several processes   *)
(* have a pool each).                                                      *)

LEMMA InitOwnPool == UsageInit => OwnPool
<1> SUFFICES ASSUME UsageInit, NEW i \in Instance PROVE CleanerOK(i) /\ EntriesOK(i)
  BY DEF OwnPool
<1>1. CleanerOK(i)
  BY DEF UsageInit, CleanerOK
<1>2. EntriesOK(i)
  <2>1. \A m \in Model, s \in Sid : usage[m][s] = Gone /\ pinged[m][s] = Gone
    BY DEF UsageInit, Nothing
  <2>2. Gone > Timeout /\ step[i] # "models"
    BY DEF UsageInit, Gone, Cap
  <2>3. QED  BY <2>1, <2>2 DEF EntriesOK
<1>3. QED  BY <1>1, <1>2

(* What time does to an entry.                                             *)
LEMMA OlderKeeps ==
  ASSUME NEW a \in Age, NEW b \in Age, NEW w \in Nat, w > 0,
         b <= Timeout => a = b, a # Gone => a + w <= 2 * Timeout
  PROVE  /\ Older(b) <= Timeout => Older(a) = Older(b)
         /\ Older(a) # Gone => Older(a) + Less(w) <= 2 * Timeout
BY DEF Older, Less, Age, Gone, Cap

LEMMA NextOwnPool == OneInstance /\ UsageTypeOK /\ OwnPool /\ [UsageNext]_usageVars => OwnPool'
<1> SUFFICES ASSUME OneInstance, UsageTypeOK, OwnPool, [UsageNext]_usageVars, ~InRedis', ~late',
                    NEW k \in Instance
             PROVE  CleanerOK(k)' /\ EntriesOK(k)'
  BY DEF OwnPool
<1> DEFINE Goal == CleanerOK(k)' /\ EntriesOK(k)'
<1>0. ~InRedis
  BY DEF UsageNext, usageVars, InRedis
<1>a. \A i \in Instance : i = k
  BY DEF OneInstance
<1>b. ~late => CleanerOK(k) /\ EntriesOK(k)
  BY <1>0 DEF OwnPool
<1>c. /\ step \in [Instance -> {"try", "retry", "renew", "scan", "models", "sleep", "release",
                             "delete", "skipped", "failed", "down"}]
      /\ usage \in [Model -> [Sid -> Age]] /\ pinged \in [Model -> [Sid -> Age]]
      /\ snap \in [Instance -> [Model -> [Sid -> Age]]]
      /\ todo \in [Instance -> SUBSET Model] /\ wait \in [Instance -> 0..LockTTL]
      /\ ping \in [Instance -> SUBSET (Sid \X Model)] /\ seen \in [Instance -> [Sid -> Age]]
  BY DEF UsageTypeOK, Entries
<1>d. Age = 0..Gone /\ Gone = Cap + 1 /\ Cap = 2 * Timeout + 1 /\ Timeout \in Nat \ {0}
  BY DEF Age, Gone, Cap
<1>1. ASSUME TryLock(k) PROVE Goal
  <2>1. step'[k] = "renew" /\ UNCHANGED <<usage, pinged, snap, todo, reporter>> /\ ping[k] = {}
    BY <1>1, <1>0, <1>c DEF TryLock, AquireLock, StepTo, Pinging
  <2>2. UNCHANGED wait /\ (step[k] = "try" \/ step[k] = "retry") /\ ~late
    BY <1>1, <1>0, <2>1 DEF TryLock, AquireLock, reporter
  <2>3. CleanerOK(k)'
    BY <2>1, <2>2, <1>b DEF CleanerOK, reporter
  <2>4. EntriesOK(k)'
    BY <2>1, <2>2, <1>b DEF EntriesOK, SoFar
  <2>5. QED  BY <2>3, <2>4
<1>2. ASSUME Renew(k) PROVE Goal
  <2>1. step'[k] = "scan" /\ UNCHANGED <<usage, pinged, snap, todo, reporter, wait>> /\ ping[k] = {}
    BY <1>2, <1>0, <1>c DEF Renew, RenewLock, StepTo, Pinging
  <2>2. (step[k] = "renew" \/ (step[k] = "sleep" /\ wait[k] = 0)) /\ ~late
    BY <1>2, <2>1 DEF Renew, reporter
  <2>3. CleanerOK(k)'
    BY <2>1, <2>2, <1>b DEF CleanerOK, reporter
  <2>4. EntriesOK(k)'
    BY <2>1, <2>2, <1>b DEF EntriesOK, SoFar
  <2>5. QED  BY <2>3, <2>4
<1>3. ASSUME Scan(k) PROVE Goal
  <2>1. /\ step[k] = "scan" /\ step'[k] = "models" /\ ~late
        /\ UNCHANGED <<usage, pinged, ping, seen, wait>>
        /\ todo'[k] = {m \in Model : InUse(m)}
        /\ \A m \in Model, s \in Sid : snap'[k][m][s] = Kept(usage[m][s])
    BY <1>3, <1>c DEF Scan, StepTo, reporter, Kept
  <2>2. ping[k] = {}
    BY <2>1, <1>b DEF CleanerOK, InBody
  <2>3. CleanerOK(k)'
    BY <2>1, <2>2 DEF CleanerOK, InUse
  <2>4. \A m \in Model, s \in Sid : m \notin todo'[k] => usage[m][s] = Gone
    BY <2>1 DEF InUse
  <2>5. EntriesOK(k)'
    BY <2>1, <2>4, <1>b DEF EntriesOK, SoFar
  <2>6. QED  BY <2>3, <2>5
<1>4. ASSUME NEW n \in Model, WriteModel(k, n) PROVE Goal
  <2>1. /\ step[k] = "models" /\ n \in todo[k] /\ ~late
        /\ usage' = [usage EXCEPT ![n] = snap[k][n]]
        /\ UNCHANGED <<pinged, ping, seen, wait, snap>>
    BY <1>4 DEF WriteModel, reporter
  <2>2. InUse(n)
    BY <2>1, <1>b DEF CleanerOK
  <2>3. step' = step /\ todo'[k] = todo[k] \ {n}
    BY <1>4, <2>2, <1>c DEF WriteModel
  <2>4. ping[k] = {}
    BY <2>1, <1>b DEF CleanerOK, InBody
  <2>5. \A m \in Model : m # n => usage'[m] = usage[m]
    BY <2>1, <1>c
  <2>6. \A s \in Sid : usage'[n][s] = Kept(usage[n][s])
    BY <2>1, <1>b, <1>c DEF EntriesOK
  <2>7. CleanerOK(k)'
    BY <2>1, <2>3, <2>4, <2>5, <1>b, <1>c DEF CleanerOK, InUse
  <2>8. ASSUME NEW m \in Model, NEW s \in Sid
        PROVE  /\ pinged'[m][s] <= Timeout => usage'[m][s] = pinged'[m][s]
               /\ usage'[m][s] # Gone => usage'[m][s] <= 2 * Timeout
               /\ IF m \in todo'[k] THEN snap'[k][m][s] = Kept(usage'[m][s])
                                    ELSE usage'[m][s] # Gone => usage'[m][s] <= Timeout
    <3>0. /\ pinged[m][s] <= Timeout => usage[m][s] = pinged[m][s]
          /\ usage[m][s] # Gone => usage[m][s] <= 2 * Timeout
          /\ m \in todo[k] => snap[k][m][s] = Kept(usage[m][s])
          /\ m \notin todo[k] => (usage[m][s] # Gone => usage[m][s] <= Timeout)
      <4>1. usage[m][s] + SoFar(k) = usage[m][s]
        BY <2>1, <1>c, <1>d DEF SoFar
      <4>2. QED  BY <2>1, <1>b, <4>1 DEF EntriesOK
    <3>1. CASE m = n
      <4>1. usage[m][s] \in 0..Gone /\ pinged[m][s] \in 0..Gone
        BY <1>c, <1>d
      <4>2. QED  BY <3>0, <3>1, <2>1, <2>3, <2>6, <1>d, <4>1 DEF Kept
    <3>2. CASE m # n
      BY <3>0, <3>2, <2>1, <2>3, <2>5
    <3>3. QED  BY <3>1, <3>2
  <2>9. \A m \in Model, s \in Sid : usage'[m][s] \in Nat
    BY <2>1, <1>c, <1>d
  <2>10. SoFar(k)' = 0 /\ step'[k] = "models"
    BY <2>1, <2>3 DEF SoFar
  <2>11. EntriesOK(k)'
    BY <2>8, <2>9, <2>10 DEF EntriesOK
  <2>12. QED  BY <2>7, <2>11
<1>5. ASSUME Sleep(k) PROVE Goal
  <2>1. /\ step[k] = "models" /\ todo[k] = {} /\ ~late /\ step'[k] = "sleep" /\ wait'[k] = Timeout
        /\ UNCHANGED <<usage, pinged, ping, seen>>
    BY <1>5, <1>c DEF Sleep, StepTo, reporter
  <2>2. ping[k] = {}
    BY <2>1, <1>b DEF CleanerOK, InBody
  <2>3. CleanerOK(k)'
    BY <2>1, <2>2, <1>d DEF CleanerOK
  <2>4. \A m \in Model, s \in Sid : /\ usage[m][s] # Gone => usage[m][s] <= Timeout
                                    /\ pinged[m][s] <= Timeout => usage[m][s] = pinged[m][s]
                                    /\ usage[m][s] \in Nat
    BY <2>1, <1>b, <1>c, <1>d DEF EntriesOK
  <2>5. SoFar(k)' = Timeout
    BY <2>1 DEF SoFar
  <2>6. EntriesOK(k)'
    <3>1. step'[k] # "models"
      BY <2>1
    <3>2. ASSUME NEW m \in Model, NEW s \in Sid
          PROVE  /\ pinged'[m][s] <= Timeout => usage'[m][s] = pinged'[m][s]
                 /\ usage'[m][s] # Gone => usage'[m][s] + Timeout <= 2 * Timeout
      <4>1. usage' = usage /\ pinged' = pinged
        BY <2>1
      <4>2. \A a, b \in Nat : a <= b => a + b <= 2 * b
        OBVIOUS
      <4>3. QED  BY <2>4, <4>1, <4>2
    <3>3. QED  BY <2>5, <3>1, <3>2 DEF EntriesOK
  <2>7. QED  BY <2>3, <2>6
<1>6. ~(ReleaseLock(k) /\ ~late) /\ ~(DeleteLock(k) /\ ~late)
  BY <1>b DEF CleanerOK, ReleaseLock, DeleteLock
<1>7. ASSUME NEW s \in Sid, NEW m \in Model, UsageRead(k, s, m) PROVE Goal
  <2>1. /\ step[k] # "down" /\ ~InBody(k) /\ ping'[k] = {<<s, m>>} /\ seen'[k] = usage[m] /\ ~late
        /\ UNCHANGED <<usage, pinged, step, wait, snap, todo>>
    BY <1>7, <1>c DEF UsageRead, cleaner
  <2>2. CleanerOK(k)'
    BY <2>1, <1>b DEF CleanerOK, InBody, InUse
  <2>3. EntriesOK(k)'
    BY <2>1, <1>b DEF EntriesOK, SoFar
  <2>4. QED  BY <2>2, <2>3
<1>8. ASSUME NEW t \in Sid, NEW n \in Model, UsageWrite(k, t, n) PROVE Goal
  <2>1. /\ ping[k] = {<<t, n>>} /\ ping'[k] = {} /\ ~late
        /\ usage' = [usage EXCEPT ![n] = [seen[k] EXCEPT ![t] = 0]]
        /\ pinged' = [pinged EXCEPT ![n][t] = 0]
        /\ UNCHANGED <<step, wait, snap, todo>>
    BY <1>8, <1>c DEF UsageWrite, cleaner
  <2>2. ~InBody(k) /\ step[k] # "down" /\ seen[k] = usage[n]
    BY <2>1, <1>b DEF CleanerOK
  <2>3. step[k] \in {"try", "renew", "sleep"} /\ (step[k] = "sleep" => wait[k] <= Timeout)
    BY <2>1, <2>2, <1>b DEF CleanerOK, InBody
  <2>4. CleanerOK(k)'
    BY <2>1, <2>3 DEF CleanerOK
  <2>5. ASSUME NEW m \in Model, NEW s \in Sid
        PROVE  /\ pinged'[m][s] <= Timeout => usage'[m][s] = pinged'[m][s]
               /\ usage'[m][s] # Gone => usage'[m][s] + SoFar(k) <= 2 * Timeout
    <3>1. CASE m = n /\ s = t
      <4>1. usage'[m][s] = 0 /\ pinged'[m][s] = 0
        BY <2>1, <1>c, <3>1
      <4>2. SoFar(k) \in Nat /\ SoFar(k) <= Timeout
        BY <2>3, <1>c, <1>d DEF SoFar
      <4>3. QED  BY <4>1, <4>2, <1>d
    <3>2. CASE ~(m = n /\ s = t)
      <4>1. usage'[m][s] = usage[m][s]
        BY <2>1, <2>2, <1>c, <3>2
      <4>2. pinged'[m][s] = pinged[m][s]
        BY <2>1, <1>c, <3>2
      <4>3. QED  BY <4>1, <4>2, <2>1, <1>b DEF EntriesOK
    <3>3. QED  BY <3>1, <3>2
  <2>6. SoFar(k)' = SoFar(k)
    BY <2>1 DEF SoFar
  <2>7. EntriesOK(k)'
    <3>1. step'[k] # "models"
      BY <2>1, <2>3
    <3>2. QED  BY <2>5, <2>6, <3>1 DEF EntriesOK
  <2>8. QED  BY <2>4, <2>7
<1>9. ASSUME Tick PROVE Goal
  <2>1. ~late /\ step' = step /\ ~Due(k) /\ ~InBody(k) /\ ping' = ping /\ ping[k] = {}
    BY <1>9 DEF Tick, Pinging
  <2>2. /\ step[k] = "down" \/ (step[k] = "sleep" /\ wait[k] # 0 /\ wait[k] <= Timeout)
        /\ step[k] = "down" => usage = Nothing
    BY <2>1, <1>b DEF CleanerOK, Due, InBody
  <2>3. \A m \in Model, s \in Sid : /\ usage'[m][s] = Older(usage[m][s])
                                    /\ pinged'[m][s] = Older(pinged[m][s])
    BY <1>9 DEF Tick, Aged
  <2>4. wait'[k] = Less(wait[k]) /\ wait[k] \in Nat
    BY <1>9, <1>c DEF Tick
  <2>5. step[k] = "down" => usage' = Nothing
    <3>1. Older(Gone) = Gone
      BY <1>d DEF Older
    <3>2. Aged(Nothing) = Nothing
      BY <3>1 DEF Aged, Nothing
    <3>3. QED  BY <1>9, <2>2, <3>2 DEF Tick
  <2>6. CleanerOK(k)'
    <3>1. step[k] = "sleep" => wait'[k] <= Timeout
      BY <2>2, <2>4, <1>d DEF Less
    <3>2. QED  BY <2>1, <2>2, <2>5, <3>1 DEF CleanerOK
  <2>7. ASSUME NEW m \in Model, NEW s \in Sid
        PROVE  /\ pinged'[m][s] <= Timeout => usage'[m][s] = pinged'[m][s]
               /\ usage'[m][s] # Gone => usage'[m][s] + SoFar(k)' <= 2 * Timeout
    <3>0. /\ pinged[m][s] <= Timeout => usage[m][s] = pinged[m][s]
          /\ usage[m][s] # Gone => usage[m][s] + SoFar(k) <= 2 * Timeout
          /\ usage[m][s] \in Age /\ pinged[m][s] \in Age
      BY <2>1, <1>b, <1>c DEF EntriesOK
    <3>1. CASE step[k] = "sleep"
      <4>1. SoFar(k) = wait[k] /\ SoFar(k)' = Less(wait[k]) /\ wait[k] > 0
        BY <2>1, <2>2, <2>4, <3>1 DEF SoFar
      <4>2. QED  BY <3>0, <4>1, <2>3, <2>4, OlderKeeps
    <3>2. CASE step[k] = "down"
      <4>1. usage[m][s] = Gone /\ usage'[m][s] = Gone
        BY <2>2, <2>5, <3>2 DEF Nothing
      <4>2. QED  BY <3>0, <4>1, <2>3, <1>d DEF Older
    <3>3. QED  BY <2>2, <3>1, <3>2
  <2>8. EntriesOK(k)'
    BY <2>1, <2>2, <2>7 DEF EntriesOK
  <2>9. QED  BY <2>6, <2>8
<1>10. ASSUME Die(k) PROVE Goal
  <2>1. step'[k] = "down" /\ ping'[k] = {} /\ usage' = Nothing /\ pinged' = Nothing
    BY <1>10, <1>0, <1>c DEF Die, StepTo
  <2>2. CleanerOK(k)'
    BY <2>1 DEF CleanerOK, Nothing
  <2>3. \A m \in Model, s \in Sid : usage'[m][s] = Gone /\ pinged'[m][s] = Gone
    BY <2>1 DEF Nothing
  <2>4. EntriesOK(k)'
    BY <2>1, <2>3, <1>d DEF EntriesOK
  <2>5. QED  BY <2>2, <2>4
<1>11. ASSUME Restart(k) PROVE Goal
  <2>1. /\ step[k] = "down" /\ step'[k] = "try" /\ ~late
        /\ UNCHANGED <<usage, pinged, wait, snap, todo, ping, seen>>
    BY <1>11, <1>c DEF Restart, StepTo, reporter
  <2>2. CleanerOK(k)'
    BY <2>1, <1>b DEF CleanerOK
  <2>3. EntriesOK(k)'
    BY <2>1, <1>b DEF EntriesOK, SoFar
  <2>4. QED  BY <2>2, <2>3
<1>12. ASSUME UNCHANGED usageVars PROVE Goal
  <2>1. UNCHANGED <<step, wait, usage, pinged, snap, todo, ping, seen, late>>
    BY <1>12 DEF usageVars, running, cleaner, reporter
  <2>2. CleanerOK(k)'
    BY <2>1, <1>b DEF CleanerOK, InUse, InBody
  <2>3. EntriesOK(k)'
    BY <2>1, <1>b DEF EntriesOK, SoFar
  <2>4. QED  BY <2>2, <2>3
<1>13. ASSUME NEW i \in Instance, Cleanup(i) PROVE Goal
  <2>1. Cleanup(k)
    BY <1>13, <1>a
  <2>2. ~(ReleaseLock(k) \/ DeleteLock(k))
    BY <1>6 DEF ReleaseLock, DeleteLock, reporter
  <2>3. QED  BY <2>1, <2>2, <1>1, <1>2, <1>3, <1>4, <1>5 DEF Cleanup
<1>14. ASSUME NEW i \in Instance, Report(i) PROVE Goal
  <2>1. Report(k)
    BY <1>14, <1>a
  <2>2. QED  BY <2>1, <1>7, <1>8 DEF Report
<1>15. ASSUME NEW i \in Instance, Die(i) \/ Restart(i) PROVE Goal
  <2>1. Die(k) \/ Restart(k)
    BY <1>15, <1>a
  <2>2. QED  BY <2>1, <1>10, <1>11
<1>16. ASSUME UsageNext PROVE Goal
  <2> HIDE DEF Goal
  <2>1. QED  BY <1>9, <1>13, <1>14, <1>15, <1>16 DEF UsageNext
<1>17. QED  BY <1>12, <1>16

(* One process with its pool in memory that keeps up lists every model a   *)
(* session has reported within the timeout, from the end of the report's   *)
(* handler on, and no entry gets older than twice the timeout, whatever    *)
(* the cleanup and the reports do in between (usage, get_models_in_use,    *)
(* periodic_usage_pool_cleanup).                                           *)
THEOREM ModelsListedInTime ==
  ASSUME OneInstance
  PROVE  UsageSpec => []ListedInTime
<1>1. UsageTypeOK /\ OwnPool => ListedInTime
  <2> SUFFICES ASSUME UsageTypeOK, OwnPool, ~late, ~InRedis, NEW m \in Model, NEW s \in Sid
               PROVE  /\ pinged[m][s] <= Timeout => usage[m][s] # Gone
                      /\ usage[m][s] # Gone => usage[m][s] <= 2 * Timeout
    BY DEF ListedInTime
  <2>1. PICK i \in Instance : TRUE
    BY OneInstance DEF OneInstance
  <2>2. EntriesOK(i)
    BY DEF OwnPool
  <2>3. SoFar(i) \in Nat
    BY DEF SoFar, UsageTypeOK
  <2>4. usage[m][s] \in Nat /\ pinged[m][s] \in Nat
    BY DEF UsageTypeOK, Entries, Age, Gone, Cap
  <2>5. Gone > Timeout
    BY DEF Gone, Cap
  <2>6. QED  BY <2>2, <2>3, <2>4, <2>5 DEF EntriesOK
<1>2. QED
  BY InitTypeOK, InitOwnPool, NextTypeOK, NextOwnPool, <1>1, OneInstance, PTL DEF UsageSpec
=============================================================================
