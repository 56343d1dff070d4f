-------------------------- MODULE RedisTasksProofs --------------------------
(***************************************************************************)
(* Proofs about RedisTasks, for any number of processes, tasks and chats,  *)
(* with crashes, broken subscriptions, and tasks that end at any time.     *)
(***************************************************************************)
EXTENDS RedisTasks, TLAPS, SequenceTheorems

USE RedisTasksAssumption

(* A task that runs has not been cleaned up, and no task that was never    *)
(* created is anywhere.                                                    *)
CleanupOK ==
  \A t \in Task :
    /\ cleaner[t] # "none" => phase[t] = "ended"
    /\ creator[t] = "none" <=> phase[t] = "none"

RInv == TypeOK /\ CleanupOK /\ RunningKnown

LEMMA InitRInv == Init => RInv
BY DEF Init, RInv, TypeOK, CleanupOK, RunningKnown, Running, Alive

LEMMA NextTypeOK == TypeOK /\ [Next]_vars => TypeOK'
<1> SUFFICES ASSUME TypeOK, [Next]_vars PROVE TypeOK'
  OBVIOUS
<1> USE DEF TypeOK, registry, taskVars, stopVars
<1>1. ASSUME NEW t \in Task, CreateTask(t) PROVE TypeOK'
  BY <1>1 DEF CreateTask
<1>2. ASSUME NEW t \in Task, SaveTask(t) PROVE TypeOK'
  BY <1>2 DEF SaveTask
<1>3. ASSUME NEW t \in Task, Respond(t) PROVE TypeOK'
  BY <1>3 DEF Respond
<1>4. ASSUME NEW t \in Task, Complete(t) PROVE TypeOK'
  BY <1>4 DEF Complete, End
<1>5. ASSUME NEW t \in Task, Cancelled(t) PROVE TypeOK'
  <2>1. /\ cancel' = [cancel EXCEPT ![t] = FALSE]
        /\ UNCHANGED <<hash, itemSet, tasks, creator, inbox, listens, stops, toStop, up>>
    BY <1>5 DEF Cancelled
  <2>2. \E p \in {"handling", "closing", "ended"} : phase' = [phase EXCEPT ![t] = p]
    BY <1>5 DEF Cancelled, End
  <2>3. cleaner' \in [Task -> {"none", "first", "delete", "local", "done"}]
    BY <1>5 DEF Cancelled, End
  <2>4. answer' \in [Task -> {"none", "all", "part", "lost", "error"}]
    BY <1>5 DEF Cancelled
  <2>5. phase' \in [Task -> {"none", "setup", "stream", "handling", "closing", "ended"}]
    BY <2>2
  <2>6. QED  BY <2>1, <2>3, <2>4, <2>5
<1>6. ASSUME NEW t \in Task, Handled(t) PROVE TypeOK'
  <2>1. answer' \in [Task -> {"none", "all", "part", "lost", "error"}]
    BY <1>6 DEF Handled
  <2>2. QED  BY <1>6, <2>1 DEF Handled, End
<1>7. ASSUME NEW t \in Task, Unlist(t) PROVE TypeOK'
  BY <1>7 DEF Unlist
<1>8. ASSUME NEW t \in Task, DeleteItem(t) PROVE TypeOK'
  BY <1>8 DEF DeleteItem
<1>9. ASSUME NEW t \in Task, Forget(t) PROVE TypeOK'
  BY <1>9 DEF Forget
<1>10. ASSUME NEW t \in Task, LearnId(t) PROVE TypeOK'
  BY <1>10 DEF LearnId
<1>11. ASSUME NEW t \in Task, StopTask(t) PROVE TypeOK'
  <2>1. stops' \in [Task -> 0..MaxStops]
    <3>1. stops[t] + 1 \in 0..MaxStops
      BY <1>11 DEF StopTask, Publish
    <3>2. QED  BY <1>11, <3>1 DEF StopTask, Publish
  <2>2. inbox' \in [Instance -> Seq(Task)]
    BY <1>11 DEF StopTask, Publish
  <2>3. QED  BY <1>11, <2>1, <2>2 DEF StopTask
<1>12. ASSUME NEW x \in Item, ListChat(x) PROVE TypeOK'
  BY <1>12 DEF ListChat
<1>13. ASSUME NEW i \in Instance, HandleCommand(i) PROVE TypeOK'
  <2>1. inbox[i] # <<>> /\ inbox[i] \in Seq(Task)
    BY <1>13 DEF HandleCommand
  <2>2. Head(inbox[i]) \in Task /\ Tail(inbox[i]) \in Seq(Task)
    BY <2>1
  <2>3. QED  BY <1>13, <2>2 DEF HandleCommand
<1>14. ASSUME NEW i \in Instance, ListenerEnds(i) PROVE TypeOK'
  BY <1>14 DEF ListenerEnds
<1>15. ASSUME NEW i \in Instance, Crash(i) PROVE TypeOK'
  BY <1>15 DEF Crash
<1>16. CASE UNCHANGED vars
  BY <1>16 DEF vars
<1>17. QED
  BY <1>1, <1>2, <1>3, <1>4, <1>5, <1>6, <1>7, <1>8, <1>9, <1>10, <1>11, <1>12, <1>13, <1>14,
     <1>15, <1>16 DEF Next, Coroutine, Cleanup, Stop

LEMMA NextKnown == RInv /\ [Next]_vars => CleanupOK' /\ RunningKnown'
<1> SUFFICES ASSUME RInv, [Next]_vars PROVE CleanupOK' /\ RunningKnown'
  OBVIOUS
<1> USE DEF RInv, TypeOK, CleanupOK, RunningKnown, Running, Alive, registry, taskVars, stopVars
<1>1. ASSUME NEW t \in Task, CreateTask(t) PROVE CleanupOK' /\ RunningKnown'
  BY <1>1 DEF CreateTask
<1>2. ASSUME NEW t \in Task, SaveTask(t) PROVE CleanupOK' /\ RunningKnown'
  BY <1>2 DEF SaveTask
<1>3. ASSUME NEW t \in Task, Respond(t) PROVE CleanupOK' /\ RunningKnown'
  BY <1>3 DEF Respond
<1>4. ASSUME NEW t \in Task, Complete(t) PROVE CleanupOK' /\ RunningKnown'
  BY <1>4 DEF Complete, End
<1>5. ASSUME NEW t \in Task, Cancelled(t) PROVE CleanupOK' /\ RunningKnown'
  <2>1. UNCHANGED <<hash, itemSet, tasks, creator, up>>
    BY <1>5 DEF Cancelled
  <2>2. \/ UNCHANGED cleaner /\ \E p \in {"handling", "closing"} : phase' = [phase EXCEPT ![t] = p]
        \/ End(t)
    BY <1>5 DEF Cancelled
  <2>3. phase[t] \notin {"none", "ended"} /\ Alive(t)
    BY <1>5 DEF Cancelled
  <2>4. CASE End(t)
    BY <2>1, <2>3, <2>4 DEF End
  <2>5. CASE UNCHANGED cleaner /\ \E p \in {"handling", "closing"} : phase' = [phase EXCEPT ![t] = p]
    BY <2>1, <2>3, <2>5
  <2>6. QED  BY <2>2, <2>4, <2>5
<1>6. ASSUME NEW t \in Task, Handled(t) PROVE CleanupOK' /\ RunningKnown'
  BY <1>6 DEF Handled, End
<1>7. ASSUME NEW t \in Task, Unlist(t) PROVE CleanupOK' /\ RunningKnown'
  BY <1>7 DEF Unlist
<1>8. ASSUME NEW t \in Task, DeleteItem(t) PROVE CleanupOK' /\ RunningKnown'
  BY <1>8 DEF DeleteItem
<1>9. ASSUME NEW t \in Task, Forget(t) PROVE CleanupOK' /\ RunningKnown'
  BY <1>9 DEF Forget
<1>10. ASSUME NEW t \in Task, Stop(t) PROVE CleanupOK' /\ RunningKnown'
  BY <1>10 DEF Stop, LearnId, StopTask
<1>11. ASSUME NEW x \in Item, ListChat(x) PROVE CleanupOK' /\ RunningKnown'
  BY <1>11 DEF ListChat
<1>12. ASSUME NEW i \in Instance, HandleCommand(i) PROVE CleanupOK' /\ RunningKnown'
  BY <1>12 DEF HandleCommand
<1>13. ASSUME NEW i \in Instance, ListenerEnds(i) PROVE CleanupOK' /\ RunningKnown'
  BY <1>13 DEF ListenerEnds
<1>14. ASSUME NEW i \in Instance, Crash(i) PROVE CleanupOK' /\ RunningKnown'
  BY <1>14 DEF Crash
<1>15. CASE UNCHANGED vars
  BY <1>15 DEF vars
<1>16. QED
  BY <1>1, <1>2, <1>3, <1>4, <1>5, <1>6, <1>7, <1>8, <1>9, <1>10, <1>11, <1>12, <1>13, <1>14,
     <1>15 DEF Next, Coroutine, Cleanup

(* A running task is registered in its process, where a stop command looks *)
(* for it, and in the shared hash once its creator has saved it: no other  *)
(* task's cleanup, and no crash of another process, takes it out.          *)
THEOREM RunningTasksKnown == Spec => [](TypeOK /\ RunningKnown)
<1>1. RInv /\ [Next]_vars => RInv'
  BY NextTypeOK, NextKnown DEF RInv
<1>2. RInv => TypeOK /\ RunningKnown
  BY DEF RInv
<1>3. QED  BY InitRInv, <1>1, <1>2, PTL DEF Spec

-----------------------------------------------------------------------------
(* A task is listed in its chat from the save on, until the cleanup of a   *)
(* task of the chat, which has ended, takes it out: what is to be proved   *)
(* is inductive once cleanups are known to begin after the end.            *)
LEMMA NextListed == RInv /\ ChatListsRunning /\ [Next]_vars => ChatListsRunning'
<1> SUFFICES ASSUME RInv, ChatListsRunning, [Next]_vars PROVE ChatListsRunning'
  OBVIOUS
<1> USE DEF RInv, TypeOK, CleanupOK, ChatListsRunning, Running, Alive, registry, taskVars, stopVars
<1>1. ASSUME NEW t \in Task, CreateTask(t) PROVE ChatListsRunning'
  BY <1>1 DEF CreateTask
<1>2. ASSUME NEW t \in Task, SaveTask(t) PROVE ChatListsRunning'
  BY <1>2 DEF SaveTask
<1>3. ASSUME NEW t \in Task, Coroutine(t) PROVE ChatListsRunning'
  <2>1. UNCHANGED <<itemSet, creator, up>> /\ phase[t] \notin {"none", "ended"}
    BY <1>3 DEF Coroutine, Respond, Complete, Cancelled, Handled
  <2>2. \A u \in Task : u # t => phase'[u] = phase[u]
    BY <1>3 DEF Coroutine, Respond, Complete, Cancelled, Handled, End
  <2>3. \A u \in Task : phase[u] = "ended" => phase'[u] = "ended"
    BY <2>1, <2>2
  <2>4. \A u \in Task : Running(u)' => Running(u)
    BY <2>1, <2>2, <1>3 DEF Coroutine, Respond, Complete, Cancelled, Handled
  <2>5. QED  BY <2>1, <2>3, <2>4
<1>4. ASSUME NEW t \in Task, Cleanup(t) PROVE ChatListsRunning'
  <2>1. phase[t] = "ended" /\ UNCHANGED <<phase, creator, up>>
    BY <1>4 DEF Cleanup, Unlist, DeleteItem, Forget
  <2>2. \A x \in Item : x # ItemOf[t] => itemSet'[x] = itemSet[x]
    BY <1>4 DEF Cleanup, Unlist, DeleteItem, Forget
  <2>3. QED  BY <2>1, <2>2
<1>5. ASSUME NEW t \in Task, Stop(t) PROVE ChatListsRunning'
  BY <1>5 DEF Stop, LearnId, StopTask
<1>6. ASSUME NEW x \in Item, ListChat(x) PROVE ChatListsRunning'
  BY <1>6 DEF ListChat
<1>7. ASSUME NEW i \in Instance, HandleCommand(i) \/ ListenerEnds(i) \/ Crash(i)
      PROVE  ChatListsRunning'
  BY <1>7 DEF HandleCommand, ListenerEnds, Crash
<1>8. CASE UNCHANGED vars
  BY <1>8 DEF vars
<1>9. QED
  BY <1>1, <1>2, <1>3, <1>4, <1>5, <1>6, <1>7, <1>8 DEF Next

(* A page that returns to a chat is told of every task that runs there,    *)
(* crashes and other chats' cleanups notwithstanding, unless a task of the *)
(* same chat has ended.                                                    *)
THEOREM RunningTasksListed == Spec => []ChatListsRunning
<1>1. Init => ChatListsRunning
  BY DEF Init, ChatListsRunning, Running
<1>2. RInv /\ [Next]_vars => RInv'
  BY NextTypeOK, NextKnown DEF RInv
<1>3. QED  BY InitRInv, <1>1, <1>2, NextListed, PTL DEF Spec

-----------------------------------------------------------------------------
(* If a task lasts until its creator has saved it, then what is in the     *)
(* hash runs or has its cleanup before it.                                 *)
SavedOK ==
  \A t \in Task :
    /\ phase[t] = "ended" \/ t \in hash => creator[t] = "done"
    /\ phase[t] = "ended" /\ t \in hash => cleaner[t] = "first"

LEMMA NextSaved ==
  ASSUME QuickEnd = FALSE
  PROVE  RInv /\ SavedOK /\ [Next]_vars => SavedOK'
<1> SUFFICES ASSUME RInv, SavedOK, [Next]_vars PROVE SavedOK'
  OBVIOUS
<1> USE DEF RInv, TypeOK, CleanupOK, SavedOK, registry, taskVars, stopVars
<1>1. ASSUME NEW t \in Task, CreateTask(t) PROVE SavedOK'
  BY <1>1 DEF CreateTask
<1>2. ASSUME NEW t \in Task, SaveTask(t) PROVE SavedOK'
  BY <1>2 DEF SaveTask
<1>3. ASSUME NEW t \in Task, Coroutine(t) PROVE SavedOK'
  <2>1. UNCHANGED <<hash, creator>>
    BY <1>3 DEF Coroutine, Respond, Complete, Cancelled, Handled
  <2>2. \A u \in Task : u # t => phase'[u] = phase[u] /\ cleaner'[u] = cleaner[u]
    BY <1>3 DEF Coroutine, Respond, Complete, Cancelled, Handled, End
  <2>3. phase'[t] = "ended" => cleaner'[t] = "first" /\ MayEnd(t)
    BY <1>3 DEF Coroutine, Respond, Complete, Cancelled, Handled, End
  <2>4. QED  BY <2>1, <2>2, <2>3 DEF MayEnd
<1>4. ASSUME NEW t \in Task, Cleanup(t) PROVE SavedOK'
  BY <1>4 DEF Cleanup, Unlist, DeleteItem, Forget
<1>5. ASSUME NEW t \in Task, Stop(t) PROVE SavedOK'
  BY <1>5 DEF Stop, LearnId, StopTask
<1>6. ASSUME NEW x \in Item, ListChat(x) PROVE SavedOK'
  BY <1>6 DEF ListChat
<1>7. ASSUME NEW i \in Instance, HandleCommand(i) \/ ListenerEnds(i) \/ Crash(i)
      PROVE  SavedOK'
  BY <1>7 DEF HandleCommand, ListenerEnds, Crash
<1>8. CASE UNCHANGED vars
  BY <1>8 DEF vars
<1>9. QED
  BY <1>1, <1>2, <1>3, <1>4, <1>5, <1>6, <1>7, <1>8 DEF Next

(* The list of active tasks has no task that has ended, whatever tasks end *)
(* and processes die, as long as no task ends before its creator has saved *)
(* it (QuickEnd; the property fails otherwise).                            *)
THEOREM HashHasRunningTasks ==
  ASSUME QuickEnd = FALSE
  PROVE  Spec => []ActiveTasksRun
<1>1. Init => SavedOK
  BY DEF Init, SavedOK
<1>2. RInv /\ [Next]_vars => RInv'
  BY NextTypeOK, NextKnown DEF RInv
<1>3. RInv /\ SavedOK => ActiveTasksRun
  BY DEF RInv, TypeOK, CleanupOK, SavedOK, ActiveTasksRun, Quiet, Busy, Running
<1>4. QED  BY InitRInv, <1>1, <1>2, <1>3, NextSaved, PTL DEF Spec
=============================================================================
