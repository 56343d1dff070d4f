----------------------------- MODULE LocalTasks -----------------------------
(***************************************************************************)
(* The registry of background tasks of one server process without Redis    *)
(* (backend/open_webui/tasks.py, redis = None), running on asyncio's event *)
(* loop.  A task is a chat completion (main.py, process_chat) or the       *)
(* debounced save of a note (socket/main.py, debounced_save); its item is  *)
(* the chat or the document it works for.                                  *)
(*                                                                         *)
(* The loop is modelled as it is: one callback runs at a time, from the    *)
(* head of a FIFO queue, and a coroutine runs until it suspends.  That     *)
(* order decides what stop_item_tasks sees, because it iterates over the   *)
(* very list that the cleanup callbacks shrink.                            *)
(***************************************************************************)
EXTENDS Naturals, Sequences, FiniteSets, SequencesExt

CONSTANTS
  Chats,     \* tasks that run process_chat, which catches CancelledError
  Saves,     \* tasks that run debounced_save, which does not
  Item,      \* chat ids and document ids
  ItemOf,    \* the item each task is created for
  Stopper,   \* coroutines that call stop_task or stop_item_tasks, once each
  NoTask     \* "not stopping any task"

Task == Chats \cup Saves

\* stop_item_tasks is only called for documents, stop_task for any task id.
Document == {ItemOf[t] : t \in Saves}

ASSUME TaskAssumption ==
  /\ Chats \cap Saves = {}
  /\ ItemOf \in [Task -> Item]
  /\ NoTask \notin Task
  /\ Task \cap Item = {}
  /\ NoTask \notin Item

VARIABLES
  st,        \* asyncio state of a task: none, ready (a step is queued), waiting, done
  cancel,    \* a CancelledError will be thrown at the task's next step
  phase,     \* where the coroutine is: new, body, handling (its except clause)
  outcome,   \* how it ended
  tasks,     \* the global dictionary `tasks`
  itemTasks, \* the global dictionary `item_tasks`; an absent key is <<>>
  ready      \* the event loop's queue of callbacks

taskVars == <<st, cancel, phase, outcome>>
registry == <<tasks, itemTasks>>

VARIABLES
  pc,        \* of a stopper: idle, queued, loop (about to take the next id), await, returned
  job,       \* what it was asked to stop: a task or an item
  cur,       \* the task it is stopping
  idx,       \* how many ids its for loop has taken from the list
  live,      \* its list is still the one in item_tasks (the entry was not popped)
  result,    \* the message it returned
  asked      \* history: the tasks the list held when it was read

stopVars == <<pc, job, cur, idx, live, result, asked>>
vars == <<st, cancel, phase, outcome, tasks, itemTasks, ready, stopVars>>

Callback == {"create", "step", "reap", "cleanup"} \X Task
            \cup {"stop", "wake"} \X Stopper

TypeOK ==
  /\ st \in [Task -> {"none", "ready", "waiting", "done"}]
  /\ cancel \in [Task -> BOOLEAN]
  /\ phase \in [Task -> {"new", "body", "handling"}]
  /\ outcome \in [Task -> {"none", "ok", "cancelled", "error"}]
  /\ tasks \subseteq Task
  /\ itemTasks \in [Item -> Seq(Task)]
  /\ ready \in Seq(Callback)
  /\ pc \in [Stopper -> {"idle", "queued", "loop", "await", "returned"}]
  /\ job \in [Stopper -> Task \cup Item \cup {NoTask}]
  /\ cur \in [Stopper -> Task \cup {NoTask}]
  /\ idx \in [Stopper -> Nat]
  /\ live \in [Stopper -> BOOLEAN]
  /\ result \in [Stopper -> {"none", "stopped", "failed", "raised", "notfound",
                             "nothing", "all"}]
  /\ asked \in [Stopper -> SUBSET Task]

Init ==
  /\ st = [t \in Task |-> "none"]
  /\ cancel = [t \in Task |-> FALSE]
  /\ phase = [t \in Task |-> "new"]
  /\ outcome = [t \in Task |-> "none"]
  /\ tasks = {}
  /\ itemTasks = [i \in Item |-> <<>>]
  /\ ready = <<>>
  /\ pc = [s \in Stopper |-> "idle"]
  /\ job = [s \in Stopper |-> NoTask]
  /\ cur = [s \in Stopper |-> NoTask]
  /\ idx = [s \in Stopper |-> 0]
  /\ live = [s \in Stopper |-> FALSE]
  /\ result = [s \in Stopper |-> "none"]
  /\ asked = [s \in Stopper |-> {}]

-----------------------------------------------------------------------------
(* What reaches the loop from outside: a request that creates a task, a    *)
(* request that stops something, and the I/O or timer a task waits for.    *)

Queued(cb) == cb \in ToSet(ready)

ArriveCreate(t) ==
  /\ st[t] = "none"
  /\ ~Queued(<<"create", t>>)
  /\ ready' = Append(ready, <<"create", t>>)
  /\ UNCHANGED <<taskVars, registry, stopVars>>

ArriveStop(s, j) ==
  /\ pc[s] = "idle"
  /\ pc' = [pc EXCEPT ![s] = "queued"]
  /\ job' = [job EXCEPT ![s] = j]
  /\ ready' = Append(ready, <<"stop", s>>)
  /\ UNCHANGED <<taskVars, registry, cur, idx, live, result, asked>>

ArriveIO(t) ==
  /\ st[t] = "waiting"
  /\ st' = [st EXCEPT ![t] = "ready"]
  /\ ready' = Append(ready, <<"step", t>>)
  /\ UNCHANGED <<cancel, phase, outcome, registry, stopVars>>

-----------------------------------------------------------------------------
(* The loop takes the callback at the head of its queue, unless the one it *)
(* is running has not suspended yet.                                       *)
AtHead(kind, x) ==
  /\ ready # <<>>
  /\ Head(ready) = <<kind, x>>
  /\ \A s \in Stopper : pc[s] # "loop"

(* create_task, the done callback and cleanup_task.  cleanup_task has no   *)
(* await without Redis, so it is one callback.                             *)

\* Mutant: the list of the item is replaced.
CreateTaskForgets(t) ==
  /\ AtHead("create", t)
  /\ st' = [st EXCEPT ![t] = "ready"]
  /\ tasks' = tasks \cup {t}
  /\ itemTasks' = [itemTasks EXCEPT ![ItemOf[t]] = <<t>>]
  /\ ready' = Append(Tail(ready), <<"step", t>>)
  /\ UNCHANGED <<cancel, phase, outcome, stopVars>>

CreateTask(t) ==
  /\ AtHead("create", t)
  /\ st' = [st EXCEPT ![t] = "ready"]
  /\ tasks' = tasks \cup {t}
  /\ itemTasks' = [itemTasks EXCEPT ![ItemOf[t]] = Append(@, t)]
  /\ ready' = Append(Tail(ready), <<"step", t>>)
  /\ UNCHANGED <<cancel, phase, outcome, stopVars>>

(* The lambda given to add_done_callback starts cleanup_task as a task of  *)
(* its own, which therefore runs one turn of the loop later.               *)
Reap(t) ==
  /\ AtHead("reap", t)
  /\ ready' = Append(Tail(ready), <<"cleanup", t>>)
  /\ UNCHANGED <<taskVars, registry, stopVars>>

\* Mutant: nothing left to do for a task that stop_task has popped.
CleanupIfRegistered(t) ==
  LET i == ItemOf[t]
  IN /\ AtHead("cleanup", t)
     /\ tasks' = tasks \ {t}
     /\ itemTasks' = [itemTasks EXCEPT ![i] = IF t \in tasks THEN RemoveFirst(@, t) ELSE @]
     /\ ready' = Tail(ready)
     /\ UNCHANGED <<taskVars, stopVars>>

CleanupTask(t) ==
  LET i == ItemOf[t]
      left == RemoveFirst(itemTasks[i], t)
  IN /\ AtHead("cleanup", t)
     /\ tasks' = tasks \ {t}
     /\ itemTasks' = [itemTasks EXCEPT ![i] = left]
     /\ live' = [s \in Stopper |-> live[s] /\ (left = <<>> => job[s] # i)]
     /\ ready' = Tail(ready)
     /\ UNCHANGED <<taskVars, pc, job, cur, idx, result, asked>>

-----------------------------------------------------------------------------
(* One step of a task's coroutine.                                         *)

(* The stoppers to wake when t ends are behind the cleanup lambda, which   *)
(* create_task registered first.                                           *)
Waiters(t) ==
  SetToSeq({<<"wake", s>> : s \in {r \in Stopper : pc[r] = "await" /\ cur[r] = t}})

Finish(t, how) ==
  /\ st' = [st EXCEPT ![t] = "done"]
  /\ outcome' = [outcome EXCEPT ![t] = how]
  /\ ready' = Tail(ready) \o <<<<"reap", t>>>> \o Waiters(t)

Suspend(t) ==
  /\ st' = [st EXCEPT ![t] = "waiting"]
  /\ ready' = Tail(ready)
  /\ UNCHANGED outcome

\* Mutant: the except clause is inside the streaming loop.
StepCancelledGoesOn(t) ==
  LET handled == t \in Chats /\ phase[t] = "body"
  IN /\ AtHead("step", t)
     /\ cancel[t]
     /\ cancel' = [cancel EXCEPT ![t] = FALSE]
     /\ IF handled THEN Suspend(t) ELSE Finish(t, "cancelled")
     /\ UNCHANGED <<phase, registry, stopVars>>

(* CancelledError surfaces at the await.  In process_chat's body the       *)
(* except clause emits chat:tasks:cancel, which may suspend, and returns   *)
(* normally; anywhere else it ends the task.                               *)
StepCancelled(t) ==
  LET handled == t \in Chats /\ phase[t] = "body"
  IN /\ AtHead("step", t)
     /\ cancel[t]
     /\ cancel' = [cancel EXCEPT ![t] = FALSE]
     /\ \/ /\ handled
           /\ phase' = [phase EXCEPT ![t] = "handling"]
           /\ Suspend(t) \/ Finish(t, "ok")
        \/ /\ ~handled
           /\ Finish(t, "cancelled")
           /\ UNCHANGED phase
     /\ UNCHANGED <<registry, stopVars>>

(* process_chat may wait any number of times and turns every exception     *)
(* into a normal return; its except clause waits once.  debounced_save     *)
(* waits once, then saves or raises.                                       *)
StepNormally(t) ==
  /\ AtHead("step", t)
  /\ ~cancel[t]
  /\ \/ /\ phase[t] = "new" \/ (t \in Chats /\ phase[t] = "body")
        /\ phase' = [phase EXCEPT ![t] = "body"]
        /\ Suspend(t)
     \/ /\ t \in Chats \/ phase[t] = "body"
        /\ Finish(t, "ok")
        /\ UNCHANGED phase
     \/ /\ t \in Saves /\ phase[t] = "body"
        /\ Finish(t, "error")
        /\ UNCHANGED phase
  /\ UNCHANGED <<cancel, registry, stopVars>>

-----------------------------------------------------------------------------
(* stop_task and stop_item_tasks, up to their next await.                  *)

Return(s, r) ==
  /\ pc' = [pc EXCEPT ![s] = "returned"]
  /\ result' = [result EXCEPT ![s] = r]

(* What `await task` on a finished task gives, as stop_task reports it.    *)
Verdict(t) ==
  CASE outcome[t] = "cancelled" -> "stopped"
    [] outcome[t] = "ok"        -> "failed"
    [] outcome[t] = "error"     -> "raised"

(* A stop_task has reported r: its own caller gets r, while                *)
(* stop_item_tasks goes on after a success and returns the first failure.  *)
Report(s, r) ==
  \/ /\ job[s] \in Item /\ r = "stopped"
     /\ pc' = [pc EXCEPT ![s] = "loop"]
     /\ UNCHANGED result
  \/ /\ ~(job[s] \in Item /\ r = "stopped")
     /\ Return(s, r)

\* Mutant: a task that is about to run is not marked.
RequestCancelIfWaiting(t) ==
  /\ cancel' = [cancel EXCEPT ![t] = st[t] = "waiting"]
  /\ \/ /\ st[t] = "waiting"
        /\ st' = [st EXCEPT ![t] = "ready"]
        /\ ready' = Append(ready, <<"step", t>>)
     \/ /\ st[t] # "waiting"
        /\ UNCHANGED <<st, ready>>

(* Cancelling a suspended task cancels the future it waits for, which      *)
(* queues its next step; a queued step is only marked.                     *)
RequestCancel(t) ==
  /\ cancel' = [cancel EXCEPT ![t] = TRUE]
  /\ \/ /\ st[t] = "waiting"
        /\ st' = [st EXCEPT ![t] = "ready"]
        /\ ready' = Append(ready, <<"step", t>>)
     \/ /\ st[t] # "waiting"
        /\ UNCHANGED <<st, ready>>

\* Mutant: tasks.get instead of tasks.pop.
StopTaskByGet(s, t) ==
  /\ t \in tasks /\ st[t] # "done"
  /\ cur' = [cur EXCEPT ![s] = t]
  /\ RequestCancel(t)
  /\ pc' = [pc EXCEPT ![s] = "await"]
  /\ UNCHANGED <<phase, outcome, registry, job, live, asked, result>>

(* `await task` does not suspend on a task that has ended.                 *)
StopTask(s, t) ==
  /\ cur' = [cur EXCEPT ![s] = t]
  /\ tasks' = tasks \ {t}
  /\ \/ /\ t \notin tasks
        /\ Return(s, "notfound")
        /\ UNCHANGED <<st, cancel, ready>>
     \/ /\ t \in tasks /\ st[t] = "done"
        /\ Report(s, Verdict(t))
        /\ UNCHANGED <<st, cancel, ready>>
     \/ /\ t \in tasks /\ st[t] # "done"
        /\ RequestCancel(t)
        /\ pc' = [pc EXCEPT ![s] = "await"]
        /\ UNCHANGED result
  /\ UNCHANGED <<phase, outcome, itemTasks, job, live, asked>>

(* The list stop_item_tasks iterates over: the one in item_tasks as long   *)
(* as that entry is not popped, an empty orphan afterwards.                *)
ListOf(s) == IF live[s] THEN itemTasks[job[s]] ELSE <<>>

(* The stop request reaches the head of the queue.                         *)
BeginStop(s) ==
  LET here == IF job[s] \in Item THEN ToSet(itemTasks[job[s]]) ELSE {job[s]}
  IN /\ AtHead("stop", s)
     /\ asked' = [asked EXCEPT ![s] = here]
     /\ live' = [live EXCEPT ![s] = job[s] \in Item /\ here # {}]
     /\ \/ /\ here = {}
           /\ Return(s, "nothing")
        \/ /\ here # {}
           /\ pc' = [pc EXCEPT ![s] = "loop"]
           /\ UNCHANGED result
     /\ ready' = Tail(ready)
     /\ UNCHANGED <<taskVars, registry, job, cur, idx>>

(* The awaited task has ended.                                             *)
WakeStop(s) ==
  /\ AtHead("wake", s)
  /\ Report(s, Verdict(cur[s]))
  /\ ready' = Tail(ready)
  /\ UNCHANGED <<taskVars, registry, job, cur, idx, live, asked>>

(* The next turn of the for loop, in the same callback.                    *)
StopOne(s) ==
  /\ pc[s] = "loop" /\ job[s] \in Task
  /\ StopTask(s, job[s])
  /\ UNCHANGED idx

StopNext(s) ==
  /\ pc[s] = "loop" /\ job[s] \in Item
  /\ idx[s] < Len(ListOf(s))
  /\ idx' = [idx EXCEPT ![s] = @ + 1]
  /\ StopTask(s, ListOf(s)[idx[s] + 1])

StopExhausted(s) ==
  /\ pc[s] = "loop" /\ job[s] \in Item
  /\ idx[s] >= Len(ListOf(s))
  /\ Return(s, "all")
  /\ UNCHANGED <<taskVars, registry, ready, job, cur, idx, live, asked>>

-----------------------------------------------------------------------------
TaskCallback(t) ==
  CreateTask(t) \/ Reap(t) \/ CleanupTask(t) \/ StepCancelled(t) \/ StepNormally(t)

StopCallback(s) ==
  BeginStop(s) \/ WakeStop(s) \/ StopOne(s) \/ StopNext(s) \/ StopExhausted(s)

Loop == (\E t \in Task : TaskCallback(t)) \/ (\E s \in Stopper : StopCallback(s))

Next ==
  \/ \E t \in Task : ArriveCreate(t) \/ ArriveIO(t)
  \/ \E s \in Stopper, j \in Task \cup Document : ArriveStop(s, j)
  \/ Loop

Spec == Init /\ [][Next]_vars

(* asyncio keeps running what is queued, and what a task waits for in its  *)
(* except clause (an emit to the user's own sessions) completes.  Nothing  *)
(* is assumed of the body: a model may stream for ever.                    *)
Fairness ==
  /\ WF_vars(Loop)
  /\ \A t \in Task : WF_vars(ArriveIO(t) /\ phase[t] = "handling")

FairSpec == Spec /\ Fairness

-----------------------------------------------------------------------------
(* Properties.                                                             *)

Listed(t) == t \in ToSet(itemTasks[ItemOf[t]])
Started(t) == st[t] # "none"
Running(t) == st[t] \in {"ready", "waiting"}

(* While a task runs, the list of its item holds it, so that the chat page *)
(* finds it (list_task_ids_by_item_id) whatever other tasks of the item    *)
(* come and go, and no list holds a task twice or under another item.      *)
RunningListed ==
  /\ \A t \in Task : Running(t) => Listed(t)
  /\ \A i \in Item :
       /\ IsInjective(itemTasks[i])
       /\ \A t \in ToSet(itemTasks[i]) : ItemOf[t] = i

(* The lists do not leak: a task that has ended and is still in a registry *)
(* has its cleanup on the way, also when stop_task has popped it already.  *)
EndedIsReaped ==
  \A t \in Task :
    st[t] = "done" /\ (Listed(t) \/ t \in tasks) =>
      Queued(<<"reap", t>>) \/ Queued(<<"cleanup", t>>)

(* Several stops of one task: only the one that popped it waits for it,    *)
(* and as long as it waits the task runs or has queued its wake-up.        *)
StopOnce ==
  /\ \A r, s \in Stopper :
       pc[r] = "await" /\ pc[s] = "await" /\ cur[r] = cur[s] => r = s
  /\ \A s \in Stopper :
       pc[s] = "await" => Running(cur[s]) \/ Queued(<<"wake", s>>)

(* "Task with ID ... not found." is never said of a task that would go on  *)
(* running: it is unknown, has ended, or a stop is already under way.      *)
NotFoundIsStopping ==
  [][\A s \in Stopper :
       result'[s] = "notfound" /\ result[s] # "notfound" =>
         LET t == cur'[s] IN Running(t) => cancel[t] \/ phase[t] = "handling"]_vars

(* A stop request always returns, although the task it waits for may       *)
(* handle the cancellation, and be cancelled again meanwhile.              *)
StopReturns == \A s \in Stopper : pc[s] = "queued" ~> pc[s] = "returned"

(* A task that ended disappears from the list of its item.                 *)
EndedIsUnlisted == \A t \in Task : st[t] = "done" ~> ~Listed(t)

(* "Stop all tasks associated with a specific item ID": when               *)
(* stop_item_tasks says that all were stopped, those its list held when it *)
(* was called have ended.  It does not hold of three saves, of which the   *)
(* loop skips one.                                                         *)
StopItemStopsAll ==
  \A s \in Stopper : result[s] = "all" => \A t \in asked[s] : st[t] = "done"

(* "Failed to stop task" is not said of a task that the cancellation did   *)
(* end.                                                                    *)
FailedMeansNotCancelled ==
  \A s \in Stopper : result[s] = "failed" => phase[cur[s]] # "handling"
=============================================================================
