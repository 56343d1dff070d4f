----------------------------- MODULE RedisTasks -----------------------------
(***************************************************************************)
(* The registry of background tasks when several server processes share it *)
(* through Redis (backend/open_webui/tasks.py, redis # None).  Every       *)
(* process has its own `tasks`; a hash lists the tasks of all of them and  *)
(* a set lists those of each item.  A stop is published to all processes,  *)
(* each of which runs redis_task_command_listener.                         *)
(*                                                                         *)
(* Coroutines are suspended at every Redis command, so the steps of this   *)
(* module are the pieces of create_task, cleanup_task, stop_task and of    *)
(* the listener between two awaits.  A pipeline is a MULTI/EXEC block,     *)
(* hence atomic.                                                           *)
(***************************************************************************)
EXTENDS Naturals, Sequences, FiniteSets

CONSTANTS
  Instance,    \* server processes
  Task,        \* chat completions
  Item,        \* chats
  Host,        \* the process that creates a task
  ItemOf,      \* the chat it works for
  MaxStops,    \* bound on the commands published for one task
  Crashes,     \* processes may die
  ListenerMayEnd, \* the subscription of a process may break
  QuickEnd     \* a task may end before its creator has saved it in Redis

ASSUME RedisTasksAssumption ==
  /\ Host \in [Task -> Instance]
  /\ ItemOf \in [Task -> Item]
  /\ MaxStops \in Nat
  /\ Crashes \in BOOLEAN /\ ListenerMayEnd \in BOOLEAN /\ QuickEnd \in BOOLEAN

VARIABLES
  hash,      \* {REDIS_KEY_PREFIX}:tasks
  itemSet,   \* {REDIS_KEY_PREFIX}:tasks:item:{item}; an absent key is {}
  tasks,     \* of a process: its `tasks`; item_tasks changes with it and is not read
  creator,   \* of a task's create_task: none, saving, done
  phase,     \* of its coroutine: none, setup, stream, handling and closing (the two except
             \* clauses around the stream), ended
  cancel,    \* a CancelledError will be thrown at its next step
  cleaner,   \* of its cleanup_task: none, first, check, local, done
  inbox,     \* of a process: the stop commands its listener has yet to handle
  listens,   \* its listener runs
  up,        \* it has not died
  stops,     \* commands published for a task
  answer,    \* what the database has of the answer: none, all, part, lost, error
  toStop     \* tasks a chat page is about to stop

registry == <<hash, itemSet, tasks>>
taskVars == <<creator, phase, cancel, cleaner, answer>>
stopVars == <<inbox, listens, stops, toStop>>
vars == <<registry, taskVars, stopVars, up>>

TypeOK ==
  /\ hash \subseteq Task
  /\ itemSet \in [Item -> SUBSET Task]
  /\ tasks \in [Instance -> SUBSET Task]
  /\ creator \in [Task -> {"none", "saving", "done"}]
  /\ phase \in [Task -> {"none", "setup", "stream", "handling", "closing", "ended"}]
  /\ cancel \in [Task -> BOOLEAN]
  /\ cleaner \in [Task -> {"none", "first", "delete", "local", "done"}]
  /\ inbox \in [Instance -> Seq(Task)]
  /\ listens \in [Instance -> BOOLEAN]
  /\ up \in [Instance -> BOOLEAN]
  /\ stops \in [Task -> 0..MaxStops]
  /\ answer \in [Task -> {"none", "all", "part", "lost", "error"}]
  /\ toStop \subseteq Task

Init ==
  /\ hash = {}
  /\ itemSet = [x \in Item |-> {}]
  /\ tasks = [i \in Instance |-> {}]
  /\ creator = [t \in Task |-> "none"]
  /\ phase = [t \in Task |-> "none"]
  /\ cancel = [t \in Task |-> FALSE]
  /\ cleaner = [t \in Task |-> "none"]
  /\ inbox = [i \in Instance |-> <<>>]
  /\ listens = [i \in Instance |-> TRUE]
  /\ up = [i \in Instance |-> TRUE]
  /\ stops = [t \in Task |-> 0]
  /\ answer = [t \in Task |-> "none"]
  /\ toStop = {}

Alive(t) == up[Host[t]]
Running(t) == Alive(t) /\ phase[t] \notin {"none", "ended"}

-----------------------------------------------------------------------------
(* create_task: the coroutine is scheduled and registered here, then in    *)
(* Redis (redis_save_task).                                                *)

CreateTask(t) ==
  /\ Alive(t) /\ creator[t] = "none"
  /\ creator' = [creator EXCEPT ![t] = "saving"]
  /\ phase' = [phase EXCEPT ![t] = "setup"]
  /\ tasks' = [tasks EXCEPT ![Host[t]] = @ \cup {t}]
  /\ UNCHANGED <<hash, itemSet, cancel, cleaner, answer, stopVars, up>>

\* Mutant: the set of the item is left out.
SaveTaskInHash(t) ==
  /\ Alive(t) /\ creator[t] = "saving"
  /\ creator' = [creator EXCEPT ![t] = "done"]
  /\ hash' = hash \cup {t}
  /\ UNCHANGED <<itemSet, tasks, phase, cancel, cleaner, answer, stopVars, up>>

SaveTask(t) ==
  /\ Alive(t) /\ creator[t] = "saving"
  /\ creator' = [creator EXCEPT ![t] = "done"]
  /\ hash' = hash \cup {t}
  /\ itemSet' = [itemSet EXCEPT ![ItemOf[t]] = @ \cup {t}]
  /\ UNCHANGED <<tasks, phase, cancel, cleaner, answer, stopVars, up>>

-----------------------------------------------------------------------------
(* process_chat, as far as stopping it is concerned.                       *)

(* A task may end before its creator is back from Redis.                   *)
MayEnd(t) == QuickEnd \/ creator[t] = "done"

End(t) ==
  /\ phase' = [phase EXCEPT ![t] = "ended"]
  /\ cleaner' = [cleaner EXCEPT ![t] = "first"]

(* The payload is processed and the model begins to answer.                *)
Respond(t) ==
  /\ Running(t) /\ phase[t] = "setup" /\ ~cancel[t]
  /\ phase' = [phase EXCEPT ![t] = "stream"]
  /\ UNCHANGED <<registry, creator, cancel, cleaner, answer, stopVars, up>>

(* The answer is complete and saved, or an error takes its place.          *)
Complete(t) ==
  /\ Running(t) /\ ~cancel[t] /\ MayEnd(t)
  /\ \/ phase[t] = "stream" /\ answer' = [answer EXCEPT ![t] = "all"]
     \/ phase[t] \in {"setup", "stream"} /\ answer' = [answer EXCEPT ![t] = "error"]
  /\ End(t)
  /\ UNCHANGED <<registry, creator, cancel, stopVars, up>>

(* A CancelledError surfaces.  Around the stream, the except clause of the *)
(* response handler emits chat:tasks:cancel and waits for that; anywhere   *)
(* else up to and including this clause, the one of process_chat does.     *)
Cancelled(t) ==
  /\ Running(t) /\ cancel[t]
  /\ cancel' = [cancel EXCEPT ![t] = FALSE]
  /\ \/ /\ phase[t] = "stream"
        /\ phase' = [phase EXCEPT ![t] = "handling"]
        /\ UNCHANGED <<cleaner, answer>>
     \/ /\ phase[t] \in {"setup", "handling"}
        /\ phase' = [phase EXCEPT ![t] = "closing"]
        /\ answer' = [answer EXCEPT ![t] = IF phase[t] = "handling" THEN "lost" ELSE @]
        /\ UNCHANGED cleaner
     \/ /\ phase[t] = "closing" /\ MayEnd(t)
        /\ End(t)
        /\ UNCHANGED answer
  /\ UNCHANGED <<registry, creator, stopVars, up>>

(* The event is out.  "Save message in the database", or nothing to save.  *)
Handled(t) ==
  /\ Running(t) /\ ~cancel[t] /\ MayEnd(t)
  /\ \/ phase[t] = "handling" /\ answer' = [answer EXCEPT ![t] = "part"]
     \/ phase[t] = "closing" /\ UNCHANGED answer
  /\ End(t)
  /\ UNCHANGED <<registry, creator, cancel, stopVars, up>>

-----------------------------------------------------------------------------
(* cleanup_task, which the done callback starts: redis_cleanup_task, then  *)
(* the registry of the process.                                            *)

\* Mutants: the whole hash is deleted; a task is unlisted with its chat only.
UnlistAll(t) ==
  /\ Alive(t) /\ cleaner[t] = "first"
  /\ hash' = {}
  /\ itemSet' = [itemSet EXCEPT ![ItemOf[t]] = @ \ {t}]
  /\ cleaner' = [cleaner EXCEPT ![t] = "local"]
  /\ UNCHANGED <<tasks, creator, phase, cancel, answer, stopVars, up>>

UnlistLast(t) ==
  /\ Alive(t) /\ cleaner[t] = "first"
  /\ hash' = IF itemSet[ItemOf[t]] = {t} THEN hash \ {t} ELSE hash
  /\ itemSet' = [itemSet EXCEPT ![ItemOf[t]] = @ \ {t}]
  /\ cleaner' = [cleaner EXCEPT ![t] = "local"]
  /\ UNCHANGED <<tasks, creator, phase, cancel, answer, stopVars, up>>

Unlist(t) ==
  /\ Alive(t) /\ cleaner[t] = "first"
  /\ hash' = hash \ {t}
  /\ itemSet' = [itemSet EXCEPT ![ItemOf[t]] = @ \ {t}]
  /\ cleaner' = [cleaner EXCEPT ![t] = IF itemSet'[ItemOf[t]] = {} THEN "delete" ELSE "local"]
  /\ UNCHANGED <<tasks, creator, phase, cancel, answer, stopVars, up>>

(* "Remove if empty set"                                                   *)
DeleteItem(t) ==
  /\ Alive(t) /\ cleaner[t] = "delete"
  /\ itemSet' = [itemSet EXCEPT ![ItemOf[t]] = {}]
  /\ cleaner' = [cleaner EXCEPT ![t] = "local"]
  /\ UNCHANGED <<hash, tasks, creator, phase, cancel, answer, stopVars, up>>

Forget(t) ==
  /\ Alive(t) /\ cleaner[t] = "local"
  /\ tasks' = [tasks EXCEPT ![Host[t]] = @ \ {t}]
  /\ cleaner' = [cleaner EXCEPT ![t] = "done"]
  /\ UNCHANGED <<hash, itemSet, creator, phase, cancel, answer, stopVars, up>>

-----------------------------------------------------------------------------
(* stop_task publishes and returns.  Redis delivers to the processes that  *)
(* are subscribed.                                                         *)

Publish(t) ==
  /\ stops[t] < MaxStops /\ \E i \in Instance : up[i]
  /\ stops' = [stops EXCEPT ![t] = @ + 1]
  /\ inbox' = [i \in Instance |-> IF up[i] /\ listens[i] THEN Append(inbox[i], t) ELSE inbox[i]]

(* The page that asked for the completion is told its id; one that is      *)
(* opened later asks for the ids of the chat.                              *)
LearnId(t) ==
  /\ creator[t] = "done" /\ t \notin toStop
  /\ toStop' = toStop \cup {t}
  /\ UNCHANGED <<registry, taskVars, inbox, listens, stops, up>>

ListChat(x) ==
  /\ ~(itemSet[x] \subseteq toStop)
  /\ toStop' = toStop \cup itemSet[x]
  /\ UNCHANGED <<registry, taskVars, inbox, listens, stops, up>>

StopTask(t) ==
  /\ t \in toStop
  /\ Publish(t)
  /\ toStop' = toStop \ {t}
  /\ UNCHANGED <<registry, taskVars, listens, up>>

\* Mutant: only a task that is streaming is cancelled.
HandleCommandIfStreaming(i) ==
  LET t == Head(inbox[i])
  IN /\ up[i] /\ listens[i] /\ inbox[i] # <<>>
     /\ inbox' = [inbox EXCEPT ![i] = Tail(@)]
     /\ cancel' = [cancel EXCEPT ![t] = @ \/ (t \in tasks[i] /\ phase[t] = "stream")]
     /\ UNCHANGED <<registry, creator, phase, cleaner, answer, listens, stops, toStop, up>>

(* redis_task_command_listener                                             *)
HandleCommand(i) ==
  LET t == Head(inbox[i])
  IN /\ up[i] /\ listens[i] /\ inbox[i] # <<>>
     /\ inbox' = [inbox EXCEPT ![i] = Tail(@)]
     /\ \/ /\ t \in tasks[i] /\ phase[t] # "ended"
           /\ cancel' = [cancel EXCEPT ![t] = TRUE]
        \/ /\ t \notin tasks[i] \/ phase[t] = "ended"
           /\ UNCHANGED cancel
     /\ UNCHANGED <<registry, creator, phase, cleaner, answer, listens, stops, toStop, up>>

-----------------------------------------------------------------------------
(* pubsub.listen() raises when the connection is lost, and the listener    *)
(* task is not started again.                                              *)
ListenerEnds(i) ==
  /\ ListenerMayEnd /\ up[i] /\ listens[i]
  /\ listens' = [listens EXCEPT ![i] = FALSE]
  /\ inbox' = [inbox EXCEPT ![i] = <<>>]
  /\ UNCHANGED <<registry, taskVars, stops, toStop, up>>

Crash(i) ==
  /\ Crashes /\ up[i]
  /\ up' = [up EXCEPT ![i] = FALSE]
  /\ tasks' = [tasks EXCEPT ![i] = {}]
  /\ inbox' = [inbox EXCEPT ![i] = <<>>]
  /\ UNCHANGED <<hash, itemSet, taskVars, listens, stops, toStop>>

Coroutine(t) == Respond(t) \/ Complete(t) \/ Cancelled(t) \/ Handled(t)
Cleanup(t) == Unlist(t) \/ DeleteItem(t) \/ Forget(t)
Stop(t) == LearnId(t) \/ StopTask(t)

Next ==
  \/ \E t \in Task : CreateTask(t) \/ SaveTask(t) \/ Coroutine(t) \/ Cleanup(t) \/ Stop(t)
  \/ \E x \in Item : ListChat(x)
  \/ \E i \in Instance : HandleCommand(i) \/ ListenerEnds(i) \/ Crash(i)

Spec == Init /\ [][Next]_vars

(* What has begun goes on: coroutines that are queued, commands to Redis,  *)
(* deliveries.  A model may stream for ever.                               *)
Fairness ==
  /\ \A t \in Task :
       /\ WF_vars(SaveTask(t)) /\ WF_vars(Cancelled(t)) /\ WF_vars(Handled(t))
       /\ WF_vars(Cleanup(t))
  /\ \A i \in Instance : WF_vars(HandleCommand(i))

FairSpec == Spec /\ Fairness

-----------------------------------------------------------------------------
(* Properties.                                                             *)

Busy(t) == Alive(t) /\ (creator[t] = "saving" \/ cleaner[t] \in {"first", "delete", "local"})
Quiet == \A t \in Task : ~Busy(t)

(* A running task can be found by the listener of its process, and by      *)
(* everybody in the hash as soon as its id is known.                       *)
RunningKnown ==
  \A t \in Task : Running(t) =>
    /\ t \in tasks[Host[t]]
    /\ creator[t] = "done" => t \in hash

(* "List all currently active task IDs": the hash has no task that does not *)
(* run, unless its process has died.                                       *)
ActiveTasksRun == Quiet => \A t \in hash : Running(t) \/ ~Alive(t)

(* "List all tasks associated with a specific ID": a running task is among *)
(* them, so that a page that returns to the chat can stop it, as long as   *)
(* no other task of the chat is being cleaned up.                          *)
ChatListsRunning ==
  \A t \in Task :
    Running(t) /\ creator[t] = "done" /\ (\A u \in Task : ItemOf[u] = ItemOf[t] => phase[u] # "ended")
      => t \in itemSet[ItemOf[t]]

(* Stopping an answer keeps what there is of it: so with one stop, but not with  *)
(* two.                                                                    *)
PartSaved == \A t \in Task : answer[t] # "lost"

(* "Stopping ... now works reliably even in clustered deployments": a stop *)
(* that has been published ends the task, if the listener of its process   *)
(* lives.                                                                  *)
StopWorks == \A t \in Task : stops[t] > 0 ~> ~Running(t) \/ ~listens[Host[t]]

(* What has ended disappears from the lists of all processes.              *)
EndedIsUnlisted ==
  \A t \in Task :
    phase[t] = "ended" ~> t \notin hash \cup itemSet[ItemOf[t]] \/ ~Alive(t)
=============================================================================
