----------------------------- MODULE NoteSaves -----------------------------
(***************************************************************************)
(* How the edits of a note reach the database (backend/open_webui/         *)
(* socket/main.py, yjs_document_update and debounced_save): every update   *)
(* stops the saves that are pending for the document, and starts its own,  *)
(* which sleeps for half a second and then writes the content that came    *)
(* with the update.                                                        *)
(*                                                                         *)
(* The handler of an update is a stopper of LocalTasks whose item is the   *)
(* document, followed by a create_task; this module composes the two and   *)
(* adds what the saves write.  Updates are numbered in the order in which  *)
(* they arrive, and the content of each contains all earlier edits.        *)
(***************************************************************************)
EXTENDS LocalTasks

CONSTANTS
  Doc,       \* the note
  SaveOf,    \* the save an update starts; NoTask if it brings no content
  SidOf      \* the session an update comes from

Update == Stopper
WithData == {k \in Update : SaveOf[k] # NoTask}
Sids == {SidOf[k] : k \in Update}

(* Not an ASSUME, because the proofs about LocalTasks extend this module.  *)
NoteAssumption ==
  /\ Chats = {} /\ Item = {Doc}
  /\ IsFiniteSet(Update) /\ Update = 1..Cardinality(Update)
  /\ SaveOf \in [Update -> Saves \cup {NoTask}]
  /\ \A k, l \in WithData : SaveOf[k] = SaveOf[l] => k = l
  /\ \A t \in Saves : \E k \in Update : SaveOf[k] = t
  /\ DOMAIN SidOf = Update

VARIABLES
  note,      \* the last update whose content is in the database, 0 at first
  left,      \* sessions that have disconnected
  last,      \* history: the update that created its save last
  crossed,   \* history: an update has arrived while another was being handled
  bare       \* history: since the last save was created, an update without
             \* content has stopped saves, or it may yet

noteVars == <<note, left, last, crossed, bare>>
allVars == <<vars, noteVars>>

UpdateOf(t) == CHOOSE k \in WithData : SaveOf[k] = t

NotesTypeOK ==
  /\ note \in 0..Cardinality(Update)
  /\ left \subseteq Sids
  /\ last \in 0..Cardinality(Update)
  /\ crossed \in BOOLEAN /\ bare \in BOOLEAN

NotesInit == Init /\ note = 0 /\ left = {} /\ last = 0 /\ crossed = FALSE /\ bare = FALSE

-----------------------------------------------------------------------------
Stopped(k) == pc[k] = "returned"
Created(k) == SaveOf[k] # NoTask => st[SaveOf[k]] # "none"
Handled(k) == Stopped(k) /\ Created(k)

(* `await stop_item_tasks(REDIS, document_id)` begins the handler.  A      *)
(* session sends nothing after it has disconnected.                        *)
Receive(k) ==
  /\ SidOf[k] \notin left
  /\ \A j \in Update : j < k => pc[j] # "idle"
  /\ crossed' = (crossed \/ \E j \in Update : j < k /\ ~Handled(j))
  /\ bare' = (bare \/ k \notin WithData)
  /\ ArriveStop(k, Doc)
  /\ UNCHANGED <<note, left, last>>

\* Mutant: the save is created before the others are stopped.
StartSaveFirst(k) ==
  LET t == SaveOf[k]
  IN /\ pc[k] = "queued" /\ t # NoTask /\ ~Created(k)
     /\ \A s \in Stopper : pc[s] # "loop"
     /\ st' = [st EXCEPT ![t] = "ready"]
     /\ tasks' = tasks \cup {t}
     /\ itemTasks' = [itemTasks EXCEPT ![Doc] = Append(@, t)]
     /\ ready' = Append(ready, <<"step", t>>)
     /\ last' = k
     /\ bare' = \E j \in Update \ WithData : pc[j] \notin {"idle", "returned"}
     /\ UNCHANGED <<cancel, phase, outcome, stopVars, note, left, crossed>>

(* After the update is stored and broadcast, `if data.get("data")`,        *)
(* create_task is called.  Nothing awaits in between if the author is      *)
(* alone, otherwise the broadcast does, so this is any later turn of the   *)
(* loop; create_task itself does not suspend.                              *)
StartSave(k) ==
  LET t == SaveOf[k]
  IN /\ Stopped(k) /\ t # NoTask /\ ~Created(k)
     /\ \A s \in Stopper : pc[s] # "loop"
     /\ st' = [st EXCEPT ![t] = "ready"]
     /\ tasks' = tasks \cup {t}
     /\ itemTasks' = [itemTasks EXCEPT ![Doc] = Append(@, t)]
     /\ ready' = Append(ready, <<"step", t>>)
     /\ last' = k
     /\ bare' = \E j \in Update \ WithData : pc[j] \notin {"idle", "returned"}
     /\ UNCHANGED <<cancel, phase, outcome, stopVars, note, left, crossed>>

\* Mutant: the sleeps differ in length.
SleepEndsAnyTime(t) == ArriveIO(t) /\ UNCHANGED noteVars

(* The sleeps are equally long, so their timers fire in the order in which *)
(* the saves were created.                                                 *)
SleepEnds(t) ==
  /\ LET list == itemTasks[Doc]
     IN \A i, j \in DOMAIN list : i < j /\ list[j] = t => st[list[i]] # "waiting"
  /\ ArriveIO(t)
  /\ UNCHANGED noteVars

(* The save sleeps, or it wakes up and writes what its update brought; it  *)
(* raises when the session of its author is no longer in SESSION_POOL.     *)
SaveStep(t) ==
  LET k == UpdateOf(t)
      author == SidOf[k]
  IN /\ StepNormally(t)
     /\ \/ /\ phase[t] = "new"
           /\ UNCHANGED note
        \/ /\ phase[t] = "body" /\ author \notin left
           /\ outcome'[t] = "ok"
           /\ note' = k
        \/ /\ phase[t] = "body" /\ author \in left
           /\ outcome'[t] = "error"
           /\ UNCHANGED note
     /\ UNCHANGED <<left, last, crossed, bare>>

Leave(s) ==
  /\ s \notin left
  /\ left' = left \cup {s}
  /\ UNCHANGED <<vars, note, last, crossed, bare>>

Registry ==
  /\ \/ \E t \in Saves : Reap(t) \/ CleanupTask(t) \/ StepCancelled(t)
     \/ \E k \in Update : StopCallback(k)
  /\ UNCHANGED noteVars

NotesNext ==
  \/ \E k \in Update : Receive(k) \/ StartSave(k)
  \/ \E t \in Saves : SleepEnds(t) \/ SaveStep(t)
  \/ \E s \in Sids : Leave(s)
  \/ Registry

NotesSpec == NotesInit /\ [][NotesNext]_allVars

NotesFairness ==
  /\ WF_allVars(Registry)
  /\ \A k \in Update : WF_allVars(StartSave(k))
  /\ \A t \in Saves : WF_allVars(SleepEnds(t)) /\ WF_allVars(SaveStep(t))

NotesFairSpec == NotesSpec /\ NotesFairness

-----------------------------------------------------------------------------
(* Properties.                                                             *)

Settled ==
  /\ ready = <<>>
  /\ \A k \in Update : pc[k] = "idle" \/ Handled(k)
  /\ \A t \in Saves : st[t] \in {"none", "done"}

Received == {k \in Update : pc[k] # "idle"}

(* If every update waits for the one before, no edit is lost: when the     *)
(* editors pause, the database has the content of the last update, unless  *)
(* its author has disconnected too early, or it came without content.      *)
LatestSaved ==
  Settled /\ ~crossed => \A k \in Received \cap WithData :
    (\A j \in Received : j <= k) => note = k \/ SidOf[k] \in left

(* What remains of this when handlers overlap and stop each other's saves: *)
(* the save that was created last is written, and never overwritten by an  *)
(* older one that survived.  But a page that finds the log of the server   *)
(* empty sends what it shows without content for the database, and that    *)
(* update stops the save of an edit without starting another.              *)
LastCreatedSaved == Settled /\ last # 0 /\ ~bare => note = last \/ SidOf[last] \in left

(* Editing does not keep the content out of the database for ever.         *)
SomethingSaved == last # 0 ~> note # 0 \/ left # {} \/ bare
=============================================================================
