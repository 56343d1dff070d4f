----------------------------- MODULE UsagePool -----------------------------
(***************************************************************************)
(* USAGE_POOL of backend/open_webui/socket/main.py: which sessions use     *)
(* which model.  A session that streams an answer sends "usage" every      *)
(* second; periodic_usage_pool_cleanup removes what has not been renewed.  *)
(* With Redis there is one pool and, by way of the lock of socket/utils.py *)
(* (RedisLock), one process that cleans it up.                             *)
(*                                                                         *)
(* RedisDict and RedisLock block the process that calls them.  Within a    *)
(* process, the body of the cleanup loop and the usage handler thus do not *)
(* interleave, but between processes they do, command by command.          *)
(*                                                                         *)
(* Time is discrete and relative: an entry has an age, the lock a time to  *)
(* live, a sleeping process a time to wait.  Ages are not told apart       *)
(* beyond Cap, so that time needs no bound.                                *)
(***************************************************************************)
EXTENDS Server, Naturals, FiniteSets

CONSTANTS
  Model,
  Free,      \* nobody holds the lock
  Dead,      \* a process that has died holds it
  Timeout,   \* TIMEOUT_DURATION
  LockTTL,   \* WEBSOCKET_REDIS_LOCK_TIMEOUT
  Stores,    \* where the pool may be: of {"memory", "Redis"}
  MaxCrash,  \* bound on crashes
  MaxPing    \* bound on "usage" events

MaxRetries == 2
Cap == 2 * Timeout + 1
Gone == Cap + 1    \* no entry
Age == 0..Gone

ASSUME UsageAssumption ==
  /\ Free \notin Instance /\ Dead \notin Instance /\ Free # Dead
  /\ Timeout \in Nat \ {0} /\ LockTTL \in Nat /\ LockTTL > Timeout
  /\ Stores \subseteq {"memory", "Redis"}
  /\ MaxCrash \in Nat /\ MaxPing \in Nat

VARIABLES
  store,     \* of Stores; it does not change
  usage,     \* of a model and a session: the age of the entry
  pinged,    \* history: the time since the session last reported the model, to a process
             \* that has not lost its pool since
  lock,      \* its owner
  ttl,       \* its time to live
  step,      \* of a process's cleanup: try, retry, renew, scan, models, sleep, release,
             \* delete, skipped, failed; or down
  attempt,   \* failed attempts to acquire the lock
  delay,     \* retry_delay
  wait,      \* time left to sleep
  snap,      \* what it read, without what has expired
  todo,      \* models it has yet to write
  ping,      \* a usage handler between its read and its write: {} or {<<session, model>>}
  seen,      \* what that handler read
  late,      \* history: time went on while a process had something to do
  pings, crashes

cleaner == <<step, attempt, delay, wait, snap, todo>>
reporter == <<ping, seen, late>>
lockVars == <<lock, ttl>>
running == <<usage, pinged, lockVars, cleaner, reporter, pings, crashes>>
usageVars == <<store, running>>

Entries == [Sid -> Age]
InRedis == store = "Redis"
InUse(m) == \E s \in Sid : usage[m][s] # Gone

UsageTypeOK ==
  /\ store \in Stores
  /\ usage \in [Model -> Entries] /\ pinged \in [Model -> Entries]
  /\ lock \in Instance \cup {Free, Dead} /\ ttl \in 0..LockTTL
  /\ step \in [Instance -> {"try", "retry", "renew", "scan", "models", "sleep", "release",
                          "delete", "skipped", "failed", "down"}]
  /\ attempt \in [Instance -> 0..MaxRetries]
  /\ delay \in [Instance -> 0..LockTTL]
  /\ wait \in [Instance -> 0..LockTTL]
  /\ snap \in [Instance -> [Model -> Entries]]
  /\ todo \in [Instance -> SUBSET Model]
  /\ ping \in [Instance -> SUBSET (Sid \X Model)]
  /\ seen \in [Instance -> Entries]
  /\ late \in BOOLEAN /\ pings \in 0..MaxPing /\ crashes \in 0..MaxCrash

Nothing == [m \in Model |-> [s \in Sid |-> Gone]]
\* Mutant: the retries are over before the lock has expired.
ShortDelays == {d \in 0..LockTTL : 2 * d <= LockTTL}
(* random.uniform(LOCK_TIMEOUT / 2, LOCK_TIMEOUT): two of them outlast it. *)
RetryDelays == {d \in 0..LockTTL : 2 * d >= LockTTL}

UsageInit ==
  /\ store \in Stores
  /\ usage = Nothing /\ pinged = Nothing
  /\ lock = Free /\ ttl = 0
  /\ step \in [Instance -> {"try", "down"}]  \* some may be started later
  /\ attempt = [i \in Instance |-> 0]
  /\ delay \in [Instance -> RetryDelays]
  /\ wait = [i \in Instance |-> 0]
  /\ snap = [i \in Instance |-> Nothing]
  /\ todo = [i \in Instance |-> {}]
  /\ ping = [i \in Instance |-> {}]
  /\ seen = [i \in Instance |-> [s \in Sid |-> Gone]]
  /\ late = FALSE /\ pings = 0 /\ crashes = 0

(* A process is in the middle of a handler or of the loop's body.          *)
InBody(i) == step[i] \in {"scan", "models", "release", "delete"}
Pinging(i) == ping[i] # {}
Due(i) == step[i] \in {"try", "renew"} \/ (step[i] \in {"retry", "sleep"} /\ wait[i] = 0)

StepTo(i, l) == step' = [step EXCEPT ![i] = l]

-----------------------------------------------------------------------------
(* RedisLock.  Without Redis all three functions return True.              *)

(* Mutant: without nx. *)
AquireAnyway(i, ok) ==
  \/ ~InRedis /\ ok /\ UNCHANGED lockVars
  \/ InRedis /\ ok /\ lock' = i /\ ttl' = LockTTL

(* set(nx=True, ex=timeout)                                                *)
AquireLock(i, ok) ==
  \/ /\ ~InRedis /\ ok /\ UNCHANGED lockVars
  \/ /\ InRedis /\ (ok <=> lock = Free)
     /\ lock' = IF ok THEN i ELSE lock
     /\ ttl' = IF ok THEN LockTTL ELSE ttl

(* set(xx=True, ex=timeout), whoever holds the lock                        *)
RenewLock(i, ok) ==
  \/ /\ ~InRedis /\ ok /\ UNCHANGED lockVars
  \/ /\ InRedis /\ (ok <=> lock # Free)
     /\ lock' = IF ok THEN i ELSE lock
     /\ ttl' = IF ok THEN LockTTL ELSE ttl

-----------------------------------------------------------------------------
(* periodic_usage_pool_cleanup                                             *)

TryLock(i) ==
  /\ step[i] = "try" \/ (step[i] = "retry" /\ wait[i] = 0)
  /\ ~Pinging(i)
  /\ \/ /\ AquireLock(i, TRUE)
        /\ StepTo(i, "renew")
        /\ UNCHANGED <<attempt, wait>>
     \/ /\ AquireLock(i, FALSE) /\ attempt[i] < MaxRetries
        /\ attempt' = [attempt EXCEPT ![i] = @ + 1]
        /\ wait' = [wait EXCEPT ![i] = delay[i]]
        /\ StepTo(i, "retry")
     \/ /\ AquireLock(i, FALSE) /\ attempt[i] = MaxRetries
        /\ StepTo(i, "skipped")
        /\ UNCHANGED <<attempt, wait>>
  /\ UNCHANGED <<usage, pinged, delay, snap, todo, reporter, pings, crashes>>

(* The next round of the loop; an exception if the lock is gone.           *)
Renew(i) ==
  /\ step[i] = "renew" \/ (step[i] = "sleep" /\ wait[i] = 0)
  /\ ~Pinging(i)
  /\ \/ RenewLock(i, TRUE) /\ StepTo(i, "scan")
     \/ RenewLock(i, FALSE) /\ StepTo(i, "release")
  /\ UNCHANGED <<usage, pinged, attempt, delay, wait, snap, todo, reporter, pings, crashes>>

(* Mutant: an entry lives one unit too long. *)
ScanLate(i) ==
  /\ step[i] = "scan"
  /\ snap' = [snap EXCEPT ![i] =
       [m \in Model |-> [s \in Sid |-> IF usage[m][s] > Timeout + 1 THEN Gone ELSE usage[m][s]]]]
  /\ todo' = [todo EXCEPT ![i] = {m \in Model : InUse(m)}]
  /\ StepTo(i, "models")
  /\ UNCHANGED <<usage, pinged, lockVars, attempt, delay, wait, reporter, pings, crashes>>

(* list(USAGE_POOL.items()), and what has expired of it                    *)
Scan(i) ==
  /\ step[i] = "scan"
  /\ snap' = [snap EXCEPT ![i] =
       [m \in Model |-> [s \in Sid |-> IF usage[m][s] > Timeout THEN Gone ELSE usage[m][s]]]]
  /\ todo' = [todo EXCEPT ![i] = {m \in Model : InUse(m)}]
  /\ StepTo(i, "models")
  /\ UNCHANGED <<usage, pinged, lockVars, attempt, delay, wait, reporter, pings, crashes>>

(* Deleting a model that another cleanup has deleted raises KeyError.      *)
WriteModel(i, m) ==
  /\ step[i] = "models" /\ m \in todo[i]
  /\ usage' = [usage EXCEPT ![m] = snap[i][m]]
  /\ \/ /\ snap[i][m] = Nothing[m] /\ ~InUse(m)
        /\ StepTo(i, "release")
        /\ UNCHANGED todo
     \/ /\ ~(snap[i][m] = Nothing[m] /\ ~InUse(m))
        /\ todo' = [todo EXCEPT ![i] = @ \ {m}]
        /\ UNCHANGED step
  /\ UNCHANGED <<pinged, lockVars, attempt, delay, wait, snap, reporter, pings, crashes>>

Sleep(i) ==
  /\ step[i] = "models" /\ todo[i] = {}
  /\ wait' = [wait EXCEPT ![i] = Timeout]
  /\ StepTo(i, "sleep")
  /\ UNCHANGED <<usage, pinged, lockVars, attempt, delay, snap, todo, reporter, pings, crashes>>

(* finally: release_func().  get, compare, delete                          *)
ReleaseLock(i) ==
  /\ step[i] = "release"
  /\ \/ lock = i /\ StepTo(i, "delete")
     \/ lock # i /\ StepTo(i, "failed")
  /\ UNCHANGED <<usage, pinged, lockVars, attempt, delay, wait, snap, todo, reporter, pings,
                 crashes>>

DeleteLock(i) ==
  /\ step[i] = "delete"
  /\ lock' = Free /\ ttl' = 0
  /\ StepTo(i, "failed")
  /\ UNCHANGED <<usage, pinged, attempt, delay, wait, snap, todo, reporter, pings, crashes>>

-----------------------------------------------------------------------------
(* usage: the entries of the model are read, then written with the new     *)
(* one.  A report that finds the model in the pool and then no longer      *)
(* raises KeyError: it is as if it had not been sent.                      *)

UsageRead(i, s, m) ==
  /\ Home[s] = i /\ step[i] # "down" /\ ~InBody(i) /\ ~Pinging(i)
  /\ pings < MaxPing /\ pings' = pings + 1
  /\ ping' = [ping EXCEPT ![i] = {<<s, m>>}]
  /\ seen' = [seen EXCEPT ![i] = usage[m]]
  /\ UNCHANGED <<usage, pinged, lockVars, cleaner, late, crashes>>

UsageWrite(i, s, m) ==
  /\ ping[i] = {<<s, m>>}
  /\ usage' = [usage EXCEPT ![m] = [seen[i] EXCEPT ![s] = 0]]
  /\ pinged' = [pinged EXCEPT ![m][s] = 0]
  /\ ping' = [ping EXCEPT ![i] = {}]
  /\ UNCHANGED <<lockVars, cleaner, seen, late, pings, crashes>>

-----------------------------------------------------------------------------
Older(a) == IF a < Cap THEN a + 1 ELSE a
Aged(e) == [m \in Model |-> [s \in Sid |-> Older(e[m][s])]]
Less(n) == IF n > 0 THEN n - 1 ELSE 0

(* A process may be stalled; that it does in time what is due is for the   *)
(* properties to suppose.                                                  *)
Tick ==
  /\ late' = (late \/ \E i \in Instance : Due(i) \/ InBody(i) \/ Pinging(i))
  /\ usage' = Aged(usage) /\ pinged' = Aged(pinged)
  /\ snap' = [i \in Instance |-> Aged(snap[i])]
  /\ seen' = [i \in Instance |-> [s \in Sid |-> Older(seen[i][s])]]
  /\ ttl' = Less(ttl)
  /\ lock' = IF ttl <= 1 THEN Free ELSE lock
  /\ wait' = [i \in Instance |-> Less(wait[i])]
  /\ UNCHANGED <<step, attempt, delay, todo, ping, pings, crashes>>

Die(i) ==
  /\ crashes < MaxCrash /\ step[i] # "down"
  /\ crashes' = crashes + 1
  /\ StepTo(i, "down")
  /\ lock' = IF lock = i THEN Dead ELSE lock
  /\ ping' = [ping EXCEPT ![i] = {}]
  /\ IF InRedis THEN UNCHANGED <<usage, pinged>> ELSE usage' = Nothing /\ pinged' = Nothing
  /\ UNCHANGED <<ttl, attempt, delay, wait, snap, todo, seen, late, pings>>

(* Every start has a lock id and a retry delay of its own.                 *)
Restart(i) ==
  /\ step[i] = "down"
  /\ StepTo(i, "try")
  /\ attempt' = [attempt EXCEPT ![i] = 0]
  /\ \E d \in RetryDelays : delay' = [delay EXCEPT ![i] = d]
  /\ UNCHANGED <<usage, pinged, lockVars, wait, snap, todo, reporter, pings, crashes>>

Cleanup(i) ==
  \/ TryLock(i) \/ Renew(i) \/ Scan(i) \/ Sleep(i) \/ ReleaseLock(i) \/ DeleteLock(i)
  \/ \E m \in Model : WriteModel(i, m)

Report(i) == \E s \in Sid, m \in Model : UsageRead(i, s, m) \/ UsageWrite(i, s, m)

UsageNext ==
  /\ \/ \E i \in Instance : Cleanup(i) \/ Report(i) \/ Die(i) \/ Restart(i)
     \/ Tick
  /\ UNCHANGED store

UsageSpec == UsageInit /\ [][UsageNext]_usageVars

(* Time passes, and a process that is not stalled for ever goes on.        *)
Fairness ==
  /\ WF_running(Tick)
  /\ \A i \in Instance :
       /\ WF_running(Cleanup(i))
       /\ WF_running(\E s \in Sid, m \in Model : UsageWrite(i, s, m))

FairSpec == UsageSpec /\ Fairness

(* In addition, something restarts a process that has died.                *)
RestartSpec == FairSpec /\ \A i \in Instance : WF_running(Restart(i))

-----------------------------------------------------------------------------
(* Properties.                                                             *)

Settled == \A i \in Instance : ~InBody(i) /\ ~Pinging(i)

(* "List models that are currently in use": on a process with a pool of    *)
(* its own that keeps up, a model is listed as long as a session has       *)
(* reported it within the timeout, and no longer than it takes the cleanup *)
(* to come by: no entry is older than twice the timeout.                   *)
ListedInTime ==
  ~late /\ ~InRedis => \A m \in Model, s \in Sid :
    /\ Settled /\ pinged[m][s] <= Timeout => usage[m][s] # Gone
    /\ usage[m][s] # Gone => usage[m][s] <= 2 * Timeout

(* As long as the processes keep up, one of them cleans up, and it holds   *)
(* the lock while it sleeps.                                               *)
Cleaning(i) == step[i] \in {"renew", "scan", "models", "sleep"}
OneCleaner ==
  \A i \in Instance : InRedis /\ ~late /\ Cleaning(i) =>
    lock = i /\ \A j \in Instance : Cleaning(j) => j = i

(* When the last report was long ago, no model is in use, unless a process *)
(* has been stalled.                                                       *)
Drains == <>[](late \/ \A m \in Model : ~InUse(m))
=============================================================================
