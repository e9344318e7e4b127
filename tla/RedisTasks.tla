----------------------------- MODULE RedisTasks -----------------------------
(***************************************************************************)
(* tasks.py with Redis: several server processes, one shared registry.     *)
(*                                                                         *)
(* Every process keeps its own dictionary `tasks'; the hash of all task    *)
(* ids and the set of task ids of each item live in Redis, and a stop      *)
(* request reaches the process that owns the task over pub/sub.  A step is *)
(* one Redis command (or one MULTI pipeline) with the code that runs up to *)
(* the next await.  Commands of different processes, and of different      *)
(* coroutines of one process, interleave freely.                           *)
(***************************************************************************)
EXTENDS Naturals, FiniteSets

CONSTANTS
  Task,        \* task identifiers
  Item,        \* chat ids and document ids
  Node,        \* server processes
  Stopper,     \* concurrent requests that stop tasks
  MaxCrashes,  \* bound on the number of process crashes
  None

ASSUME NoneAssumption == None \notin Task \cup Item \cup Node \cup Stopper
ASSUME DisjointAssumption == Task \cap Stopper = {}
ASSUME CrashAssumption == MaxCrashes \in Nat

VARIABLES
  run,       \* [Task -> life cycle of the coroutine]
  owner,     \* [Task -> process that created it]
  itemOf,    \* [Task -> item it was created for]
  saver,     \* [Task -> progress of create_task's redis_save_task]
  local,     \* [Node -> keys of that process's dictionary `tasks']
  hash,      \* fields of the Redis hash of tasks
  itemSet,   \* [Item -> members of the Redis set of the item]
  inbox,     \* [Node -> stop commands published and not yet handled there]
  cleanup,   \* [Task \cup Stopper -> progress of a redis_cleanup_task call]
  stopper,   \* [Stopper -> the state of the request]
  up,        \* [Node -> the process is running]
  crashes,   \* number of crashes so far
  requested  \* history: tasks a stop command was published for

vars == <<run, owner, itemOf, saver, local, hash, itemSet, inbox, cleanup,
          stopper, up, crashes, requested>>

\* The owner of a task cleans up under the task's name, a request under its own.
Cleaner == Task \cup Stopper

CleanupState ==
  [ pc   : {"idle", "exec", "card", "delete"},
    task : Task \cup {None},
    item : Item \cup {None} ]   \* None: hget found no entry

StopperState ==
  [ pc       : {"idle", "step", "hget", "publish", "clean"},
    node     : Node \cup {None},
    task     : Task \cup {None},   \* argument of the current stop_task
    found    : Item \cup {None},   \* what its hget returned
    todo     : SUBSET Task,        \* rest of the snapshot stop_item_tasks iterates
    listed   : SUBSET Task,        \* history: tasks the request was to stop
    answered : BOOLEAN ]

NoCleanup == [pc |-> "idle", task |-> None, item |-> None]

IdleStopper ==
  [pc |-> "idle", node |-> None, task |-> None, found |-> None,
   todo |-> {}, listed |-> {}, answered |-> FALSE]

\* The domains of the variables, in every process and in Redis.
TypeOK ==
  /\ run \in [Task -> {"new", "running", "cancelling", "done", "lost"}]
  /\ owner \in [Task -> Node \cup {None}]
  /\ itemOf \in [Task -> Item \cup {None}]
  /\ saver \in [Task -> {"idle", "pending", "done", "lost"}]
  /\ local \in [Node -> SUBSET Task]
  /\ hash \in SUBSET Task
  /\ itemSet \in [Item -> SUBSET Task]
  /\ inbox \in [Node -> SUBSET Task]
  /\ cleanup \in [Cleaner -> CleanupState]
  /\ stopper \in [Stopper -> StopperState]
  /\ up \in [Node -> BOOLEAN]
  /\ crashes \in 0..MaxCrashes
  /\ requested \in SUBSET Task

Init ==
  /\ run = [t \in Task |-> "new"]
  /\ owner = [t \in Task |-> None]
  /\ itemOf = [t \in Task |-> None]
  /\ saver = [t \in Task |-> "idle"]
  /\ local = [n \in Node |-> {}]
  /\ hash = {}
  /\ itemSet = [i \in Item |-> {}]
  /\ inbox = [n \in Node |-> {}]
  /\ cleanup = [c \in Cleaner |-> NoCleanup]
  /\ stopper = [s \in Stopper |-> IdleStopper]
  /\ up = [n \in Node |-> TRUE]
  /\ crashes = 0
  /\ requested = {}

redis   == <<hash, itemSet>>
created == <<owner, itemOf>>
faults  == <<up, crashes>>

-----------------------------------------------------------------------------
(* Tasks                                                                   *)

\* create_task up to its await: the coroutine is scheduled and entered into
\* the process's dictionary; the Redis entries are still to be written.
CreateTask(t, i, n) ==
  /\ up[n]
  /\ run[t] = "new"
  /\ run' = [run EXCEPT ![t] = "running"]
  /\ owner' = [owner EXCEPT ![t] = n]
  /\ itemOf' = [itemOf EXCEPT ![t] = i]
  /\ saver' = [saver EXCEPT ![t] = "pending"]
  /\ local' = [local EXCEPT ![n] = @ \cup {t}]
  /\ UNCHANGED <<redis, inbox, cleanup, stopper, faults, requested>>

\* redis_save_task: HSET and SADD in one MULTI.
SaveTask(t) ==
  /\ saver[t] = "pending"
  /\ saver' = [saver EXCEPT ![t] = "done"]
  /\ hash' = hash \cup {t}
  /\ itemSet' = [itemSet EXCEPT ![itemOf[t]] = @ \cup {t}]
  /\ UNCHANGED <<run, created, local, inbox, cleanup, stopper, faults, requested>>

\* Mutant of Finish: a cancelled coroutine goes on.
FinishUncancelled(t) ==
  /\ run[t] = "running"
  /\ run' = [run EXCEPT ![t] = "done"]
  /\ cleanup' = [cleanup EXCEPT ![t] = [pc |-> "exec", task |-> t, item |-> itemOf[t]]]
  /\ UNCHANGED <<created, saver, local, redis, inbox, stopper, faults, requested>>

\* Mutant of Finish: without the done callback.
FinishSilently(t) ==
  /\ run[t] \in {"running", "cancelling"}
  /\ run' = [run EXCEPT ![t] = "done"]
  /\ UNCHANGED <<created, saver, local, redis, inbox, cleanup, stopper, faults, requested>>

\* The coroutine ends, by itself or cancelled; its done callback starts
\* cleanup_task.
Finish(t) ==
  /\ run[t] \in {"running", "cancelling"}
  /\ run' = [run EXCEPT ![t] = "done"]
  /\ cleanup' = [cleanup EXCEPT ![t] = [pc |-> "exec", task |-> t, item |-> itemOf[t]]]
  /\ UNCHANGED <<created, saver, local, redis, inbox, stopper, faults, requested>>

\* redis_task_command_listener handles one command of its subscription.
\* Commands are idempotent and may be handled in any order.
Listen(n, t) ==
  /\ t \in inbox[n]
  /\ inbox' = [inbox EXCEPT ![n] = @ \ {t}]
  /\ run' = IF t \in local[n] /\ run[t] = "running"
              THEN [run EXCEPT ![t] = "cancelling"] ELSE run
  /\ UNCHANGED <<created, saver, local, redis, cleanup, stopper, faults, requested>>

-----------------------------------------------------------------------------
(* redis_cleanup_task                                                      *)

\* The call returns: the owner pops its dictionary entry, a stop request goes
\* on with its next task.
CleanupReturns(c) ==
  /\ cleanup' = [cleanup EXCEPT ![c] = NoCleanup]
  /\ IF c \in Task
       THEN /\ local' = [local EXCEPT ![owner[c]] = @ \ {c}]
            /\ UNCHANGED stopper
       ELSE /\ stopper' = [stopper EXCEPT ![c] =
                             [stopper[c] EXCEPT !.pc = "step", !.task = None]]
            /\ UNCHANGED local

\* Mutant of CleanupExec: DEL of the item's set in place of SREM.
CleanupExecSet(c) ==
  LET t == cleanup[c].task  i == cleanup[c].item IN
  /\ cleanup[c].pc = "exec"
  /\ hash' = hash \ {t}
  /\ IF i # None
       THEN /\ itemSet' = [itemSet EXCEPT ![i] = {}]
            /\ cleanup' = [cleanup EXCEPT ![c] = [cleanup[c] EXCEPT !.pc = "card"]]
            /\ UNCHANGED <<local, stopper>>
       ELSE CleanupReturns(c) /\ UNCHANGED itemSet
  /\ UNCHANGED <<run, created, saver, inbox, faults, requested>>

\* HDEL, and SREM when the item is known, in one MULTI.
CleanupExec(c) ==
  LET t == cleanup[c].task  i == cleanup[c].item IN
  /\ cleanup[c].pc = "exec"
  /\ hash' = hash \ {t}
  /\ IF i # None
       THEN /\ itemSet' = [itemSet EXCEPT ![i] = @ \ {t}]
            /\ cleanup' = [cleanup EXCEPT ![c] = [cleanup[c] EXCEPT !.pc = "card"]]
            /\ UNCHANGED <<local, stopper>>
       ELSE CleanupReturns(c) /\ UNCHANGED itemSet
  /\ UNCHANGED <<run, created, saver, inbox, faults, requested>>

\* SCARD: the set is deleted, in a later command, if it is empty now.
CleanupCard(c) ==
  /\ cleanup[c].pc = "card"
  /\ IF itemSet[cleanup[c].item] = {}
       THEN /\ cleanup' = [cleanup EXCEPT ![c] = [cleanup[c] EXCEPT !.pc = "delete"]]
            /\ UNCHANGED <<local, stopper>>
       ELSE CleanupReturns(c)
  /\ UNCHANGED <<run, created, saver, redis, inbox, faults, requested>>

\* DELETE of the set, whatever it holds by now.
CleanupDelete(c) ==
  /\ cleanup[c].pc = "delete"
  /\ itemSet' = [itemSet EXCEPT ![cleanup[c].item] = {}]
  /\ CleanupReturns(c)
  /\ UNCHANGED <<run, created, saver, hash, inbox, faults, requested>>

-----------------------------------------------------------------------------
(* stop_task and stop_item_tasks                                           *)

\* A request to stop a task whose id a client has been given, which is after
\* create_task returned.
CallStopTask(s, n, t) ==
  /\ up[n]
  /\ stopper[s].pc = "idle"
  /\ saver[t] = "done"
  /\ stopper' = [stopper EXCEPT ![s] =
                   [IdleStopper EXCEPT !.pc = "hget", !.node = n, !.task = t, !.listed = {t}]]
  /\ UNCHANGED <<run, created, saver, local, redis, inbox, cleanup, faults, requested>>

\* stop_item_tasks takes a snapshot of the set with SMEMBERS.
CallStopItemTasks(s, n, i) ==
  /\ up[n]
  /\ stopper[s].pc = "idle"
  /\ itemSet[i] # {}
  /\ stopper' = [stopper EXCEPT ![s] =
                   [IdleStopper EXCEPT !.pc = "step", !.node = n,
                                       !.todo = itemSet[i], !.listed = itemSet[i]]]
  /\ UNCHANGED <<run, created, saver, local, redis, inbox, cleanup, faults, requested>>

\* The loop of stop_item_tasks goes on with some task of the snapshot.
NextTask(s) ==
  /\ stopper[s].pc = "step"
  /\ \E t \in stopper[s].todo :
       stopper' = [stopper EXCEPT ![s] =
                     [stopper[s] EXCEPT !.pc = "hget", !.task = t, !.todo = stopper[s].todo \ {t}]]
  /\ UNCHANGED <<run, created, saver, local, redis, inbox, cleanup, faults, requested>>

Answer(s) ==
  /\ stopper[s].pc = "step" /\ stopper[s].todo = {}
  /\ stopper' = [stopper EXCEPT ![s] =
                   [stopper[s] EXCEPT !.pc = "idle", !.answered = TRUE]]
  /\ UNCHANGED <<run, created, saver, local, redis, inbox, cleanup, faults, requested>>

\* stop_task: HGET of the task's item.
StopLookup(s) ==
  LET t == stopper[s].task IN
  /\ stopper[s].pc = "hget"
  /\ stopper' = [stopper EXCEPT ![s] =
                   [stopper[s] EXCEPT !.pc = "publish",
                                      !.found = IF t \in hash THEN itemOf[t] ELSE None]]
  /\ UNCHANGED <<run, created, saver, local, redis, inbox, cleanup, faults, requested>>

\* Mutant of StopPublish: the entries are left to the owner's cleanup.
StopPublishOnly(s) ==
  LET t == stopper[s].task IN
  /\ stopper[s].pc = "publish"
  /\ inbox' = [n \in Node |-> IF up[n] THEN inbox[n] \cup {t} ELSE inbox[n]]
  /\ requested' = requested \cup {t}
  /\ stopper' = [stopper EXCEPT ![s] = [stopper[s] EXCEPT !.pc = "step", !.task = None]]
  /\ UNCHANGED <<run, created, saver, local, redis, cleanup, faults>>

\* PUBLISH reaches every process that is up; then stop_task cleans up itself.
StopPublish(s) ==
  LET t == stopper[s].task IN
  /\ stopper[s].pc = "publish"
  /\ inbox' = [n \in Node |-> IF up[n] THEN inbox[n] \cup {t} ELSE inbox[n]]
  /\ requested' = requested \cup {t}
  /\ cleanup' = [cleanup EXCEPT ![s] =
                   [pc |-> "exec", task |-> t, item |-> stopper[s].found]]
  /\ stopper' = [stopper EXCEPT ![s] = [stopper[s] EXCEPT !.pc = "clean"]]
  /\ UNCHANGED <<run, created, saver, local, redis, faults>>

-----------------------------------------------------------------------------
(* Crashes                                                                 *)

\* The coroutines, dictionaries, pending commands and requests of the process
\* are gone; Redis keeps what was written.
Crash(n) ==
  LET mine == {t \in Task : owner[t] = n}
      hers == {s \in Stopper : stopper[s].node = n /\ stopper[s].pc # "idle"} IN
  /\ up[n] /\ crashes < MaxCrashes
  /\ crashes' = crashes + 1
  /\ up' = [up EXCEPT ![n] = FALSE]
  /\ run' = [t \in Task |-> IF t \in mine /\ run[t] \in {"running", "cancelling"}
                              THEN "lost" ELSE run[t]]
  /\ saver' = [t \in Task |-> IF t \in mine /\ saver[t] = "pending" THEN "lost" ELSE saver[t]]
  /\ local' = [local EXCEPT ![n] = {}]
  /\ inbox' = [inbox EXCEPT ![n] = {}]
  /\ cleanup' = [c \in Cleaner |-> IF c \in mine \cup hers THEN NoCleanup ELSE cleanup[c]]
  /\ stopper' = [s \in Stopper |-> IF s \in hers THEN IdleStopper ELSE stopper[s]]
  /\ UNCHANGED <<created, redis, requested>>

\* A new process takes its place, subscribed before it serves requests.
Restart(n) ==
  /\ ~up[n]
  /\ up' = [up EXCEPT ![n] = TRUE]
  /\ UNCHANGED <<run, created, saver, local, redis, inbox, cleanup, stopper, crashes, requested>>

-----------------------------------------------------------------------------

CleanupStep(c) == CleanupExec(c) \/ CleanupCard(c) \/ CleanupDelete(c)

StopStep(s) == NextTask(s) \/ Answer(s) \/ StopLookup(s) \/ StopPublish(s)

Next ==
  \/ \E t \in Task, i \in Item, n \in Node : CreateTask(t, i, n)
  \/ \E t \in Task : SaveTask(t) \/ Finish(t)
  \/ \E n \in Node, t \in Task : Listen(n, t)
  \/ \E c \in Cleaner : CleanupStep(c)
  \/ \E s \in Stopper, n \in Node, t \in Task : CallStopTask(s, n, t)
  \/ \E s \in Stopper, n \in Node, i \in Item : CallStopItemTasks(s, n, i)
  \/ \E s \in Stopper : StopStep(s)
  \/ \E n \in Node : Crash(n) \/ Restart(n)

Spec == Init /\ [][Next]_vars

\* Commands sent to Redis are executed, requests go on, each subscription is
\* read, and a cancelled coroutine ends.  A task nobody stops may run for ever,
\* and a crashed process may stay down.
Fairness ==
  /\ \A t \in Task : WF_vars(SaveTask(t))
  /\ \A t \in Task : WF_vars(run[t] = "cancelling" /\ Finish(t))
  /\ \A n \in Node, t \in Task : WF_vars(Listen(n, t))
  /\ \A c \in Cleaner : WF_vars(CleanupStep(c))
  /\ \A s \in Stopper : WF_vars(StopStep(s))

FairSpec == Spec /\ Fairness

-----------------------------------------------------------------------------
(* Properties                                                              *)

\* A saved task that runs and was never asked to stop is in the hash, so the
\* admin's list of tasks and stop_task's lookup miss none.
RunningIsInHash ==
  \A t \in Task : run[t] = "running" /\ saver[t] = "done" /\ t \notin requested => t \in hash

\* Every member of an item's set still has its hash entry and belongs to the
\* item.  Without the entry stop_task's HGET finds no item, the SREM is left
\* out, and the item would look active for ever.
MembersHaveEntries ==
  \A i \in Item : \A t \in itemSet[i] : t \in hash /\ itemOf[t] = i

\* A task that runs although its entry is gone (nobody can list it or find it
\* again) has its stop command under way to the process that owns it.
NoOrphan ==
  \A t \in Task : run[t] = "running" /\ saver[t] = "done" /\ t \notin hash
                    => t \in inbox[owner[t]]

\* Once a stop request is answered, none of the tasks it was to stop is in
\* Redis any more, even if the process that owned them has crashed.
StopClears ==
  \A s \in Stopper : stopper[s].answered =>
    \A t \in stopper[s].listed : t \notin hash /\ \A i \in Item : t \notin itemSet[i]

\* A task asked to stop ends, or its process has crashed.
StopTakesEffect ==
  \A t \in Task : t \in requested ~> run[t] \in {"done", "lost"}

\* A saved task that runs and was never asked to stop is in the set of its item.
ActiveIsReported ==
  \A t \in Task : run[t] = "running" /\ saver[t] = "done" /\ t \notin requested
                    => t \in itemSet[itemOf[t]]

\* No set that is about to be deleted has got a member since it was counted.
NoLateDelete ==
  \A c \in Cleaner : cleanup[c].pc = "delete" => itemSet[cleanup[c].item] = {}

\* "Check if a chat has any active tasks": has_active_tasks misses a running
\* task only through the gap between SCARD and DELETE.  Whatever saves,
\* cleanups, stop requests and crashes do otherwise, while no set is filled in
\* that gap every active task is reported.
MissesOnlyByLateDeletes == []NoLateDelete => []ActiveIsReported

\* When every coroutine, save and cleanup is over, no item has a task left.
NoGhosts ==
  (\A t \in Task : /\ run[t] \in {"new", "done"}
                   /\ saver[t] \in {"idle", "done"}
                   /\ cleanup[t].pc = "idle")
    => \A i \in Item : itemSet[i] = {}

\* No coroutine ends before its entries are written, and no process crashes.
NoLateSave == crashes = 0 /\ \A t \in Task : saver[t] = "pending" => run[t] # "done"

\* "Check if a chat has any active tasks": a chat keeps showing a task that is
\* over only after a crash, or because the task ended before create_task had
\* saved it.  Without either, whatever stop requests and cleanups meet, nothing
\* is left behind.
GhostsOnlyByLateSaves == []NoLateSave => []NoGhosts

=============================================================================
