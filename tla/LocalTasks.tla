----------------------------- MODULE LocalTasks -----------------------------
(***************************************************************************)
(* tasks.py without Redis: one process, one asyncio event loop, the two    *)
(* module dictionaries `tasks' and `item_tasks'.                           *)
(*                                                                         *)
(* The loop runs one callback at a time to its next suspension point.      *)
(* `ready' is the loop's queue of scheduled callbacks, which asyncio runs  *)
(* in the order they were scheduled; `cpu' names a stop request that is in *)
(* the middle of its loop and has not suspended.  Everything that arrives  *)
(* from outside (a request, a task whose I/O completes) may run between    *)
(* two callbacks, never inside one.                                        *)
(***************************************************************************)
EXTENDS Naturals, Sequences, SequencesExt

CONSTANTS
  Task,      \* task identifiers
  Item,      \* chat ids and document ids
  Stopper,   \* concurrent requests that stop tasks
  None

ASSUME NoneAssumption == None \notin Task \cup Item \cup Stopper
ASSUME StopperAssumption == IsFiniteSet(Stopper)

VARIABLES
  status,     \* [Task -> life cycle of the asyncio.Task]
  outcome,    \* [Task -> how it ended]
  itemOf,     \* [Task -> the id create_task was given]
  tasks,      \* keys of the dictionary `tasks'
  itemTasks,  \* item_tasks; an absent key is the empty list
  ready,      \* the event loop's queue of scheduled callbacks
  cpu,        \* stop request running without having suspended, or None
  stopper     \* [Stopper -> the state of the request]

vars == <<status, outcome, itemOf, tasks, itemTasks, ready, cpu, stopper>>

Status  == {"new", "running", "cancelling", "done"}
Outcome == {"none", "returned", "raised", "cancelled"}
Handle  == [kind : {"callback", "cleanup"}, task : Task]
             \cup [kind : {"wakeup"}, stopper : Stopper]

StopperState ==
  [ pc       : {"idle", "step", "await"},
    item     : Item \cup {None},   \* None: stop_task was called directly
    index    : Nat,                \* next position of the for loop, from 0
    attached : BOOLEAN,            \* the list iterated is still item_tasks[item]
    task     : Task \cup {None},   \* argument of the current stop_task
    result   : {"none", "ok", "failed", "raised"},
    listed   : SUBSET Task ]       \* history: tasks listed when the call began

IdleStopper ==
  [pc |-> "idle", item |-> None, index |-> 0, attached |-> FALSE,
   task |-> None, result |-> "none", listed |-> {}]

\* The domains of the variables, for every state the event loop reaches.
TypeOK ==
  /\ status \in [Task -> Status]
  /\ outcome \in [Task -> Outcome]
  /\ itemOf \in [Task -> Item \cup {None}]
  /\ tasks \in SUBSET Task
  /\ itemTasks \in [Item -> Seq(Task)]
  /\ ready \in Seq(Handle)
  /\ cpu \in Stopper \cup {None}
  /\ stopper \in [Stopper -> StopperState]

Init ==
  /\ status = [t \in Task |-> "new"]
  /\ outcome = [t \in Task |-> "none"]
  /\ itemOf = [t \in Task |-> None]
  /\ tasks = {}
  /\ itemTasks = [i \in Item |-> << >>]
  /\ ready = << >>
  /\ cpu = None
  /\ stopper = [s \in Stopper |-> IdleStopper]

Live(t) == status[t] \in {"running", "cancelling"}

Waiters(t) == {s \in Stopper : stopper[s].pc = "await" /\ stopper[s].task = t}

-----------------------------------------------------------------------------
(* Creation and completion of tasks                                        *)

\* Mutant of CreateTask: the list of a busy item is overwritten, not extended.
CreateTaskOverwriting(t, i) ==
  /\ cpu = None
  /\ status[t] = "new"
  /\ status' = [status EXCEPT ![t] = "running"]
  /\ itemOf' = [itemOf EXCEPT ![t] = i]
  /\ tasks' = tasks \cup {t}
  /\ itemTasks' = [itemTasks EXCEPT ![i] = <<t>>]
  /\ UNCHANGED <<outcome, ready, cpu, stopper>>

\* create_task: the coroutine is scheduled and both dictionaries are filled
\* before the first suspension.
CreateTask(t, i) ==
  /\ cpu = None
  /\ status[t] = "new"
  /\ status' = [status EXCEPT ![t] = "running"]
  /\ itemOf' = [itemOf EXCEPT ![t] = i]
  /\ tasks' = tasks \cup {t}
  /\ itemTasks' = [itemTasks EXCEPT ![i] = Append(@, t)]
  /\ UNCHANGED <<outcome, ready, cpu, stopper>>

\* A task may end in any way; being cancelled needs a request for it, and a
\* cancelled coroutine may still swallow the cancellation or fail.
PossibleOutcomes(t) ==
  IF status[t] = "cancelling" THEN {"returned", "raised", "cancelled"}
                              ELSE {"returned", "raised"}

\* Mutant of Finish: whoever awaits the task is not woken.
FinishWithoutWakeup(t) ==
  /\ cpu = None
  /\ Live(t)
  /\ \E o \in PossibleOutcomes(t) : outcome' = [outcome EXCEPT ![t] = o]
  /\ status' = [status EXCEPT ![t] = "done"]
  /\ ready' = Append(ready, [kind |-> "callback", task |-> t])
  /\ UNCHANGED <<itemOf, tasks, itemTasks, cpu, stopper>>

\* The coroutine ends: asyncio schedules the task's callbacks in the order
\* they were added, first the cleanup lambda, then whoever awaits the task.
Finish(t) ==
  /\ cpu = None
  /\ Live(t)
  /\ \E o \in PossibleOutcomes(t) : outcome' = [outcome EXCEPT ![t] = o]
  /\ status' = [status EXCEPT ![t] = "done"]
  /\ ready' = ready \o <<[kind |-> "callback", task |-> t]>>
                    \o SetToSeq({[kind |-> "wakeup", stopper |-> s] : s \in Waiters(t)})
  /\ UNCHANGED <<itemOf, tasks, itemTasks, cpu, stopper>>

\* The done callback only schedules cleanup_task.
RunCallback(t) ==
  /\ cpu = None
  /\ ready # << >> /\ Head(ready) = [kind |-> "callback", task |-> t]
  /\ ready' = Append(Tail(ready), [kind |-> "cleanup", task |-> t])
  /\ UNCHANGED <<status, outcome, itemOf, tasks, itemTasks, cpu, stopper>>

\* Mutant of Cleanup: the item's list is left alone.
CleanupTasksOnly(t) ==
  /\ cpu = None
  /\ ready # << >> /\ Head(ready) = [kind |-> "cleanup", task |-> t]
  /\ ready' = Tail(ready)
  /\ tasks' = tasks \ {t}
  /\ UNCHANGED <<status, outcome, itemOf, itemTasks, cpu, stopper>>

\* cleanup_task: forget the task; a list that becomes empty is dropped from
\* item_tasks, so loops over that list object no longer see later additions.
Cleanup(t) ==
  LET i == itemOf[t] IN
  /\ cpu = None
  /\ ready # << >> /\ Head(ready) = [kind |-> "cleanup", task |-> t]
  /\ ready' = Tail(ready)
  /\ tasks' = tasks \ {t}
  /\ itemTasks' = [itemTasks EXCEPT ![i] = RemoveFirst(@, t)]
  /\ stopper' = [s \in Stopper |->
                   [stopper[s] EXCEPT !.attached =
                      @ /\ ~(stopper[s].item = i /\ itemTasks'[i] = << >>)]]
  /\ UNCHANGED <<status, outcome, itemOf, cpu>>

-----------------------------------------------------------------------------
(* stop_task and stop_item_tasks                                           *)

\* The call returns or raises: the request is over and has its answer.
Answer(s, r) ==
  /\ stopper' = [stopper EXCEPT ![s] =
                   [stopper[s] EXCEPT !.pc = "idle", !.result = r, !.task = None, !.attached = FALSE]]
  /\ cpu' = None

\* A request arrives: POST /api/tasks/stop/{task_id}.
CallStopTask(s, t) ==
  /\ cpu = None
  /\ stopper[s].pc = "idle"
  /\ status[t] # "new"
  /\ stopper' = [stopper EXCEPT ![s] =
                   [IdleStopper EXCEPT !.pc = "step", !.task = t, !.listed = {t}]]
  /\ cpu' = s
  /\ UNCHANGED <<status, outcome, itemOf, tasks, itemTasks, ready>>

\* A request arrives: stop_item_tasks takes the list of item_tasks itself,
\* not a copy, and answers at once when there is none.
CallStopItemTasks(s, i) ==
  /\ cpu = None
  /\ stopper[s].pc = "idle"
  /\ IF itemTasks[i] = << >>
       THEN /\ stopper' = [stopper EXCEPT ![s] =
                             [IdleStopper EXCEPT !.item = i, !.result = "ok"]]
            /\ UNCHANGED cpu
       ELSE /\ stopper' = [stopper EXCEPT ![s] =
                             [IdleStopper EXCEPT !.pc = "step", !.item = i,
                                                 !.attached = TRUE,
                                                 !.listed = ToSet(itemTasks[i])]]
            /\ cpu' = s
  /\ UNCHANGED <<status, outcome, itemOf, tasks, itemTasks, ready>>

\* The list object the for loop of request s runs over.
LoopList(s) == IF stopper[s].attached THEN itemTasks[stopper[s].item] ELSE << >>

\* The for loop takes the next element of the list as it is now, or ends.
NextTask(s) ==
  /\ cpu = s
  /\ stopper[s].pc = "step" /\ stopper[s].item # None /\ stopper[s].task = None
  /\ IF stopper[s].index < Len(LoopList(s))
       THEN /\ stopper' = [stopper EXCEPT ![s] =
                             [stopper[s] EXCEPT !.task = LoopList(s)[stopper[s].index + 1],
                                                !.index = stopper[s].index + 1]]
            /\ UNCHANGED cpu
       ELSE Answer(s, "ok")
  /\ UNCHANGED <<status, outcome, itemOf, tasks, itemTasks, ready>>

\* stop_task has the result of the awaited task: an exception other than
\* CancelledError propagates; otherwise stop_task answers, and the loop of
\* stop_item_tasks goes on.
Resume(s, t) ==
  IF outcome[t] = "raised" THEN Answer(s, "raised")
  ELSE IF stopper[s].item = None THEN Answer(s, "ok")
  ELSE /\ stopper' = [stopper EXCEPT ![s] = [stopper[s] EXCEPT !.pc = "step", !.task = None]]
       /\ cpu' = s

\* stop_task on a task that another request has taken or cleanup removed.
StopMissing(s) ==
  /\ cpu = s
  /\ stopper[s].task # None /\ stopper[s].task \notin tasks
  /\ Answer(s, "failed")
  /\ UNCHANGED <<status, outcome, itemOf, tasks, itemTasks, ready>>

\* stop_task on a task that has ended and not been cleaned up: cancel() does
\* nothing and the await does not suspend.
StopEnded(s) ==
  LET t == stopper[s].task IN
  /\ cpu = s
  /\ t # None /\ t \in tasks /\ status[t] = "done"
  /\ tasks' = tasks \ {t}
  /\ Resume(s, t)
  /\ UNCHANGED <<status, outcome, itemOf, itemTasks, ready>>

\* Mutant of StopLive: the request answers without waiting for the task.
StopLiveAtOnce(s) ==
  LET t == stopper[s].task IN
  /\ cpu = s
  /\ t # None /\ t \in tasks /\ Live(t)
  /\ tasks' = tasks \ {t}
  /\ status' = [status EXCEPT ![t] = "cancelling"]
  /\ Resume(s, t)
  /\ UNCHANGED <<outcome, itemOf, itemTasks, ready>>

\* stop_task on a live task: take it, request its cancellation, suspend.
StopLive(s) ==
  LET t == stopper[s].task IN
  /\ cpu = s
  /\ t # None /\ t \in tasks /\ Live(t)
  /\ tasks' = tasks \ {t}
  /\ status' = [status EXCEPT ![t] = "cancelling"]
  /\ stopper' = [stopper EXCEPT ![s].pc = "await"]
  /\ cpu' = None
  /\ UNCHANGED <<outcome, itemOf, itemTasks, ready>>

\* The loop runs the wake-up of a request whose awaited task has ended.
Wakeup(s) ==
  /\ cpu = None
  /\ ready # << >> /\ Head(ready) = [kind |-> "wakeup", stopper |-> s]
  /\ ready' = Tail(ready)
  /\ Resume(s, stopper[s].task)
  /\ UNCHANGED <<status, outcome, itemOf, tasks, itemTasks>>

-----------------------------------------------------------------------------

\* The loop takes the first scheduled callback.
ServeReady ==
  \/ \E t \in Task : RunCallback(t) \/ Cleanup(t)
  \/ \E s \in Stopper : Wakeup(s)

\* The request that holds the loop goes on to its next suspension.
RunRequest ==
  \E s \in Stopper : NextTask(s) \/ StopMissing(s) \/ StopEnded(s) \/ StopLive(s)

Next ==
  \/ ServeReady
  \/ RunRequest
  \/ \E t \in Task : Finish(t)
  \/ \E t \in Task, i \in Item : CreateTask(t, i)
  \/ \E s \in Stopper, t \in Task : CallStopTask(s, t)
  \/ \E s \in Stopper, i \in Item : CallStopItemTasks(s, i)

Spec == Init /\ [][Next]_vars

\* A running request gets on; the loop serves its queue and gives a coroutine
\* its turn however busy other requests keep it (strong fairness, because
\* the loop is taken whenever another request runs).  A cancelled coroutine
\* ends, since every handler of CancelledError in the code runs to its end.
\* A task nobody stops may run for ever.
Fairness ==
  /\ WF_vars(RunRequest)
  /\ SF_vars(ServeReady)
  /\ \A t \in Task : SF_vars(status[t] = "cancelling" /\ Finish(t))

FairSpec == Spec /\ Fairness

-----------------------------------------------------------------------------
(* Properties                                                              *)

\* What /api/tasks/chat/{id} and has_active_tasks report is never too small:
\* each live task is in the list of its item, exactly once, and no other
\* item lists it, whatever stop requests and cleanups are under way.
LiveTasksListed ==
  \A t \in Task : Live(t) =>
    /\ \E k \in DOMAIN itemTasks[itemOf[t]] : itemTasks[itemOf[t]][k] = t
    /\ \A i \in Item : \A j, k \in DOMAIN itemTasks[i] :
         itemTasks[i][j] = t /\ itemTasks[i][k] = t => j = k /\ i = itemOf[t]

\* Once the loop has nothing left to run, neither dictionary keeps an ended
\* task: no chat stays marked active and no finished task leaks.
NothingLeftBehind ==
  ready = << >> /\ cpu = None =>
    /\ \A t \in tasks : Live(t)
    /\ \A i \in Item : \A t \in ToSet(itemTasks[i]) : Live(t)

\* stop_task answers "stopped" only after the task has really ended: a
\* client that was told so may start the next generation on the same chat.
StoppedMeansEnded ==
  \A s \in Stopper :
    stopper[s].pc = "idle" /\ stopper[s].result = "ok" /\ stopper[s].item = None
      => \A t \in stopper[s].listed : status[t] = "done"

\* "Stop all tasks associated with a specific item ID": when
\* stop_item_tasks reports success, every task it found listed has ended.
StopItemStopsAll ==
  \A s \in Stopper :
    stopper[s].pc = "idle" /\ stopper[s].result = "ok" /\ stopper[s].item # None
      => \A t \in stopper[s].listed : status[t] = "done"

\* Every stop request is answered.
StopsAreAnswered == \A s \in Stopper : stopper[s].pc # "idle" ~> stopper[s].pc = "idle"

\* The registry implements the promise of TaskRegistry.
Registry == INSTANCE TaskRegistry WITH
  alive    <- [i \in Item |-> {t \in Task : itemOf[t] = i /\ Live(t)}],
  reported <- [i \in Item |-> ToSet(itemTasks[i])]

RegistrySpec == Registry!Spec

=============================================================================
