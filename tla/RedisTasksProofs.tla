-------------------------- MODULE RedisTasksProofs --------------------------
(***************************************************************************)
(* Proofs about RedisTasks, for every set of tasks, items, processes and   *)
(* requests and every number of crashes: what Redis knows of running tasks *)
(* and of those that are over, that an answered stop request leaves        *)
(* nothing of its tasks there, and that the gaps the properties name are   *)
(* the only ones through which a task is missed or a ghost left behind.    *)
(***************************************************************************)
EXTENDS RedisTasks, TLAPS

-----------------------------------------------------------------------------
(* The inductive invariant                                                 *)

\* A request that works on a task works on one whose entries were written, and
\* knows its item as long as the entries are there.
StopperInv ==
  \A s \in Stopper :
    /\ \A t \in stopper[s].todo : saver[t] = "done"
    /\ stopper[s].pc \in {"hget", "publish", "clean"} =>
         stopper[s].task \in Task /\ saver[stopper[s].task] = "done"
    /\ stopper[s].pc = "publish" =>
         IF stopper[s].found = None THEN stopper[s].task \notin hash
                                    ELSE stopper[s].found = itemOf[stopper[s].task]

\* The owner cleans up after the task has ended, a request after it has
\* published the stop command.
CleanupInv ==
  \A c \in Cleaner : cleanup[c].pc # "idle" =>
    LET t == cleanup[c].task IN
    /\ t \in Task
    /\ IF cleanup[c].item = None THEN t \notin hash ELSE cleanup[c].item = itemOf[t]
    /\ c \in Task => t = c /\ run[c] = "done" /\ cleanup[c].item # None
    /\ c \notin Task => saver[t] = "done" /\ t \in requested /\ stopper[c].pc = "clean"

\* A task has an item and an owner from its creation on, and an owner that is
\* up knows it until it has ended.
TaskInv ==
  \A t \in Task :
    /\ run[t] = "new" => saver[t] = "idle"
    /\ run[t] # "new" => itemOf[t] \in Item /\ owner[t] \in Node
    /\ run[t] \in {"running", "cancelling"} => up[owner[t]] /\ t \in local[owner[t]]

\* Only saved tasks have entries and can be asked to stop.
SavedInv ==
  /\ \A t \in hash \cup requested : saver[t] = "done"
  /\ MembersHaveEntries

\* A stop command is not lost before the task it is for is cancelled.
CommandInv ==
  \A t \in Task : run[t] = "running" /\ t \in requested => t \in inbox[owner[t]]

IInv ==
  /\ TypeOK
  /\ StopperInv
  /\ CleanupInv
  /\ TaskInv
  /\ SavedInv
  /\ CommandInv
  /\ RunningIsInHash

-----------------------------------------------------------------------------
(* Types                                                                   *)

LEMMA StopperUpdateType ==
  ASSUME NEW r \in StopperState
  PROVE  /\ \A p \in {"idle", "step", "hget", "publish", "clean"} :
              [r EXCEPT !.pc = p] \in StopperState
         /\ \A t \in Task \cup {None} : [r EXCEPT !.task = t] \in StopperState
         /\ \A i \in Item \cup {None} : [r EXCEPT !.found = i] \in StopperState
         /\ \A S \in SUBSET Task : [r EXCEPT !.todo = S] \in StopperState
         /\ \A b \in BOOLEAN : [r EXCEPT !.answered = b] \in StopperState
BY DEF StopperState

LEMMA CleanupUpdateType ==
  ASSUME NEW r \in CleanupState, NEW p \in {"idle", "exec", "card", "delete"}
  PROVE  [r EXCEPT !.pc = p] \in CleanupState
BY DEF CleanupState

LEMMA NoCleanupType == NoCleanup \in CleanupState
BY DEF NoCleanup, CleanupState

LEMMA IdleStopperType == IdleStopper \in StopperState
BY DEF IdleStopper, StopperState

\* The end of a cleanup changes one cleanup record and the local dictionary of
\* one process or the record of one request.
LEMMA CleanupReturnsType ==
  ASSUME TypeOK, NEW c \in Cleaner, CleanupReturns(c)
  PROVE  /\ cleanup' \in [Cleaner -> CleanupState]
         /\ local' \in [Node -> SUBSET Task]
         /\ stopper' \in [Stopper -> StopperState]
<1>1. cleanup' \in [Cleaner -> CleanupState]
  BY NoCleanupType DEF TypeOK, CleanupReturns
<1>2. CASE c \in Task
  BY <1>1, <1>2 DEF TypeOK, CleanupReturns
<1>3. CASE c \notin Task
  <2>. DEFINE new == [stopper[c] EXCEPT !.pc = "step", !.task = None]
  <2>1. c \in Stopper
    BY <1>3 DEF Cleaner
  <2>2. new \in StopperState
    <3>1. [stopper[c] EXCEPT !.pc = "step"] \in StopperState
      BY <2>1, StopperUpdateType DEF TypeOK
    <3>. QED BY <3>1, StopperUpdateType
  <2>3. stopper' = [stopper EXCEPT ![c] = new] /\ UNCHANGED local
    BY <1>3 DEF CleanupReturns
  <2>. HIDE DEF new
  <2>. QED BY <1>1, <2>1, <2>2, <2>3 DEF TypeOK
<1>. QED BY <1>2, <1>3

LEMMA TypeInit == Init => TypeOK
BY NoCleanupType, IdleStopperType, CrashAssumption DEF Init, TypeOK

LEMMA TypeStep == TypeOK /\ StopperInv /\ [Next]_vars => TypeOK'
<1>. SUFFICES ASSUME TypeOK, StopperInv, [Next]_vars PROVE TypeOK'
  OBVIOUS
<1>. USE DEF redis, created, faults
<1>1. ASSUME NEW t \in Task, NEW i \in Item, NEW n \in Node, CreateTask(t, i, n) PROVE TypeOK'
  BY <1>1 DEF TypeOK, CreateTask
<1>2. ASSUME NEW t \in Task, SaveTask(t) PROVE TypeOK'
  BY <1>2 DEF TypeOK, SaveTask
<1>3. ASSUME NEW t \in Task, Finish(t) PROVE TypeOK'
  <2>1. [pc |-> "exec", task |-> t, item |-> itemOf[t]] \in CleanupState
    BY DEF TypeOK, CleanupState
  <2>. QED BY <1>3, <2>1 DEF TypeOK, Finish
<1>4. ASSUME NEW n \in Node, NEW t \in Task, Listen(n, t) PROVE TypeOK'
  BY <1>4 DEF TypeOK, Listen
<1>5. ASSUME NEW c \in Cleaner, CleanupExec(c) PROVE TypeOK'
  <2>1. hash' \in SUBSET Task /\ itemSet' \in [Item -> SUBSET Task]
    BY <1>5 DEF TypeOK, CleanupExec
  <2>2. CASE cleanup[c].item # None
    <3>1. [cleanup[c] EXCEPT !.pc = "card"] \in CleanupState
      BY CleanupUpdateType DEF TypeOK
    <3>. QED BY <1>5, <2>1, <2>2, <3>1 DEF TypeOK, CleanupExec
  <2>3. CASE cleanup[c].item = None
    BY <1>5, <2>1, <2>3, CleanupReturnsType DEF TypeOK, CleanupExec
  <2>. QED BY <2>2, <2>3
<1>6. ASSUME NEW c \in Cleaner, CleanupCard(c) PROVE TypeOK'
  <2>1. CASE itemSet[cleanup[c].item] = {}
    <3>1. [cleanup[c] EXCEPT !.pc = "delete"] \in CleanupState
      BY CleanupUpdateType DEF TypeOK
    <3>. QED BY <1>6, <2>1, <3>1 DEF TypeOK, CleanupCard
  <2>2. CASE itemSet[cleanup[c].item] # {}
    BY <1>6, <2>2, CleanupReturnsType DEF TypeOK, CleanupCard
  <2>. QED BY <2>1, <2>2
<1>7. ASSUME NEW c \in Cleaner, CleanupDelete(c) PROVE TypeOK'
  BY <1>7, CleanupReturnsType DEF TypeOK, CleanupDelete
<1>8. ASSUME NEW s \in Stopper, NEW n \in Node, NEW t \in Task, CallStopTask(s, n, t) PROVE TypeOK'
  <2>. DEFINE new == [IdleStopper EXCEPT !.pc = "hget", !.node = n, !.task = t, !.listed = {t}]
  <2>1. new \in StopperState
    BY DEF IdleStopper, StopperState
  <2>2. stopper' = [stopper EXCEPT ![s] = new]
    BY <1>8 DEF CallStopTask
  <2>. HIDE DEF new
  <2>. QED BY <1>8, <2>1, <2>2 DEF TypeOK, CallStopTask
<1>9. ASSUME NEW s \in Stopper, NEW n \in Node, NEW i \in Item, CallStopItemTasks(s, n, i) PROVE TypeOK'
  <2>. DEFINE new == [IdleStopper EXCEPT !.pc = "step", !.node = n,
                                         !.todo = itemSet[i], !.listed = itemSet[i]]
  <2>1. new \in StopperState
    <3>1. itemSet[i] \in SUBSET Task
      BY DEF TypeOK
    <3>. QED BY <3>1 DEF IdleStopper, StopperState
  <2>2. stopper' = [stopper EXCEPT ![s] = new]
    BY <1>9 DEF CallStopItemTasks
  <2>. HIDE DEF new
  <2>. QED BY <1>9, <2>1, <2>2 DEF TypeOK, CallStopItemTasks
<1>10. ASSUME NEW s \in Stopper, NextTask(s) PROVE TypeOK'
  <2>1. PICK t \in stopper[s].todo : stopper' = [stopper EXCEPT ![s] =
          [stopper[s] EXCEPT !.pc = "hget", !.task = t, !.todo = stopper[s].todo \ {t}]]
    BY <1>10 DEF NextTask
  <2>. DEFINE new == [stopper[s] EXCEPT !.pc = "hget", !.task = t, !.todo = stopper[s].todo \ {t}]
  <2>2. new \in StopperState
    <3>1. stopper[s] \in StopperState
      BY DEF TypeOK
    <3>. QED BY <3>1 DEF StopperState
  <2>3. stopper' = [stopper EXCEPT ![s] = new]
    BY <2>1
  <2>. HIDE DEF new
  <2>. QED BY <1>10, <2>2, <2>3 DEF TypeOK, NextTask
<1>11. ASSUME NEW s \in Stopper, Answer(s) PROVE TypeOK'
  <2>. DEFINE new == [stopper[s] EXCEPT !.pc = "idle", !.answered = TRUE]
  <2>1. new \in StopperState
    BY DEF TypeOK, StopperState
  <2>2. stopper' = [stopper EXCEPT ![s] = new]
    BY <1>11 DEF Answer
  <2>. HIDE DEF new
  <2>. QED BY <1>11, <2>1, <2>2 DEF TypeOK, Answer
<1>12. ASSUME NEW s \in Stopper, StopLookup(s) PROVE TypeOK'
  <2>. DEFINE f == IF stopper[s].task \in hash THEN itemOf[stopper[s].task] ELSE None
              new == [stopper[s] EXCEPT !.pc = "publish", !.found = f]
  <2>1. f \in Item \cup {None}
    BY DEF TypeOK
  <2>. HIDE DEF f
  <2>2. new \in StopperState
    BY <2>1 DEF TypeOK, StopperState
  <2>3. stopper' = [stopper EXCEPT ![s] = new]
    BY <1>12 DEF StopLookup, f
  <2>. HIDE DEF new
  <2>. QED BY <1>12, <2>2, <2>3 DEF TypeOK, StopLookup
<1>13. ASSUME NEW s \in Stopper, StopPublish(s) PROVE TypeOK'
  <2>0. stopper[s].task \in Task
    BY <1>13 DEF StopperInv, StopPublish
  <2>1. [pc |-> "exec", task |-> stopper[s].task, item |-> stopper[s].found] \in CleanupState
    BY <2>0 DEF TypeOK, CleanupState, StopperState
  <2>2. [stopper[s] EXCEPT !.pc = "clean"] \in StopperState
    BY StopperUpdateType DEF TypeOK
  <2>3. s \in Cleaner
    BY DEF Cleaner
  <2>. QED BY <1>13, <2>0, <2>1, <2>2, <2>3 DEF TypeOK, StopPublish
<1>14. ASSUME NEW n \in Node, Crash(n) PROVE TypeOK'
  <2>1. crashes' \in 0..MaxCrashes
    BY <1>14, CrashAssumption DEF TypeOK, Crash
  <2>2. cleanup' \in [Cleaner -> CleanupState]
    BY <1>14, NoCleanupType DEF TypeOK, Crash
  <2>3. stopper' \in [Stopper -> StopperState]
    BY <1>14, IdleStopperType DEF TypeOK, Crash
  <2>4. /\ run' \in [Task -> {"new", "running", "cancelling", "done", "lost"}]
        /\ saver' \in [Task -> {"idle", "pending", "done", "lost"}]
    BY <1>14 DEF TypeOK, Crash
  <2>. QED BY <1>14, <2>1, <2>2, <2>3, <2>4 DEF TypeOK, Crash
<1>15. ASSUME NEW n \in Node, Restart(n) PROVE TypeOK'
  BY <1>15 DEF TypeOK, Restart
<1>16. CASE UNCHANGED vars
  BY <1>16 DEF TypeOK, vars
<1>. QED BY <1>1, <1>2, <1>3, <1>4, <1>5, <1>6, <1>7, <1>8, <1>9, <1>10, <1>11, <1>12,
            <1>13, <1>14, <1>15, <1>16 DEF Next, CleanupStep, StopStep

-----------------------------------------------------------------------------
(* The induction                                                           *)

\* The end of a cleanup leaves the other cleanups and requests alone.
LEMMA CleanupReturnsFrame ==
  ASSUME TypeOK, NEW c \in Cleaner, CleanupReturns(c)
  PROVE  /\ cleanup'[c].pc = "idle"
         /\ \A d \in Cleaner \ {c} : cleanup'[d] = cleanup[d]
         /\ \A s \in Stopper \ {c} : stopper'[s] = stopper[s]
         /\ c \in Task => UNCHANGED stopper
         /\ c \notin Task => stopper'[c].pc = "step" /\ stopper'[c].todo = stopper[c].todo
<1>1. cleanup'[c].pc = "idle" /\ \A d \in Cleaner \ {c} : cleanup'[d] = cleanup[d]
  BY DEF TypeOK, CleanupReturns, NoCleanup
<1>2. CASE c \in Task
  BY <1>1, <1>2 DEF CleanupReturns
<1>3. CASE c \notin Task
  <2>. DEFINE new == [stopper[c] EXCEPT !.pc = "step", !.task = None]
  <2>1. c \in Stopper /\ stopper[c] \in StopperState
    BY <1>3 DEF Cleaner, TypeOK
  <2>2. new.pc = "step" /\ new.todo = stopper[c].todo
    BY <2>1 DEF StopperState
  <2>3. stopper' = [stopper EXCEPT ![c] = new]
    BY <1>3 DEF CleanupReturns
  <2>. HIDE DEF new
  <2>. QED BY <1>1, <1>3, <2>1, <2>2, <2>3 DEF TypeOK
<1>. QED BY <1>2, <1>3

LEMMA CleanupReturnsStep ==
  ASSUME TypeOK, StopperInv, CleanupInv, NEW c \in Cleaner, CleanupReturns(c),
         UNCHANGED <<run, itemOf, saver, requested>>, hash' \subseteq hash
  PROVE  StopperInv' /\ CleanupInv'
<1>1. StopperInv'
  <2>. SUFFICES ASSUME NEW s \in Stopper
               PROVE /\ \A t \in stopper'[s].todo : saver'[t] = "done"
                     /\ stopper'[s].pc \in {"hget", "publish", "clean"} =>
                          stopper'[s].task \in Task /\ saver'[stopper'[s].task] = "done"
                     /\ stopper'[s].pc = "publish" =>
                          IF stopper'[s].found = None THEN stopper'[s].task \notin hash'
                            ELSE stopper'[s].found = itemOf'[stopper'[s].task]
    BY DEF StopperInv
  <2>1. CASE s = c /\ c \notin Task
    BY <2>1, CleanupReturnsFrame DEF StopperInv
  <2>2. CASE ~(s = c /\ c \notin Task)
    <3>1. stopper'[s] = stopper[s]
      BY <2>2, CleanupReturnsFrame
    <3>. QED BY <3>1 DEF StopperInv
  <2>. QED BY <2>1, <2>2
<1>2. CleanupInv'
  <2>. SUFFICES ASSUME NEW d \in Cleaner, cleanup'[d].pc # "idle"
               PROVE /\ cleanup'[d].task \in Task
                     /\ IF cleanup'[d].item = None THEN cleanup'[d].task \notin hash'
                          ELSE cleanup'[d].item = itemOf'[cleanup'[d].task]
                     /\ d \in Task => /\ cleanup'[d].task = d /\ run'[d] = "done"
                                      /\ cleanup'[d].item # None
                     /\ d \notin Task => /\ saver'[cleanup'[d].task] = "done"
                                         /\ cleanup'[d].task \in requested'
                                         /\ stopper'[d].pc = "clean"
    BY DEF CleanupInv
  <2>1. d # c /\ cleanup'[d] = cleanup[d]
    BY CleanupReturnsFrame
  <2>2. d \notin Task => stopper'[d] = stopper[d]
    BY <2>1, CleanupReturnsFrame DEF Cleaner
  <2>. QED BY <2>1, <2>2 DEF CleanupInv
<1>. QED BY <1>1, <1>2

LEMMA InvInit == Init => IInv
<1>. SUFFICES ASSUME Init PROVE IInv
  OBVIOUS
<1>1. StopperInv
  BY DEF Init, StopperInv, IdleStopper
<1>2. CleanupInv
  BY DEF Init, CleanupInv, NoCleanup
<1>3. TaskInv /\ SavedInv /\ CommandInv /\ RunningIsInHash
  BY DEF Init, TaskInv, SavedInv, MembersHaveEntries, CommandInv, RunningIsInHash
<1>. QED BY <1>1, <1>2, <1>3, TypeInit DEF IInv

LEMMA InvStep == IInv /\ [Next]_vars => IInv'
<1>. SUFFICES ASSUME IInv, [Next]_vars PROVE IInv'
  OBVIOUS
<1>0. TypeOK /\ TypeOK'
  BY TypeStep DEF IInv
<1>. USE DEF redis, created, faults
<1>1. ASSUME NEW t \in Task, NEW i \in Item, NEW n \in Node, CreateTask(t, i, n) PROVE IInv'
  <2>1. StopperInv'
    BY <1>0, <1>1, NoneAssumption, DisjointAssumption
       DEF TypeOK, IInv, CreateTask, StopperInv, SavedInv, TaskInv
  <2>2. CleanupInv'
    BY <1>0, <1>1, NoneAssumption, DisjointAssumption
       DEF TypeOK, IInv, CreateTask, CleanupInv, SavedInv, TaskInv, StopperInv, Cleaner, NoCleanup
  <2>3. TaskInv'
    BY <1>0, <1>1, NoneAssumption, DisjointAssumption
       DEF TypeOK, IInv, CreateTask, TaskInv, SavedInv, CleanupInv
  <2>4. SavedInv'
    BY <1>0, <1>1, NoneAssumption, DisjointAssumption
       DEF TypeOK, IInv, CreateTask, SavedInv, MembersHaveEntries, TaskInv, CleanupInv, StopperInv
  <2>5. CommandInv'
    BY <1>0, <1>1, NoneAssumption, DisjointAssumption
       DEF TypeOK, IInv, CreateTask, CommandInv, TaskInv, SavedInv
  <2>6. RunningIsInHash'
    BY <1>0, <1>1, NoneAssumption, DisjointAssumption
       DEF TypeOK, IInv, CreateTask, RunningIsInHash, TaskInv, SavedInv, CleanupInv
  <2>. QED BY <1>0, <2>1, <2>2, <2>3, <2>4, <2>5, <2>6 DEF IInv
<1>2. ASSUME NEW t \in Task, SaveTask(t) PROVE IInv'
  <2>1. StopperInv'
    BY <1>0, <1>2, NoneAssumption, DisjointAssumption
       DEF TypeOK, IInv, SaveTask, StopperInv, SavedInv, TaskInv
  <2>2. CleanupInv'
    <3>1. \A c \in Cleaner : cleanup[c].pc # "idle" /\ cleanup[c].item = None => cleanup[c].task # t
      <4>1. \A c \in Task : cleanup[c].pc # "idle" => cleanup[c].item # None
        BY DEF IInv, CleanupInv, Cleaner
      <4>2. \A c \in Cleaner \ Task : cleanup[c].pc # "idle" => cleanup[c].task # t
        BY <1>2 DEF IInv, CleanupInv, SaveTask
      <4>. QED BY <4>1, <4>2
    <3>. QED BY <1>0, <1>2, <3>1 DEF TypeOK, IInv, SaveTask, CleanupInv
  <2>3. TaskInv'
    BY <1>0, <1>2, NoneAssumption, DisjointAssumption
       DEF TypeOK, IInv, SaveTask, TaskInv, SavedInv, CleanupInv
  <2>4. SavedInv'
    BY <1>0, <1>2, NoneAssumption, DisjointAssumption
       DEF TypeOK, IInv, SaveTask, SavedInv, MembersHaveEntries, TaskInv, CleanupInv, StopperInv
  <2>5. CommandInv'
    BY <1>0, <1>2, NoneAssumption, DisjointAssumption
       DEF TypeOK, IInv, SaveTask, CommandInv, TaskInv, SavedInv
  <2>6. RunningIsInHash'
    BY <1>0, <1>2, NoneAssumption, DisjointAssumption
       DEF TypeOK, IInv, SaveTask, RunningIsInHash, TaskInv, SavedInv, CleanupInv
  <2>. QED BY <1>0, <2>1, <2>2, <2>3, <2>4, <2>5, <2>6 DEF IInv
<1>3. ASSUME NEW t \in Task, Finish(t) PROVE IInv'
  <2>1. StopperInv'
    BY <1>0, <1>3, NoneAssumption, DisjointAssumption
       DEF TypeOK, IInv, Finish, StopperInv, SavedInv, TaskInv
  <2>2. CleanupInv'
    BY <1>0, <1>3, NoneAssumption, DisjointAssumption
       DEF TypeOK, IInv, Finish, CleanupInv, SavedInv, TaskInv, StopperInv, Cleaner, NoCleanup
  <2>3. TaskInv'
    BY <1>0, <1>3, NoneAssumption, DisjointAssumption
       DEF TypeOK, IInv, Finish, TaskInv, SavedInv, CleanupInv
  <2>4. SavedInv'
    BY <1>0, <1>3, NoneAssumption, DisjointAssumption
       DEF TypeOK, IInv, Finish, SavedInv, MembersHaveEntries, TaskInv, CleanupInv, StopperInv
  <2>5. CommandInv'
    BY <1>0, <1>3, NoneAssumption, DisjointAssumption
       DEF TypeOK, IInv, Finish, CommandInv, TaskInv, SavedInv
  <2>6. RunningIsInHash'
    BY <1>0, <1>3, NoneAssumption, DisjointAssumption
       DEF TypeOK, IInv, Finish, RunningIsInHash, TaskInv, SavedInv, CleanupInv
  <2>. QED BY <1>0, <2>1, <2>2, <2>3, <2>4, <2>5, <2>6 DEF IInv
<1>4. ASSUME NEW n \in Node, NEW t \in Task, Listen(n, t) PROVE IInv'
  <2>1. StopperInv'
    BY <1>0, <1>4, NoneAssumption, DisjointAssumption
       DEF TypeOK, IInv, Listen, StopperInv, SavedInv, TaskInv
  <2>2. CleanupInv'
    BY <1>0, <1>4, NoneAssumption, DisjointAssumption
       DEF TypeOK, IInv, Listen, CleanupInv, SavedInv, TaskInv, StopperInv, Cleaner, NoCleanup
  <2>3. TaskInv'
    BY <1>0, <1>4, NoneAssumption, DisjointAssumption
       DEF TypeOK, IInv, Listen, TaskInv, SavedInv, CleanupInv
  <2>4. SavedInv'
    BY <1>0, <1>4, NoneAssumption, DisjointAssumption
       DEF TypeOK, IInv, Listen, SavedInv, MembersHaveEntries, TaskInv, CleanupInv, StopperInv
  <2>5. CommandInv'
    BY <1>0, <1>4, NoneAssumption, DisjointAssumption
       DEF TypeOK, IInv, Listen, CommandInv, TaskInv, SavedInv
  <2>6. RunningIsInHash'
    BY <1>0, <1>4, NoneAssumption, DisjointAssumption
       DEF TypeOK, IInv, Listen, RunningIsInHash, TaskInv, SavedInv, CleanupInv
  <2>. QED BY <1>0, <2>1, <2>2, <2>3, <2>4, <2>5, <2>6 DEF IInv
<1>5. ASSUME NEW c \in Cleaner, CleanupExec(c) PROVE IInv'
  <2>1. StopperInv'
    <3>1. CASE cleanup[c].item = None
      <4>1. /\ CleanupReturns(c) /\ UNCHANGED <<run, itemOf, saver, requested>>
            /\ hash' \subseteq hash
        BY <1>5, <3>1 DEF CleanupExec
      <4>. QED BY <1>0, <4>1, CleanupReturnsStep DEF IInv
    <3>2. CASE cleanup[c].item # None
      BY <1>0, <1>5, <3>2 DEF TypeOK, IInv, CleanupExec, StopperInv
    <3>. QED BY <3>1, <3>2
  <2>2. CleanupInv'
    <3>1. CASE cleanup[c].item = None
      <4>1. /\ CleanupReturns(c) /\ UNCHANGED <<run, itemOf, saver, requested>>
            /\ hash' \subseteq hash
        BY <1>5, <3>1 DEF CleanupExec
      <4>. QED BY <1>0, <4>1, CleanupReturnsStep DEF IInv
    <3>2. CASE cleanup[c].item # None
      BY <1>0, <1>5, <3>2 DEF TypeOK, IInv, CleanupExec, CleanupInv, CleanupState
    <3>. QED BY <3>1, <3>2
  <2>3. TaskInv'
    BY <1>0, <1>5, NoneAssumption, DisjointAssumption
       DEF TypeOK, IInv, CleanupExec, TaskInv, SavedInv, CleanupInv, CleanupReturns, Cleaner, NoCleanup
  <2>4. SavedInv'
    BY <1>0, <1>5, NoneAssumption, DisjointAssumption
       DEF TypeOK, IInv, CleanupExec, SavedInv, MembersHaveEntries, TaskInv, CleanupInv, StopperInv, CleanupReturns, Cleaner, NoCleanup
  <2>5. CommandInv'
    BY <1>0, <1>5, NoneAssumption, DisjointAssumption
       DEF TypeOK, IInv, CleanupExec, CommandInv, TaskInv, SavedInv, CleanupReturns, Cleaner, NoCleanup
  <2>6. RunningIsInHash'
    BY <1>0, <1>5, NoneAssumption, DisjointAssumption
       DEF TypeOK, IInv, CleanupExec, RunningIsInHash, TaskInv, SavedInv, CleanupInv, CleanupReturns, Cleaner, NoCleanup
  <2>. QED BY <1>0, <2>1, <2>2, <2>3, <2>4, <2>5, <2>6 DEF IInv
<1>6. ASSUME NEW c \in Cleaner, CleanupCard(c) PROVE IInv'
  <2>1. StopperInv'
    <3>1. CASE itemSet[cleanup[c].item] # {}
      BY <1>0, <1>6, <3>1, CleanupReturnsStep DEF IInv, CleanupCard
    <3>2. CASE itemSet[cleanup[c].item] = {}
      BY <1>0, <1>6, <3>2 DEF TypeOK, IInv, CleanupCard, StopperInv, CleanupState
    <3>. QED BY <3>1, <3>2
  <2>2. CleanupInv'
    <3>1. CASE itemSet[cleanup[c].item] # {}
      BY <1>0, <1>6, <3>1, CleanupReturnsStep DEF IInv, CleanupCard
    <3>2. CASE itemSet[cleanup[c].item] = {}
      BY <1>0, <1>6, <3>2 DEF TypeOK, IInv, CleanupCard, CleanupInv, CleanupState
    <3>. QED BY <3>1, <3>2
  <2>3. TaskInv'
    BY <1>0, <1>6, NoneAssumption, DisjointAssumption
       DEF TypeOK, IInv, CleanupCard, TaskInv, SavedInv, CleanupInv, CleanupReturns, Cleaner, NoCleanup
  <2>4. SavedInv'
    BY <1>0, <1>6, NoneAssumption, DisjointAssumption
       DEF TypeOK, IInv, CleanupCard, SavedInv, MembersHaveEntries, TaskInv, CleanupInv, StopperInv, CleanupReturns, Cleaner, NoCleanup
  <2>5. CommandInv'
    BY <1>0, <1>6, NoneAssumption, DisjointAssumption
       DEF TypeOK, IInv, CleanupCard, CommandInv, TaskInv, SavedInv, CleanupReturns, Cleaner, NoCleanup
  <2>6. RunningIsInHash'
    BY <1>0, <1>6, NoneAssumption, DisjointAssumption
       DEF TypeOK, IInv, CleanupCard, RunningIsInHash, TaskInv, SavedInv, CleanupInv, CleanupReturns, Cleaner, NoCleanup
  <2>. QED BY <1>0, <2>1, <2>2, <2>3, <2>4, <2>5, <2>6 DEF IInv
<1>7. ASSUME NEW c \in Cleaner, CleanupDelete(c) PROVE IInv'
  <2>1. StopperInv'
    BY <1>0, <1>7, CleanupReturnsStep DEF IInv, CleanupDelete
  <2>2. CleanupInv'
    BY <1>0, <1>7, CleanupReturnsStep DEF IInv, CleanupDelete
  <2>3. TaskInv'
    <3>1. UNCHANGED <<run, itemOf, owner, saver, up>>
      BY <1>7 DEF CleanupDelete
    <3>2. CASE c \in Task
      <4>1. run[c] = "done" /\ local' = [local EXCEPT ![owner[c]] = @ \ {c}]
        BY <1>7, <3>2 DEF IInv, CleanupInv, CleanupDelete, CleanupReturns
      <4>. QED BY <1>0, <3>1, <4>1 DEF TypeOK, IInv, TaskInv
    <3>3. CASE c \notin Task
      <4>1. UNCHANGED local
        BY <1>7, <3>3 DEF CleanupDelete, CleanupReturns
      <4>. QED BY <3>1, <4>1 DEF IInv, TaskInv
    <3>. QED BY <3>2, <3>3
  <2>4. SavedInv'
    BY <1>0, <1>7, NoneAssumption, DisjointAssumption
       DEF TypeOK, IInv, CleanupDelete, SavedInv, MembersHaveEntries, TaskInv, CleanupInv, StopperInv, CleanupReturns, Cleaner, NoCleanup
  <2>5. CommandInv'
    BY <1>0, <1>7, NoneAssumption, DisjointAssumption
       DEF TypeOK, IInv, CleanupDelete, CommandInv, TaskInv, SavedInv, CleanupReturns, Cleaner, NoCleanup
  <2>6. RunningIsInHash'
    BY <1>0, <1>7, NoneAssumption, DisjointAssumption
       DEF TypeOK, IInv, CleanupDelete, RunningIsInHash, TaskInv, SavedInv, CleanupInv, CleanupReturns, Cleaner, NoCleanup
  <2>. QED BY <1>0, <2>1, <2>2, <2>3, <2>4, <2>5, <2>6 DEF IInv
<1>8. ASSUME NEW s \in Stopper, NEW n \in Node, NEW t \in Task, CallStopTask(s, n, t) PROVE IInv'
  <2>1. StopperInv'
    BY <1>0, <1>8, NoneAssumption, DisjointAssumption
       DEF TypeOK, IInv, CallStopTask, StopperInv, SavedInv, TaskInv, IdleStopper
  <2>2. CleanupInv'
    BY <1>0, <1>8, NoneAssumption, DisjointAssumption
       DEF TypeOK, IInv, CallStopTask, CleanupInv, SavedInv, TaskInv, StopperInv, Cleaner, NoCleanup, IdleStopper
  <2>3. TaskInv' /\ SavedInv' /\ CommandInv' /\ RunningIsInHash'
    BY <1>8
       DEF IInv, CallStopTask, TaskInv, SavedInv, MembersHaveEntries, CommandInv, RunningIsInHash
  <2>. QED BY <1>0, <2>1, <2>2, <2>3 DEF IInv
<1>9. ASSUME NEW s \in Stopper, NEW n \in Node, NEW i \in Item, CallStopItemTasks(s, n, i) PROVE IInv'
  <2>1. StopperInv'
    <3>. DEFINE new == [IdleStopper EXCEPT !.pc = "step", !.node = n,
                                           !.todo = itemSet[i], !.listed = itemSet[i]]
    <3>1. new.pc = "step" /\ \A t \in new.todo : saver[t] = "done"
      BY <1>0, <1>9 DEF TypeOK, IInv, SavedInv, MembersHaveEntries, IdleStopper
    <3>2. stopper' = [stopper EXCEPT ![s] = new] /\ UNCHANGED <<saver, hash, itemOf>>
      BY <1>9 DEF CallStopItemTasks
    <3>. HIDE DEF new
    <3>. QED BY <1>0, <3>1, <3>2 DEF TypeOK, IInv, StopperInv
  <2>2. CleanupInv'
    BY <1>0, <1>9, NoneAssumption, DisjointAssumption
       DEF TypeOK, IInv, CallStopItemTasks, CleanupInv, SavedInv, TaskInv, StopperInv, Cleaner, NoCleanup, IdleStopper
  <2>3. TaskInv' /\ SavedInv' /\ CommandInv' /\ RunningIsInHash'
    BY <1>9
       DEF IInv, CallStopItemTasks, TaskInv, SavedInv, MembersHaveEntries, CommandInv, RunningIsInHash
  <2>. QED BY <1>0, <2>1, <2>2, <2>3 DEF IInv
<1>10. ASSUME NEW s \in Stopper, NextTask(s) PROVE IInv'
  <2>1. StopperInv'
    <3>1. PICK t \in stopper[s].todo : stopper' = [stopper EXCEPT ![s] =
            [stopper[s] EXCEPT !.pc = "hget", !.task = t, !.todo = stopper[s].todo \ {t}]]
      BY <1>10 DEF NextTask
    <3>. DEFINE new == [stopper[s] EXCEPT !.pc = "hget", !.task = t, !.todo = stopper[s].todo \ {t}]
    <3>2. stopper[s] \in StopperState /\ stopper[s].todo \in SUBSET Task
      BY <1>0 DEF TypeOK, StopperState
    <3>3. new.pc = "hget" /\ new.task = t /\ new.todo \subseteq stopper[s].todo /\ t \in Task
      BY <3>2 DEF StopperState
    <3>4. stopper' = [stopper EXCEPT ![s] = new] /\ UNCHANGED <<saver, hash, itemOf>>
      BY <1>10, <3>1 DEF NextTask
    <3>. HIDE DEF new
    <3>. QED BY <1>0, <3>3, <3>4 DEF TypeOK, IInv, StopperInv
  <2>2. CleanupInv'
    BY <1>0, <1>10, NoneAssumption, DisjointAssumption
       DEF TypeOK, IInv, NextTask, CleanupInv, SavedInv, TaskInv, StopperInv, Cleaner, NoCleanup
  <2>3. TaskInv' /\ SavedInv' /\ CommandInv' /\ RunningIsInHash'
    BY <1>10
       DEF IInv, NextTask, TaskInv, SavedInv, MembersHaveEntries, CommandInv, RunningIsInHash
  <2>. QED BY <1>0, <2>1, <2>2, <2>3 DEF IInv
<1>11. ASSUME NEW s \in Stopper, Answer(s) PROVE IInv'
  <2>1. StopperInv'
    BY <1>0, <1>11, NoneAssumption, DisjointAssumption
       DEF TypeOK, IInv, Answer, StopperInv, SavedInv, TaskInv
  <2>2. CleanupInv'
    BY <1>0, <1>11, NoneAssumption, DisjointAssumption
       DEF TypeOK, IInv, Answer, CleanupInv, SavedInv, TaskInv, StopperInv, Cleaner, NoCleanup
  <2>3. TaskInv' /\ SavedInv' /\ CommandInv' /\ RunningIsInHash'
    BY <1>11
       DEF IInv, Answer, TaskInv, SavedInv, MembersHaveEntries, CommandInv, RunningIsInHash
  <2>. QED BY <1>0, <2>1, <2>2, <2>3 DEF IInv
<1>12. ASSUME NEW s \in Stopper, StopLookup(s) PROVE IInv'
  <2>1. StopperInv'
    BY <1>0, <1>12, NoneAssumption, DisjointAssumption
       DEF TypeOK, IInv, StopLookup, StopperInv, SavedInv, TaskInv
  <2>2. CleanupInv'
    BY <1>0, <1>12, NoneAssumption, DisjointAssumption
       DEF TypeOK, IInv, StopLookup, CleanupInv, SavedInv, TaskInv, StopperInv, Cleaner, NoCleanup
  <2>3. TaskInv' /\ SavedInv' /\ CommandInv' /\ RunningIsInHash'
    BY <1>12
       DEF IInv, StopLookup, TaskInv, SavedInv, MembersHaveEntries, CommandInv, RunningIsInHash
  <2>. QED BY <1>0, <2>1, <2>2, <2>3 DEF IInv
<1>13. ASSUME NEW s \in Stopper, StopPublish(s) PROVE IInv'
  <2>1. StopperInv'
    BY <1>0, <1>13, NoneAssumption, DisjointAssumption
       DEF TypeOK, IInv, StopPublish, StopperInv, SavedInv, TaskInv
  <2>2. CleanupInv'
    BY <1>0, <1>13, NoneAssumption, DisjointAssumption
       DEF TypeOK, IInv, StopPublish, CleanupInv, SavedInv, TaskInv, StopperInv, Cleaner, NoCleanup
  <2>3. TaskInv'
    BY <1>0, <1>13, NoneAssumption, DisjointAssumption
       DEF TypeOK, IInv, StopPublish, TaskInv, SavedInv, CleanupInv
  <2>4. SavedInv'
    BY <1>0, <1>13, NoneAssumption, DisjointAssumption
       DEF TypeOK, IInv, StopPublish, SavedInv, MembersHaveEntries, TaskInv, CleanupInv, StopperInv
  <2>5. CommandInv'
    BY <1>0, <1>13, NoneAssumption, DisjointAssumption
       DEF TypeOK, IInv, StopPublish, CommandInv, TaskInv, SavedInv
  <2>6. RunningIsInHash'
    BY <1>0, <1>13, NoneAssumption, DisjointAssumption
       DEF TypeOK, IInv, StopPublish, RunningIsInHash, TaskInv, SavedInv, CleanupInv
  <2>. QED BY <1>0, <2>1, <2>2, <2>3, <2>4, <2>5, <2>6 DEF IInv
<1>14. ASSUME NEW n \in Node, Crash(n) PROVE IInv'
  <2>1. StopperInv'
    <3>1. \A s \in Stopper : stopper'[s] \in {stopper[s], IdleStopper}
      BY <1>14 DEF Crash
    <3>2. \A t \in Task : saver[t] = "done" => saver'[t] = "done"
      BY <1>14 DEF Crash
    <3>3. UNCHANGED <<hash, itemOf>> /\ IdleStopper.pc = "idle" /\ IdleStopper.todo = {}
      BY <1>14 DEF Crash, IdleStopper
    <3>4. \A s \in Stopper : stopper[s].todo \in SUBSET Task
      BY <1>0 DEF TypeOK, StopperState
    <3>. QED BY <3>1, <3>2, <3>3, <3>4 DEF IInv, StopperInv
  <2>2. CleanupInv'
    BY <1>0, <1>14, NoneAssumption, DisjointAssumption
       DEF TypeOK, IInv, Crash, CleanupInv, SavedInv, TaskInv, StopperInv, Cleaner, NoCleanup, IdleStopper
  <2>3. TaskInv'
    BY <1>0, <1>14, NoneAssumption, DisjointAssumption
       DEF TypeOK, IInv, Crash, TaskInv, SavedInv, CleanupInv, IdleStopper
  <2>4. SavedInv'
    BY <1>0, <1>14, NoneAssumption, DisjointAssumption
       DEF TypeOK, IInv, Crash, SavedInv, MembersHaveEntries, TaskInv, CleanupInv, StopperInv, IdleStopper
  <2>5. CommandInv'
    BY <1>0, <1>14, NoneAssumption, DisjointAssumption
       DEF TypeOK, IInv, Crash, CommandInv, TaskInv, SavedInv, IdleStopper
  <2>6. RunningIsInHash'
    BY <1>0, <1>14, NoneAssumption, DisjointAssumption
       DEF TypeOK, IInv, Crash, RunningIsInHash, TaskInv, SavedInv, CleanupInv, IdleStopper
  <2>. QED BY <1>0, <2>1, <2>2, <2>3, <2>4, <2>5, <2>6 DEF IInv
<1>15. ASSUME NEW n \in Node, Restart(n) PROVE IInv'
  <2>1. StopperInv'
    BY <1>0, <1>15, NoneAssumption, DisjointAssumption
       DEF TypeOK, IInv, Restart, StopperInv, SavedInv, TaskInv
  <2>2. CleanupInv'
    BY <1>0, <1>15, NoneAssumption, DisjointAssumption
       DEF TypeOK, IInv, Restart, CleanupInv, SavedInv, TaskInv, StopperInv, Cleaner, NoCleanup
  <2>3. TaskInv'
    BY <1>0, <1>15, NoneAssumption, DisjointAssumption
       DEF TypeOK, IInv, Restart, TaskInv, SavedInv, CleanupInv
  <2>4. SavedInv'
    BY <1>0, <1>15, NoneAssumption, DisjointAssumption
       DEF TypeOK, IInv, Restart, SavedInv, MembersHaveEntries, TaskInv, CleanupInv, StopperInv
  <2>5. CommandInv'
    BY <1>0, <1>15, NoneAssumption, DisjointAssumption
       DEF TypeOK, IInv, Restart, CommandInv, TaskInv, SavedInv
  <2>6. RunningIsInHash'
    BY <1>0, <1>15, NoneAssumption, DisjointAssumption
       DEF TypeOK, IInv, Restart, RunningIsInHash, TaskInv, SavedInv, CleanupInv
  <2>. QED BY <1>0, <2>1, <2>2, <2>3, <2>4, <2>5, <2>6 DEF IInv
<1>16. CASE UNCHANGED vars
  BY <1>0, <1>16 DEF vars, IInv, StopperInv, CleanupInv, TaskInv, SavedInv, MembersHaveEntries,
                     CommandInv, RunningIsInHash
<1>. QED BY <1>1, <1>2, <1>3, <1>4, <1>5, <1>6, <1>7, <1>8, <1>9, <1>10, <1>11, <1>12,
            <1>13, <1>14, <1>15, <1>16 DEF Next, CleanupStep, StopStep

\* Every process, Redis and every request stay well formed.
THEOREM TypeCorrect == Spec => []TypeOK
<1>1. IInv => TypeOK
  BY DEF IInv
<1>. QED BY <1>1, InvInit, InvStep, PTL DEF Spec

\* For any number of processes, requests and crashes: a saved task that runs
\* and was not asked to stop is in the hash.
THEOREM HashComplete == Spec => []RunningIsInHash
<1>1. IInv => RunningIsInHash
  BY DEF IInv
<1>. QED BY <1>1, InvInit, InvStep, PTL DEF Spec

\* For any number of processes, requests and crashes: every member of an item's
\* set has its hash entry, so a stop can always take it out of the set.
THEOREM SetsWithinHash == Spec => []MembersHaveEntries
<1>1. IInv => MembersHaveEntries
  BY DEF IInv, SavedInv
<1>. QED BY <1>1, InvInit, InvStep, PTL DEF Spec

\* For any number of processes, requests and crashes: a running task whose entry
\* is gone has its stop command waiting at its owner.
THEOREM NoTaskOrphaned == Spec => []NoOrphan
<1>1. IInv => NoOrphan
  BY DEF IInv, NoOrphan, RunningIsInHash, CommandInv
<1>. QED BY <1>1, InvInit, InvStep, PTL DEF Spec

-----------------------------------------------------------------------------

\* Redis knows nothing of the task.
Cleared(t) == t \notin hash /\ \A i \in Item : t \notin itemSet[i]

\* The request is on the task and has not taken it out of Redis yet.
Working(s, t) ==
  /\ stopper[s].task = t
  /\ \/ stopper[s].pc \in {"hget", "publish"}
     \/ stopper[s].pc = "clean" /\ cleanup[s].pc = "exec" /\ cleanup[s].task = t

\* Every task of a request is cleared, or its turn is now, or is to come.
Pursued(s) ==
  /\ stopper[s].pc = "idle" => stopper[s].todo = {}
  /\ stopper[s].pc # "clean" => cleanup[s].pc = "idle"
  /\ stopper[s].answered => stopper[s].pc = "idle"
  /\ \A t \in stopper[s].listed :
       saver[t] = "done" /\ (Cleared(t) \/ t \in stopper[s].todo \/ Working(s, t))

ClearInv == IInv /\ \A s \in Stopper : Pursued(s)

-----------------------------------------------------------------------------

LEMMA TypesFromInv == IInv => TypeOK
BY DEF IInv

\* Only saving a task adds to Redis, and a task is saved once.
LEMMA ClearedStays ==
  ASSUME IInv, [Next]_vars, NEW t \in Task, saver[t] = "done"
  PROVE  saver'[t] = "done" /\ (Cleared(t) => Cleared(t)')
<1>0. TypeOK
  BY TypesFromInv
<1>. USE DEF redis, created, faults
<1>1. CASE \E u \in Task, i \in Item, n \in Node : CreateTask(u, i, n)
  <2>1. PICK u \in Task, i \in Item, n \in Node : CreateTask(u, i, n)
    BY <1>1
  <2>2. u # t
    BY <2>1 DEF CreateTask, IInv, TaskInv
  <2>. QED BY <1>0, <2>1, <2>2 DEF CreateTask, Cleared, TypeOK
<1>2. CASE \E u \in Task : SaveTask(u)
  <2>1. PICK u \in Task : SaveTask(u)
    BY <1>2
  <2>2. u # t
    BY <2>1 DEF SaveTask
  <2>. QED BY <1>0, <2>1, <2>2 DEF SaveTask, Cleared, TypeOK
<1>3. CASE \E c \in Cleaner : CleanupStep(c)
  <2>1. PICK c \in Cleaner : CleanupStep(c)
    BY <1>3
  <2>2. UNCHANGED saver /\ hash' \subseteq hash
    BY <2>1 DEF CleanupStep, CleanupExec, CleanupCard, CleanupDelete
  <2>3. \A i \in Item : itemSet'[i] \subseteq itemSet[i]
    BY <1>0, <2>1 DEF CleanupStep, CleanupExec, CleanupCard, CleanupDelete, TypeOK
  <2>. QED BY <2>2, <2>3 DEF Cleared
<1>4. CASE \E n \in Node : Crash(n)
  BY <1>0, <1>4 DEF Crash, Cleared, TypeOK
<1>5. CASE UNCHANGED <<saver, hash, itemSet>>
  BY <1>5 DEF Cleared
<1>. QED BY <1>1, <1>2, <1>3, <1>4, <1>5 DEF Next, Finish, Listen, CallStopTask,
            CallStopItemTasks, StopStep, NextTask, Answer, StopLookup, StopPublish, Restart, vars

\* A step that does not concern a request changes nothing for it.
LEMMA PursuedFrame ==
  ASSUME IInv, [Next]_vars, NEW s \in Stopper, Pursued(s),
         stopper'[s] = stopper[s], cleanup'[s] = cleanup[s]
  PROVE  Pursued(s)'
<1>1. \A t \in stopper[s].listed : t \in Task
  BY DEF IInv, TypeOK, StopperState
<1>. QED BY <1>1, ClearedStays DEF Pursued, Working

\* HDEL and SREM of a request's own cleanup clear the task.
LEMMA ExecClears ==
  ASSUME IInv, NEW s \in Stopper, CleanupExec(s), NEW t, t = cleanup[s].task
  PROVE  Cleared(t)'
<1>1. s \in Cleaner /\ TypeOK
  BY DEF Cleaner, IInv
<1>2. /\ t \in Task
      /\ IF cleanup[s].item = None THEN t \notin hash
                                   ELSE cleanup[s].item = itemOf[t]
  BY <1>1 DEF IInv, CleanupInv, CleanupExec
<1>3. \A i \in Item : t \in itemSet[i]
        => t \in hash /\ itemOf[t] = i
  BY DEF IInv, SavedInv, MembersHaveEntries
<1>4. hash' = hash \ {t}
  BY DEF CleanupExec
<1>5. \A i \in Item : t \notin itemSet'[i]
  BY <1>1, <1>2, <1>3 DEF CleanupExec, TypeOK
<1>. QED BY <1>4, <1>5 DEF Cleared

LEMMA PursuedInit == Init => \A s \in Stopper : Pursued(s)
BY DEF Init, Pursued, IdleStopper, NoCleanup, Cleaner

\* The request's own cleanup.
LEMMA PursuedCleanup ==
  ASSUME IInv, [Next]_vars, NEW s \in Stopper, Pursued(s), CleanupStep(s)
  PROVE  Pursued(s)'
<1>0. TypeOK /\ s \in Cleaner /\ s \notin Task /\ stopper[s] \in StopperState
  BY DisjointAssumption DEF IInv, TypeOK, Cleaner
<1>1. cleanup[s].pc # "idle" /\ stopper[s].pc = "clean"
  BY <1>0 DEF CleanupStep, CleanupExec, CleanupCard, CleanupDelete, Pursued
<1>2. /\ stopper'[s].listed = stopper[s].listed /\ stopper'[s].todo = stopper[s].todo
      /\ stopper'[s].answered = stopper[s].answered
      /\ \/ stopper'[s].pc = "step" /\ cleanup'[s].pc = "idle"
         \/ stopper'[s].pc = "clean" /\ cleanup'[s].pc # "exec"
  <2>1. CASE CleanupReturns(s)
    <3>1. /\ stopper' = [stopper EXCEPT ![s] = [stopper[s] EXCEPT !.pc = "step", !.task = None]]
          /\ cleanup' = [cleanup EXCEPT ![s] = NoCleanup]
      BY <1>0, <2>1 DEF CleanupReturns
    <3>2. stopper'[s] = [stopper[s] EXCEPT !.pc = "step", !.task = None] /\ cleanup'[s] = NoCleanup
      BY <1>0, <3>1 DEF TypeOK
    <3>. QED BY <1>0, <3>2 DEF StopperState, NoCleanup
  <2>2. CASE ~CleanupReturns(s)
    <3>1. /\ stopper' = stopper
          /\ \/ cleanup' = [cleanup EXCEPT ![s] = [cleanup[s] EXCEPT !.pc = "card"]]
             \/ cleanup' = [cleanup EXCEPT ![s] = [cleanup[s] EXCEPT !.pc = "delete"]]
      BY <2>2 DEF CleanupStep, CleanupExec, CleanupCard, CleanupDelete
    <3>2. cleanup'[s].pc \in {"card", "delete"}
      BY <1>0, <3>1 DEF TypeOK, CleanupState
    <3>. QED BY <1>1, <3>1, <3>2
  <2>. QED BY <2>1, <2>2
<1>3. ASSUME NEW t \in stopper[s].listed, ~(t \in stopper[s].todo)
      PROVE  saver'[t] = "done" /\ Cleared(t)'
  <2>1. t \in Task /\ saver[t] = "done" /\ (Cleared(t) \/ Working(s, t))
    BY <1>0, <1>3 DEF Pursued, StopperState
  <2>2. CASE Cleared(t)
    BY <2>1, <2>2, ClearedStays
  <2>3. CASE Working(s, t)
    <3>1. cleanup[s].pc = "exec" /\ cleanup[s].task = t
      BY <1>1, <2>3 DEF Working
    <3>2. CleanupExec(s)
      BY <3>1 DEF CleanupStep, CleanupCard, CleanupDelete
    <3>. QED BY <2>1, <3>1, <3>2, ExecClears, ClearedStays
  <2>. QED BY <2>1, <2>2, <2>3
<1>4. \A t \in stopper[s].listed : t \in Task /\ saver'[t] = "done"
  BY <1>0, ClearedStays DEF Pursued, StopperState
<1>. QED BY <1>1, <1>2, <1>3, <1>4 DEF Pursued

\* A new request.
LEMMA PursuedCall ==
  ASSUME IInv, [Next]_vars, NEW s \in Stopper, Pursued(s), stopper[s].pc = "idle",
         UNCHANGED cleanup, NEW L \in SUBSET Task, \A t \in L : saver[t] = "done",
         stopper'[s].listed = L, ~stopper'[s].answered,
         \/ stopper'[s].pc = "step" /\ stopper'[s].todo = L
         \/ /\ stopper'[s].pc = "hget" /\ stopper'[s].todo = {}
            /\ \A t \in L : t = stopper'[s].task
  PROVE  Pursued(s)'
BY ClearedStays DEF Pursued, Working

LEMMA PursuedStep ==
  ASSUME IInv, [Next]_vars, NEW s \in Stopper, Pursued(s)
  PROVE  Pursued(s)'
<1>0. TypeOK /\ s \in Cleaner /\ s \notin Task /\ stopper[s] \in StopperState
  BY DisjointAssumption DEF IInv, TypeOK, Cleaner
<1>. USE DEF redis, created, faults
<1>1. CASE stopper'[s] = stopper[s] /\ cleanup'[s] = cleanup[s]
  BY <1>1, PursuedFrame
<1>2. CASE CleanupStep(s)
  BY <1>2, PursuedCleanup
<1>3. ASSUME NEW n \in Node, NEW t \in Task, CallStopTask(s, n, t) PROVE Pursued(s)'
  <2>1. stopper'[s] = [IdleStopper EXCEPT !.pc = "hget", !.node = n, !.task = t, !.listed = {t}]
    BY <1>0, <1>3 DEF CallStopTask, TypeOK
  <2>2. /\ stopper'[s].pc = "hget" /\ stopper'[s].task = t
        /\ stopper'[s].listed = {t} /\ stopper'[s].todo = {} /\ ~stopper'[s].answered
    BY <2>1 DEF IdleStopper
  <2>3. stopper[s].pc = "idle" /\ UNCHANGED cleanup /\ saver[t] = "done"
    BY <1>3 DEF CallStopTask
  <2>. QED BY <2>2, <2>3, PursuedCall
<1>4. ASSUME NEW n \in Node, NEW i \in Item, CallStopItemTasks(s, n, i) PROVE Pursued(s)'
  <2>1. stopper'[s] = [IdleStopper EXCEPT !.pc = "step", !.node = n,
                                          !.todo = itemSet[i], !.listed = itemSet[i]]
    BY <1>0, <1>4 DEF CallStopItemTasks, TypeOK
  <2>2. /\ stopper'[s].pc = "step"
        /\ stopper'[s].listed = itemSet[i] /\ stopper'[s].todo = itemSet[i]
        /\ ~stopper'[s].answered
    BY <2>1 DEF IdleStopper
  <2>3. stopper[s].pc = "idle" /\ UNCHANGED cleanup
    BY <1>4 DEF CallStopItemTasks
  <2>4. itemSet[i] \in SUBSET Task /\ \A t \in itemSet[i] : saver[t] = "done"
    BY <1>0 DEF TypeOK, IInv, SavedInv, MembersHaveEntries
  <2>. QED BY <2>2, <2>3, <2>4, PursuedCall
<1>5. ASSUME StopStep(s) PROVE Pursued(s)'
  <2>1. UNCHANGED <<saver, hash, itemSet>>
    BY <1>5 DEF StopStep, NextTask, Answer, StopLookup, StopPublish
  <2>2. CASE NextTask(s)
    <3>1. PICK t \in stopper[s].todo :
            stopper' = [stopper EXCEPT ![s] =
                          [stopper[s] EXCEPT !.pc = "hget", !.task = t, !.todo = stopper[s].todo \ {t}]]
      BY <2>2 DEF NextTask
    <3>2. stopper'[s] = [stopper[s] EXCEPT !.pc = "hget", !.task = t, !.todo = stopper[s].todo \ {t}]
      BY <1>0, <3>1 DEF TypeOK
    <3>3. /\ stopper'[s].pc = "hget" /\ stopper'[s].task = t
          /\ stopper'[s].todo = stopper[s].todo \ {t} /\ stopper'[s].listed = stopper[s].listed
          /\ stopper'[s].answered = stopper[s].answered
      BY <1>0, <3>2 DEF StopperState
    <3>4. stopper[s].pc = "step" /\ UNCHANGED cleanup
      BY <2>2 DEF NextTask
    <3>. QED BY <2>1, <3>3, <3>4 DEF Pursued, Working, Cleared
  <2>3. CASE Answer(s)
    <3>1. stopper'[s] = [stopper[s] EXCEPT !.pc = "idle", !.answered = TRUE]
      BY <1>0, <2>3 DEF TypeOK, Answer
    <3>2. /\ stopper'[s].pc = "idle" /\ stopper'[s].todo = stopper[s].todo
          /\ stopper'[s].listed = stopper[s].listed
      BY <1>0, <3>1 DEF StopperState
    <3>. QED BY <2>1, <2>3, <3>2 DEF Answer, Pursued, Working, Cleared
  <2>4. CASE StopLookup(s)
    <3>1. \E f : stopper'[s] = [stopper[s] EXCEPT !.pc = "publish", !.found = f]
      BY <1>0, <2>4 DEF TypeOK, StopLookup
    <3>2. /\ stopper'[s].pc = "publish" /\ stopper'[s].todo = stopper[s].todo
          /\ stopper'[s].task = stopper[s].task /\ stopper'[s].listed = stopper[s].listed
          /\ stopper'[s].answered = stopper[s].answered
      BY <1>0, <3>1 DEF StopperState
    <3>. QED BY <2>1, <2>4, <3>2 DEF StopLookup, Pursued, Working, Cleared
  <2>5. CASE StopPublish(s)
    <3>1. stopper'[s] = [stopper[s] EXCEPT !.pc = "clean"]
      BY <1>0, <2>5 DEF TypeOK, StopPublish
    <3>2. /\ stopper'[s].pc = "clean" /\ stopper'[s].todo = stopper[s].todo
          /\ stopper'[s].task = stopper[s].task /\ stopper'[s].listed = stopper[s].listed
          /\ stopper'[s].answered = stopper[s].answered
      BY <1>0, <3>1 DEF StopperState
    <3>3. cleanup'[s].pc = "exec" /\ cleanup'[s].task = stopper[s].task
      BY <1>0, <2>5 DEF TypeOK, StopPublish
    <3>4. stopper[s].pc = "publish"
      BY <2>5 DEF StopPublish
    <3>. QED BY <2>1, <3>2, <3>3, <3>4 DEF Pursued, Working, Cleared
  <2>. QED BY <1>5, <2>2, <2>3, <2>4, <2>5 DEF StopStep
<1>6. ASSUME NEW n \in Node, Crash(n) PROVE Pursued(s)'
  <2>1. \/ stopper'[s] = stopper[s] /\ cleanup'[s] = cleanup[s]
        \/ stopper'[s] = IdleStopper /\ cleanup'[s] = NoCleanup
    BY <1>0, <1>6 DEF Crash, TypeOK
  <2>2. CASE stopper'[s] = IdleStopper /\ cleanup'[s] = NoCleanup
    BY <2>2 DEF Pursued, IdleStopper, NoCleanup
  <2>. QED BY <1>1, <2>1, <2>2
<1>7. ASSUME NEW c \in Cleaner, CleanupStep(c), c # s PROVE Pursued(s)'
  <2>1. stopper'[s] = stopper[s] /\ cleanup'[s] = cleanup[s]
    BY <1>0, <1>7 DEF CleanupStep, CleanupExec, CleanupCard, CleanupDelete, CleanupReturns, TypeOK
  <2>. QED BY <1>1, <2>1
<1>8. ASSUME NEW r \in Stopper, r # s,
             \/ StopStep(r)
             \/ \E n \in Node, t \in Task : CallStopTask(r, n, t)
             \/ \E n \in Node, i \in Item : CallStopItemTasks(r, n, i)
      PROVE  Pursued(s)'
  <2>1. stopper'[s] = stopper[s] /\ cleanup'[s] = cleanup[s]
    BY <1>0, <1>8 DEF StopStep, NextTask, Answer, StopLookup, StopPublish, CallStopTask,
                      CallStopItemTasks, TypeOK, Cleaner
  <2>. QED BY <1>1, <2>1
<1>9. ASSUME \E t \in Task : Finish(t) PROVE Pursued(s)'
  <2>1. stopper'[s] = stopper[s] /\ cleanup'[s] = cleanup[s]
    BY <1>0, <1>9 DEF Finish, TypeOK
  <2>. QED BY <1>1, <2>1
<1>10. CASE UNCHANGED <<stopper, cleanup>>
  BY <1>1, <1>10
<1>. QED BY <1>2, <1>3, <1>4, <1>5, <1>6, <1>7, <1>8, <1>9, <1>10
         DEF Next, CreateTask, SaveTask, Listen, Restart, vars

\* For any number of processes, requests and crashes: once a request to stop
\* tasks is answered, Redis knows nothing of them, and never will again.
THEOREM AnsweredMeansCleared == Spec => []StopClears
<1>1. Init => ClearInv
  BY InvInit, PursuedInit DEF ClearInv
<1>2. ClearInv /\ [Next]_vars => ClearInv'
  BY InvStep, PursuedStep DEF ClearInv
<1>3. ClearInv => StopClears
  BY DEF ClearInv, Pursued, Working, Cleared, StopClears
<1>. QED BY <1>1, <1>2, <1>3, PTL DEF Spec

-----------------------------------------------------------------------------
(* What has_active_tasks reports                                           *)

\* No cleanup is of a task that runs and was not asked to stop, and a delete
\* that meets no members removes none.
LEMMA ReportedStep ==
  ASSUME IInv, [Next]_vars, NoLateDelete, ActiveIsReported
  PROVE  ActiveIsReported'
<1>0. TypeOK
  BY DEF IInv
<1>. USE DEF redis, created, faults
<1>1. ASSUME NEW t \in Task, NEW i \in Item, NEW n \in Node, CreateTask(t, i, n)
      PROVE  ActiveIsReported'
  BY <1>0, <1>1 DEF CreateTask, ActiveIsReported, TypeOK
<1>2. ASSUME NEW t \in Task, SaveTask(t) PROVE ActiveIsReported'
  <2>1. run[t] # "new" /\ itemOf[t] \in Item
    BY <1>0, <1>2 DEF SaveTask, IInv, TaskInv, TypeOK
  <2>2. /\ \A u \in Task \ {t} : saver'[u] = saver[u]
        /\ \A i \in Item : itemSet[i] \subseteq itemSet'[i]
        /\ t \in itemSet'[itemOf[t]]
        /\ UNCHANGED <<run, itemOf, requested>>
    BY <1>0, <1>2, <2>1 DEF SaveTask, TypeOK
  <2>3. \A u \in Task : run[u] = "running" => itemOf[u] \in Item
    BY DEF IInv, TaskInv
  <2>. QED BY <2>2, <2>3 DEF ActiveIsReported
<1>3. ASSUME NEW c \in Cleaner, CleanupStep(c) PROVE ActiveIsReported'
  <2>1. PICK u \in Task : u = cleanup[c].task
    BY <1>3 DEF CleanupStep, CleanupExec, CleanupCard, CleanupDelete, IInv, CleanupInv
  <2>2. run[u] # "running" \/ u \in requested
    BY <1>3, <2>1 DEF CleanupStep, CleanupExec, CleanupCard, CleanupDelete, IInv, CleanupInv
  <2>3. \A i \in Item : itemSet[i] \ {u} \subseteq itemSet'[i]
    <3>1. CASE CleanupDelete(c)
      BY <1>0, <3>1 DEF CleanupDelete, NoLateDelete, TypeOK
    <3>. QED BY <1>0, <1>3, <2>1, <3>1 DEF CleanupStep, CleanupExec, CleanupCard, TypeOK
  <2>4. UNCHANGED <<run, itemOf, saver, requested>>
    BY <1>3 DEF CleanupStep, CleanupExec, CleanupCard, CleanupDelete
  <2>5. \A t \in Task : run[t] = "running" => itemOf[t] \in Item
    BY DEF IInv, TaskInv
  <2>. QED BY <2>2, <2>3, <2>4, <2>5 DEF ActiveIsReported
<1>4. ASSUME UNCHANGED <<itemOf, itemSet>>, requested \subseteq requested',
             \A t \in Task : /\ run'[t] = "running" => run[t] = "running"
                             /\ saver'[t] = "done" => saver[t] = "done"
      PROVE  ActiveIsReported'
  BY <1>4 DEF ActiveIsReported
<1>5. ASSUME NEW t \in Task, Finish(t) PROVE ActiveIsReported'
  BY <1>0, <1>4, <1>5 DEF Finish, TypeOK
<1>6. ASSUME NEW n \in Node, NEW t \in Task, Listen(n, t) PROVE ActiveIsReported'
  BY <1>0, <1>4, <1>6 DEF Listen, TypeOK
<1>7. ASSUME NEW n \in Node, Crash(n) PROVE ActiveIsReported'
  BY <1>0, <1>4, <1>7 DEF Crash, TypeOK
<1>8. ASSUME UNCHANGED <<run, itemOf, saver, itemSet>>, requested \subseteq requested'
      PROVE  ActiveIsReported'
  BY <1>4, <1>8
<1>. QED BY <1>1, <1>2, <1>3, <1>5, <1>6, <1>7, <1>8
         DEF Next, CallStopTask, CallStopItemTasks, StopStep, NextTask, Answer, StopLookup,
             StopPublish, Restart, vars

\* tasks.py:200: for any number of processes, requests and crashes,
\* has_active_tasks misses a task only where SCARD and DELETE leave a gap.
THEOREM MissesOnlyInGap == Spec => MissesOnlyByLateDeletes
<1>1. Init => IInv /\ ActiveIsReported
  BY InvInit DEF Init, ActiveIsReported
<1>2. IInv /\ ActiveIsReported /\ NoLateDelete /\ [Next]_vars => IInv' /\ ActiveIsReported'
  BY InvStep, ReportedStep
<1>. QED BY <1>1, <1>2, PTL DEF Spec, MissesOnlyByLateDeletes

-----------------------------------------------------------------------------
(* What is left when all is over                                           *)

\* As long as no process crashes and no task ends before it is saved, a member
\* of an item's set runs, or its own cleanup is still to take it out.
MemberInv ==
  /\ \A t \in Task : run[t] # "lost"
  /\ \A i \in Item : \A t \in itemSet[i] :
       run[t] \in {"running", "cancelling"} \/ cleanup[t].pc = "exec"

LEMMA MemberStep ==
  ASSUME IInv, [Next]_vars, NoLateSave, crashes' = 0, MemberInv
  PROVE  MemberInv'
<1>0. TypeOK /\ \A t \in Task : t \in Cleaner /\ t \notin Stopper
  BY DisjointAssumption DEF IInv, Cleaner
<1>. USE DEF redis, created, faults
<1>1. ASSUME \A t \in Task : /\ run'[t] # "lost"
                             /\ run[t] \in {"running", "cancelling"} =>
                                  run'[t] \in {"running", "cancelling"}
                             /\ cleanup[t].pc = "exec" => cleanup'[t].pc = "exec",
             \A i \in Item : itemSet'[i] \subseteq itemSet[i]
      PROVE  MemberInv'
  BY <1>0, <1>1 DEF MemberInv, TypeOK
<1>2. ASSUME NEW t \in Task, NEW i \in Item, NEW n \in Node, CreateTask(t, i, n) PROVE MemberInv'
  BY <1>0, <1>1, <1>2 DEF CreateTask, MemberInv, TypeOK
<1>3. ASSUME NEW t \in Task, SaveTask(t) PROVE MemberInv'
  <2>1. run[t] \in {"running", "cancelling"}
    BY <1>0, <1>3 DEF SaveTask, NoLateSave, MemberInv, IInv, TaskInv, TypeOK
  <2>2. /\ \A i \in Item : itemSet'[i] \subseteq itemSet[i] \cup {t}
        /\ UNCHANGED <<run, cleanup>>
    BY <1>0, <1>3 DEF SaveTask, TypeOK
  <2>. QED BY <2>1, <2>2 DEF MemberInv
<1>4. ASSUME NEW t \in Task, Finish(t) PROVE MemberInv'
  <2>1. /\ cleanup'[t].pc = "exec" /\ run'[t] = "done" /\ UNCHANGED itemSet
        /\ \A u \in Task \ {t} : cleanup'[u] = cleanup[u] /\ run'[u] = run[u]
    BY <1>0, <1>4 DEF Finish, TypeOK
  <2>. QED BY <1>0, <2>1 DEF MemberInv, TypeOK
<1>5. ASSUME NEW n \in Node, NEW t \in Task, Listen(n, t) PROVE MemberInv'
  BY <1>0, <1>1, <1>5 DEF Listen, MemberInv, TypeOK
<1>6. ASSUME NEW c \in Cleaner, CleanupStep(c) PROVE MemberInv'
  <2>1. /\ UNCHANGED run
        /\ \A i \in Item : itemSet'[i] \subseteq itemSet[i]
        /\ \A t \in Task \ {c} : cleanup'[t] = cleanup[t]
    BY <1>0, <1>6
       DEF CleanupStep, CleanupExec, CleanupCard, CleanupDelete, CleanupReturns, TypeOK
  <2>2. CASE c \in Task /\ CleanupExec(c)
    <3>1. cleanup[c].task = c /\ cleanup[c].item = itemOf[c] /\ cleanup[c].item # None
      BY <2>2 DEF CleanupExec, IInv, CleanupInv
    <3>2. \A i \in Item : c \in itemSet[i] => i = itemOf[c]
      BY DEF IInv, SavedInv, MembersHaveEntries
    <3>3. \A i \in Item : c \notin itemSet'[i]
      BY <1>0, <2>2, <3>1, <3>2 DEF CleanupExec, TypeOK
    <3>. QED BY <1>0, <2>1, <3>3 DEF MemberInv, TypeOK
  <2>3. CASE ~(c \in Task /\ CleanupExec(c))
    <3>1. \A t \in Task : cleanup[t].pc = "exec" => cleanup'[t].pc = "exec"
      BY <1>6, <2>1, <2>3 DEF CleanupStep, CleanupCard, CleanupDelete
    <3>. QED BY <1>1, <2>1, <3>1 DEF MemberInv
  <2>. QED BY <2>2, <2>3
<1>7. ASSUME NEW s \in Stopper, StopPublish(s) PROVE MemberInv'
  <2>1. \A t \in Task : cleanup'[t] = cleanup[t]
    BY <1>0, <1>7 DEF StopPublish, TypeOK
  <2>. QED BY <1>1, <1>7, <2>1 DEF StopPublish, MemberInv
<1>8. ASSUME NEW n \in Node, Crash(n) PROVE FALSE
  BY <1>0, <1>8 DEF Crash, TypeOK
<1>9. ASSUME UNCHANGED <<run, cleanup, itemSet>> PROVE MemberInv'
  BY <1>1, <1>9 DEF MemberInv
<1>. QED BY <1>2, <1>3, <1>4, <1>5, <1>6, <1>7, <1>8, <1>9
         DEF Next, CallStopTask, CallStopItemTasks, StopStep, NextTask, Answer, StopLookup,
             Restart, vars

\* tasks.py:200: whatever stop requests and cleanups meet, a chat shows a task
\* that is over only after a crash or a task that ended before it was saved.
THEOREM GhostsOnlyByGaps == Spec => GhostsOnlyByLateSaves
<1>1. Init => IInv /\ MemberInv
  BY InvInit DEF Init, MemberInv
<1>2. IInv /\ MemberInv /\ NoLateSave /\ NoLateSave' /\ [Next]_vars => IInv' /\ MemberInv'
  BY InvStep, MemberStep DEF NoLateSave
<1>3. IInv /\ MemberInv => NoGhosts
  <2>. SUFFICES ASSUME IInv, MemberInv, NEW i \in Item, itemSet[i] # {},
                       \A t \in Task : /\ run[t] \in {"new", "done"}
                                       /\ cleanup[t].pc = "idle"
                PROVE  FALSE
    BY DEF NoGhosts
  <2>1. PICK t \in Task : t \in itemSet[i]
    BY DEF IInv, TypeOK
  <2>. QED BY <2>1 DEF MemberInv
<1>. QED BY <1>1, <1>2, <1>3, PTL DEF Spec, GhostsOnlyByLateSaves

=============================================================================
