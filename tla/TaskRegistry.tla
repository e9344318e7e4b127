---------------------------- MODULE TaskRegistry ----------------------------
(***************************************************************************)
(* What tasks.py promises its callers, independent of where the registry   *)
(* is kept: a task belongs to one item (a chat or a shared document), it   *)
(* is reported for that item from its creation, and the report is only     *)
(* withdrawn after the task has ended.                                     *)
(***************************************************************************)
CONSTANTS
  Task,   \* task identifiers (the uuid4 of create_task)
  Item    \* chat ids and document ids tasks are attached to

VARIABLES
  alive,    \* [Item -> SUBSET Task]: tasks whose coroutine has not ended
  reported  \* [Item -> SUBSET Task]: what list_task_ids_by_item_id returns

vars == <<alive, reported>>

TypeOK ==
  /\ alive \in [Item -> SUBSET Task]
  /\ reported \in [Item -> SUBSET Task]

Init ==
  /\ alive = [i \in Item |-> {}]
  /\ reported = [i \in Item |-> {}]

\* A new task starts to run and is reported in the same step.
Register(t, i) ==
  /\ \A j \in Item : t \notin alive[j] \cup reported[j]
  /\ alive' = [alive EXCEPT ![i] = @ \cup {t}]
  /\ reported' = [reported EXCEPT ![i] = @ \cup {t}]

\* The coroutine returns, raises or is cancelled.
End(t, i) ==
  /\ t \in alive[i]
  /\ alive' = [alive EXCEPT ![i] = @ \ {t}]
  /\ UNCHANGED reported

\* The registry forgets an ended task.
Forget(t, i) ==
  /\ t \in reported[i] \ alive[i]
  /\ reported' = [reported EXCEPT ![i] = @ \ {t}]
  /\ UNCHANGED alive

Next == \E t \in Task, i \in Item : Register(t, i) \/ End(t, i) \/ Forget(t, i)

Spec == Init /\ [][Next]_vars

=============================================================================
