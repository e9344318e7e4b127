-------------------------- MODULE LocalTasksProofs --------------------------
(***************************************************************************)
(* Proofs about LocalTasks, for every set of tasks, items and requests:    *)
(* its types, that it implements TaskRegistry, that it leaves nothing of   *)
(* an ended task, and that who is told so has really stopped a task.       *)
(***************************************************************************)
EXTENDS LocalTasks, SequenceTheorems, FiniteSetTheorems, TLAPS

-----------------------------------------------------------------------------
(* Sequences                                                               *)

\* A nonempty set of natural numbers has the minimum that Min chooses.
LEMMA MinProperties ==
  ASSUME NEW S \in SUBSET Nat, S # {}
  PROVE  Min(S) \in S /\ \A y \in S : Min(S) <= y
<1>1. PICK x \in S : \A y \in S : ~ (<<y, x>> \in OpToRel(<, Nat))
  BY NatLessThanWellFounded, WFMin
<1>2. \A y \in S : x <= y
  <2>. SUFFICES ASSUME NEW y \in S PROVE x <= y
    OBVIOUS
  <2>1. ~ (y < x)
    BY <1>1 DEF OpToRel
  <2>. QED BY <2>1
<1>. QED BY <1>2 DEF Min

\* list.remove takes out one position that holds the element, if there is one.
LEMMA RemoveFirstCases ==
  ASSUME NEW S, NEW s \in Seq(S), NEW e
  PROVE  \/ (\A k \in 1..Len(s) : s[k] # e) /\ RemoveFirst(s, e) = s
         \/ \E k \in 1..Len(s) : s[k] = e /\ RemoveFirst(s, e) = RemoveAt(s, k)
<1>1. CASE \E k \in 1..Len(s) : s[k] = e
  <2>. DEFINE I == {k \in 1..Len(s) : s[k] = e}
  <2>1. I # {} /\ I \in SUBSET Nat
    BY <1>1
  <2>2. Min(I) \in I
    BY <2>1, MinProperties
  <2>3. RemoveFirst(s, e) = RemoveAt(s, Min(I))
    BY <1>1, <2>1 DEF RemoveFirst, SelectInSeq
  <2>. QED BY <2>2, <2>3
<1>2. CASE ~ \E k \in 1..Len(s) : s[k] = e
  BY <1>2 DEF RemoveFirst
<1>. QED BY <1>1, <1>2

\* What removing a position does to the other positions.
LEMMA RemoveAtProperties ==
  ASSUME NEW S, NEW s \in Seq(S), NEW k \in 1..Len(s)
  PROVE  /\ RemoveAt(s, k) \in Seq(S)
         /\ Len(RemoveAt(s, k)) = Len(s) - 1
         /\ \A j \in 1..Len(s)-1 :
              RemoveAt(s, k)[j] = IF j < k THEN s[j] ELSE s[j+1]
<1>. DEFINE a == SubSeq(s, 1, k-1)
            b == SubSeq(s, k+1, Len(s))
<1>0. Len(s) \in Nat /\ k \in Int
  BY LenProperties
<1>1. /\ a \in Seq(S) /\ Len(a) = k-1
      /\ \A i \in 1..k-1 : a[i] = s[i]
  <2>1. \A i \in 1..k-1 : s[i] \in S
    BY <1>0, ElementOfSeq
  <2>. QED BY <1>0, <2>1, SubSeqProperties
<1>2. /\ b \in Seq(S) /\ Len(b) = Len(s) - k
      /\ \A i \in 1..Len(s)-k : b[i] = s[k+i]
  <2>1. \A i \in k+1..Len(s) : s[i] \in S
    BY <1>0, ElementOfSeq
  <2>2. /\ b \in Seq(S)
        /\ Len(b) = IF k+1 <= Len(s) THEN Len(s)-(k+1)+1 ELSE 0
        /\ \A i \in 1..Len(s)-(k+1)+1 : b[i] = s[(k+1)+i-1]
    BY <1>0, <2>1, SubSeqProperties
  <2>. QED BY <1>0, <2>2
<1>3. RemoveAt(s, k) = a \o b
  BY DEF RemoveAt
<1>. HIDE DEF a, b
<1>4. /\ a \o b \in Seq(S)
      /\ Len(a \o b) = Len(a) + Len(b)
      /\ \A i \in 1..Len(a) + Len(b) :
           (a \o b)[i] = IF i <= Len(a) THEN a[i] ELSE b[i - Len(a)]
  BY <1>1, <1>2, ConcatProperties
<1>5. \A j \in 1..Len(s)-1 : (a \o b)[j] = IF j < k THEN s[j] ELSE s[j+1]
  <2>. SUFFICES ASSUME NEW j \in 1..Len(s)-1
               PROVE (a \o b)[j] = IF j < k THEN s[j] ELSE s[j+1]
    OBVIOUS
  <2>1. (a \o b)[j] = IF j <= k-1 THEN a[j] ELSE b[j - (k-1)]
    BY <1>0, <1>1, <1>2, <1>4
  <2>2. CASE j < k
    BY <1>0, <1>1, <2>1, <2>2
  <2>3. CASE ~(j < k)
    <3>1. j - (k-1) \in 1..Len(s)-k /\ k + (j - (k-1)) = j+1
      BY <1>0, <2>3
    <3>. QED BY <1>0, <1>2, <2>1, <2>3, <3>1
  <2>. QED BY <2>2, <2>3
<1>6. Len(a) + Len(b) = Len(s) - 1
  BY <1>0, <1>1, <1>2
<1>. QED BY <1>3, <1>4, <1>5, <1>6

\* Removal keeps a list a list of the same elements.
LEMMA RemoveFirstType ==
  ASSUME NEW S, NEW s \in Seq(S), NEW e
  PROVE  RemoveFirst(s, e) \in Seq(S)
BY RemoveFirstCases, RemoveAtProperties

LEMMA HeadIsFirst ==
  ASSUME NEW S, NEW s \in Seq(S), s # << >>
  PROVE  Head(s) = s[1]
OBVIOUS

\* A finite set can be laid out as a sequence.
LEMMA SetToSeqType ==
  ASSUME NEW S, IsFiniteSet(S)
  PROVE  SetToSeq(S) \in Seq(S)
<1>1. Cardinality(S) \in Nat /\ ExistsBijection(1..Cardinality(S), S)
  BY FS_CardinalityType
<1>2. \E f \in [1..Cardinality(S) -> S] : IsInjective(f)
  BY <1>1 DEF ExistsBijection, Bijection, Injection, IsInjective
<1>3. SetToSeq(S) \in [1..Cardinality(S) -> S]
  BY <1>2 DEF SetToSeq
<1>. QED BY <1>1, <1>3

\* Removal invents no element, loses none but e, and creates no duplicate.
LEMMA RemoveFirstElements ==
  ASSUME NEW S, NEW s \in Seq(S), NEW e, NEW r, r = RemoveFirst(s, e)
  PROVE  /\ \A j \in 1..Len(r) : \E k \in 1..Len(s) : r[j] = s[k]
         /\ \A k \in 1..Len(s) : s[k] # e => \E j \in 1..Len(r) : r[j] = s[k]
         /\ (\A j, k \in 1..Len(s) : s[j] = s[k] => j = k)
              => \A j, k \in 1..Len(r) : r[j] = r[k] => j = k
<1>0. Len(s) \in Nat
  BY LenProperties
<1>1. CASE r = s
  BY <1>1
<1>2. ASSUME NEW n \in 1..Len(s), s[n] = e, r = RemoveAt(s, n)
      PROVE  /\ \A j \in 1..Len(r) : \E k \in 1..Len(s) : r[j] = s[k]
             /\ \A k \in 1..Len(s) : s[k] # e => \E j \in 1..Len(r) : r[j] = s[k]
             /\ (\A j, k \in 1..Len(s) : s[j] = s[k] => j = k)
                  => \A j, k \in 1..Len(r) : r[j] = r[k] => j = k
  <2>1. /\ Len(r) = Len(s) - 1
        /\ \A j \in 1..Len(s)-1 : r[j] = IF j < n THEN s[j] ELSE s[j+1]
    BY <1>2, RemoveAtProperties
  <2>2. ASSUME NEW j \in 1..Len(r) PROVE \E k \in 1..Len(s) : r[j] = s[k]
    <3>1. j \in 1..Len(s) /\ j+1 \in 1..Len(s)
      BY <1>0, <2>1
    <3>. QED BY <2>1, <3>1
  <2>3. ASSUME NEW k \in 1..Len(s), s[k] # e PROVE \E j \in 1..Len(r) : r[j] = s[k]
    <3>1. CASE k < n
      <4>1. k \in 1..Len(r) /\ r[k] = s[k]
        BY <1>0, <2>1, <3>1
      <4>. QED BY <4>1
    <3>2. CASE ~(k < n)
      <4>1. k # n
        BY <1>2, <2>3
      <4>2. k-1 \in 1..Len(r) /\ ~(k-1 < n) /\ (k-1)+1 = k
        BY <1>0, <2>1, <3>2, <4>1
      <4>3. r[k-1] = s[k]
        BY <2>1, <4>2
      <4>. QED BY <4>2, <4>3
    <3>. QED BY <3>1, <3>2
  <2>4. ASSUME \A j, k \in 1..Len(s) : s[j] = s[k] => j = k,
               NEW j \in 1..Len(r), NEW k \in 1..Len(r), r[j] = r[k]
        PROVE  j = k
    <3>. DEFINE at(x) == IF x < n THEN x ELSE x+1
    <3>1. at(j) \in 1..Len(s) /\ at(k) \in 1..Len(s)
      BY <1>0, <2>1
    <3>2. r[j] = s[at(j)] /\ r[k] = s[at(k)]
      BY <2>1
    <3>3. at(j) = at(k)
      BY <2>4, <3>1, <3>2
    <3>. QED BY <1>0, <2>1, <3>3
  <2>. QED BY <2>2, <2>3, <2>4
<1>. QED BY <1>1, <1>2, RemoveFirstCases

\* A list without duplicates.
NoDuplicates(s) == \A j, k \in 1..Len(s) : s[j] = s[k] => j = k

LEMMA RemoveFirstNoDuplicates ==
  ASSUME NEW S, NEW s \in Seq(S), NEW e, NoDuplicates(s)
  PROVE  NoDuplicates(RemoveFirst(s, e))
<1>. DEFINE r == RemoveFirst(s, e)
<1>1. r = RemoveFirst(s, e)
  OBVIOUS
<1>. HIDE DEF r
<1>. QED BY <1>1, RemoveFirstElements DEF NoDuplicates

-----------------------------------------------------------------------------
(* Types                                                                   *)

\* A request record stays well formed when its fields get values of their types.
LEMMA StopperUpdateType ==
  ASSUME NEW r \in StopperState
  PROVE  /\ \A p \in {"idle", "step", "await"} : [r EXCEPT !.pc = p] \in StopperState
         /\ \A x \in {"none", "ok", "failed", "raised"} : [r EXCEPT !.result = x] \in StopperState
         /\ \A t \in Task \cup {None} : [r EXCEPT !.task = t] \in StopperState
         /\ \A n \in Nat : [r EXCEPT !.index = n] \in StopperState
         /\ \A b \in BOOLEAN : [r EXCEPT !.attached = b] \in StopperState
BY DEF StopperState

\* Each answer of a request leaves a well-formed request record.
LEMMA AnswerType ==
  ASSUME TypeOK, NEW s \in Stopper, NEW r \in {"none", "ok", "failed", "raised"},
         Answer(s, r)
  PROVE  stopper' \in [Stopper -> StopperState] /\ cpu' \in Stopper \cup {None}
<1>. DEFINE new == [stopper[s] EXCEPT !.pc = "idle", !.result = r, !.task = None, !.attached = FALSE]
<1>1. stopper[s] \in StopperState
  BY DEF TypeOK
<1>2. new \in StopperState
  BY <1>1 DEF StopperState
<1>3. stopper' = [stopper EXCEPT ![s] = new]
  BY DEF Answer
<1>. HIDE DEF new
<1>. QED BY <1>2, <1>3 DEF TypeOK, Answer

LEMMA ResumeType ==
  ASSUME TypeOK, NEW s \in Stopper, NEW t, Resume(s, t)
  PROVE  stopper' \in [Stopper -> StopperState] /\ cpu' \in Stopper \cup {None}
<1>1. CASE Answer(s, "raised") \/ Answer(s, "ok")
  BY <1>1, AnswerType
<1>2. CASE /\ stopper' = [stopper EXCEPT ![s] = [stopper[s] EXCEPT !.pc = "step", !.task = None]]
           /\ cpu' = s
  <2>. DEFINE new == [stopper[s] EXCEPT !.pc = "step", !.task = None]
  <2>1. new \in StopperState
    BY DEF TypeOK, StopperState
  <2>2. stopper' = [stopper EXCEPT ![s] = new]
    BY <1>2
  <2>. HIDE DEF new
  <2>. QED BY <1>2, <2>1, <2>2 DEF TypeOK
<1>. QED BY <1>1, <1>2 DEF Resume

\* The wake-ups of the requests that await a task form a sequence.
LEMMA FinishedWaiters ==
  ASSUME NEW t
  PROVE  SetToSeq({[kind |-> "wakeup", stopper |-> s] : s \in Waiters(t)})
           \in Seq({[kind |-> "wakeup", stopper |-> s] : s \in Waiters(t)})
<1>. DEFINE W == {[kind |-> "wakeup", stopper |-> s] : s \in Waiters(t)}
            f == [s \in Waiters(t) |-> [kind |-> "wakeup", stopper |-> s]]
<1>1. IsFiniteSet(Waiters(t))
  BY StopperAssumption, FS_Subset DEF Waiters
<1>2. f \in Surjection(Waiters(t), W)
  BY DEF Surjection
<1>3. IsFiniteSet(W)
  BY <1>1, <1>2, FS_Surjection
<1>. QED BY <1>3, SetToSeqType

LEMMA TypeInit == Init => TypeOK
BY EmptySeq DEF Init, TypeOK, Status, Outcome, StopperState, IdleStopper

LEMMA TypeStep == TypeOK /\ [Next]_vars => TypeOK'
<1>. SUFFICES ASSUME TypeOK, [Next]_vars PROVE TypeOK'
  OBVIOUS
<1>1. ASSUME NEW t \in Task, NEW i \in Item, CreateTask(t, i) PROVE TypeOK'
  <2>1. Append(itemTasks[i], t) \in Seq(Task)
    BY AppendProperties DEF TypeOK
  <2>. QED BY <1>1, <2>1 DEF TypeOK, CreateTask, Status
<1>2. ASSUME NEW t \in Task, Finish(t) PROVE TypeOK'
  <2>. DEFINE W == {[kind |-> "wakeup", stopper |-> s] : s \in Waiters(t)}
  <2>1. IsFiniteSet(W)
    <3>1. IsFiniteSet(Waiters(t))
      BY StopperAssumption, FS_Subset DEF Waiters
    <3>. DEFINE f == [s \in Waiters(t) |-> [kind |-> "wakeup", stopper |-> s]]
    <3>2. f \in Surjection(Waiters(t), W)
      BY DEF Surjection
    <3>. QED BY <3>1, <3>2, FS_Surjection
  <2>2. SetToSeq(W) \in Seq(Handle)
    <3>1. W \subseteq Handle
      BY DEF Waiters, Handle
    <3>. QED BY <2>1, <3>1, SetToSeqType, SeqMonotonic
  <2>3. <<[kind |-> "callback", task |-> t]>> \in Seq(Handle)
    BY DEF Handle
  <2>4. ready' \in Seq(Handle)
    BY <1>2, <2>2, <2>3, ConcatProperties DEF TypeOK, Finish
  <2>5. outcome' \in [Task -> Outcome]
    BY <1>2 DEF TypeOK, Finish, PossibleOutcomes, Outcome
  <2>. QED BY <1>2, <2>4, <2>5 DEF TypeOK, Finish, Status
<1>3. ASSUME NEW t \in Task, RunCallback(t) PROVE TypeOK'
  <2>1. Append(Tail(ready), [kind |-> "cleanup", task |-> t]) \in Seq(Handle)
    <3>1. [kind |-> "cleanup", task |-> t] \in Handle
      BY DEF Handle
    <3>2. Tail(ready) \in Seq(Handle)
      BY <1>3, HeadTailProperties DEF TypeOK, RunCallback
    <3>. QED BY <3>1, <3>2, AppendProperties
  <2>. QED BY <1>3, <2>1 DEF TypeOK, RunCallback
<1>4. ASSUME NEW t \in Task, Cleanup(t) PROVE TypeOK'
  <2>1. itemTasks' \in [Item -> Seq(Task)]
    BY <1>4, RemoveFirstType DEF TypeOK, Cleanup
  <2>2. ready' \in Seq(Handle)
    BY <1>4, HeadTailProperties DEF TypeOK, Cleanup
  <2>3. stopper' \in [Stopper -> StopperState]
    <3>1. \A s \in Stopper : stopper[s].attached \in BOOLEAN
      BY DEF TypeOK, StopperState
    <3>2. \A s \in Stopper, b \in BOOLEAN : [stopper[s] EXCEPT !.attached = b] \in StopperState
      BY StopperUpdateType DEF TypeOK
    <3>. QED BY <1>4, <3>1, <3>2 DEF Cleanup
  <2>. QED BY <1>4, <2>1, <2>2, <2>3 DEF TypeOK, Cleanup
<1>5. ASSUME NEW s \in Stopper, NEW t \in Task, CallStopTask(s, t) PROVE TypeOK'
  BY <1>5 DEF TypeOK, CallStopTask, StopperState, IdleStopper
<1>6. ASSUME NEW s \in Stopper, NEW i \in Item, CallStopItemTasks(s, i) PROVE TypeOK'
  <2>1. ToSet(itemTasks[i]) \in SUBSET Task
    BY LenProperties, ElementOfSeq DEF TypeOK, ToSet
  <2>. DEFINE answered == [IdleStopper EXCEPT !.item = i, !.result = "ok"]
              started  == [IdleStopper EXCEPT !.pc = "step", !.item = i, !.attached = TRUE,
                                              !.listed = ToSet(itemTasks[i])]
  <2>2. answered \in StopperState /\ started \in StopperState
    BY <2>1 DEF IdleStopper, StopperState
  <2>3. \/ stopper' = [stopper EXCEPT ![s] = answered] /\ UNCHANGED cpu
        \/ stopper' = [stopper EXCEPT ![s] = started] /\ cpu' = s
    BY <1>6 DEF CallStopItemTasks
  <2>. HIDE DEF answered, started
  <2>. QED BY <1>6, <2>2, <2>3 DEF TypeOK, CallStopItemTasks
<1>7. ASSUME NEW s \in Stopper, NextTask(s) PROVE TypeOK'
  <2>1. CASE stopper[s].index < Len(LoopList(s))
    <3>1. LoopList(s) \in Seq(Task) /\ stopper[s].index \in Nat
      BY <1>7, <2>1, EmptySeq DEF TypeOK, NextTask, LoopList, StopperState
    <3>2. LoopList(s)[stopper[s].index + 1] \in Task
      BY <2>1, <3>1, ElementOfSeq, LenProperties
    <3>. DEFINE new == [stopper[s] EXCEPT !.task = LoopList(s)[stopper[s].index + 1],
                                          !.index = stopper[s].index + 1]
    <3>3. new \in StopperState
      <4>1. stopper[s] \in StopperState /\ stopper[s].index + 1 \in Nat
        BY <3>1 DEF TypeOK
      <4>. QED BY <3>2, <4>1 DEF StopperState
    <3>4. stopper' = [stopper EXCEPT ![s] = new] /\ UNCHANGED cpu
      BY <1>7, <2>1 DEF NextTask
    <3>. HIDE DEF new
    <3>. QED BY <1>7, <3>3, <3>4 DEF TypeOK, NextTask
  <2>2. CASE ~(stopper[s].index < Len(LoopList(s)))
    BY <1>7, <2>2, AnswerType DEF TypeOK, NextTask
  <2>. QED BY <2>1, <2>2
<1>8. ASSUME NEW s \in Stopper, StopMissing(s) PROVE TypeOK'
  BY <1>8, AnswerType DEF TypeOK, StopMissing
<1>9. ASSUME NEW s \in Stopper, StopEnded(s) PROVE TypeOK'
  BY <1>9, ResumeType DEF TypeOK, StopEnded
<1>10. ASSUME NEW s \in Stopper, StopLive(s) PROVE TypeOK'
  <2>1. stopper' \in [Stopper -> StopperState]
    <3>1. [stopper[s] EXCEPT !.pc = "await"] \in StopperState
      BY StopperUpdateType DEF TypeOK
    <3>. QED BY <1>10, <3>1 DEF TypeOK, StopLive
  <2>. QED BY <1>10, <2>1 DEF TypeOK, StopLive, Status
<1>11. ASSUME NEW s \in Stopper, Wakeup(s) PROVE TypeOK'
  BY <1>11, ResumeType, HeadTailProperties DEF TypeOK, Wakeup
<1>12. CASE UNCHANGED vars
  BY <1>12 DEF TypeOK, vars
<1>. QED BY <1>1, <1>2, <1>3, <1>4, <1>5, <1>6, <1>7, <1>8, <1>9, <1>10, <1>11, <1>12
         DEF Next, ServeReady, RunRequest

\* The type invariant: every action of the event loop keeps the dictionaries,
\* the queue and the requests well formed.
THEOREM TypeCorrect == Spec => []TypeOK
BY TypeInit, TypeStep, PTL DEF Spec

-----------------------------------------------------------------------------
(* The reports are never too small                                         *)

\* Each element of a list is a task that was created for that item, a list
\* holds a task once, and only ended tasks have a cleanup coming.
ListsInv ==
  /\ \A i \in Item : \A j \in 1..Len(itemTasks[i]) :
       status[itemTasks[i][j]] # "new" /\ itemOf[itemTasks[i][j]] = i
  /\ \A i \in Item : \A j, k \in 1..Len(itemTasks[i]) :
       itemTasks[i][j] = itemTasks[i][k] => j = k

CleanupInv ==
  \A n \in 1..Len(ready) :
    ready[n].kind \in {"callback", "cleanup"} => status[ready[n].task] = "done"

ListedInv ==
  \A t \in Task : Live(t) =>
    itemOf[t] \in Item /\ \E k \in 1..Len(itemTasks[itemOf[t]]) : itemTasks[itemOf[t]][k] = t

IInv == TypeOK /\ ListsInv /\ CleanupInv /\ ListedInv

LEMMA InvInit == Init => IInv
<1>. SUFFICES ASSUME Init PROVE IInv
  OBVIOUS
<1>1. TypeOK
  BY TypeInit
<1>2. Len(<< >>) = 0
  BY EmptySeq
<1>. QED BY <1>1, <1>2 DEF Init, IInv, ListsInv, CleanupInv, ListedInv, Live

\* A step that leaves lists and creations alone, brings no task back to life
\* and schedules nothing preserves the invariant.
LEMMA QuietStep ==
  ASSUME IInv, TypeOK',
         UNCHANGED <<itemOf, itemTasks>>,
         \A t \in Task : status[t] # "new" => status'[t] # "new",
         \A t \in Task : Live(t)' => Live(t),
         \A t \in Task : status[t] = "done" => status'[t] = "done",
         \A n \in 1..Len(ready') : ready'[n].kind \in {"callback", "cleanup"} =>
            \/ status'[ready'[n].task] = "done"
            \/ \E m \in 1..Len(ready) : ready'[n] = ready[m]
  PROVE  IInv'
<1>1. ListsInv'
  <2>1. \A i \in Item : \A j \in 1..Len(itemTasks[i]) : itemTasks[i][j] \in Task
    BY ElementOfSeq DEF IInv, TypeOK
  <2>. QED BY <2>1 DEF IInv, ListsInv
<1>2. CleanupInv'
  <2>1. \A n \in 1..Len(ready) : ready[n].kind \in {"callback", "cleanup"} => ready[n].task \in Task
    <3>1. \A n \in 1..Len(ready) : ready[n] \in Handle
      BY ElementOfSeq DEF IInv, TypeOK
    <3>. QED BY <3>1 DEF Handle
  <2>. QED BY <2>1 DEF IInv, CleanupInv
<1>3. ListedInv'
  BY DEF IInv, ListedInv
<1>. QED BY <1>1, <1>2, <1>3 DEF IInv

LEMMA InvStep == IInv /\ [Next]_vars => IInv'
<1>. SUFFICES ASSUME IInv, [Next]_vars PROVE IInv'
  OBVIOUS
<1>0. TypeOK /\ TypeOK'
  BY TypeStep DEF IInv
<1>. USE DEF Live
<1>1. ASSUME NEW t \in Task, NEW i \in Item, CreateTask(t, i) PROVE IInv'
  <2>. DEFINE new == Append(itemTasks[i], t)
  <2>1. /\ Len(itemTasks[i]) \in Nat
        /\ Len(new) = Len(itemTasks[i]) + 1
        /\ \A j \in 1..Len(itemTasks[i]) : new[j] = itemTasks[i][j]
        /\ new[Len(itemTasks[i]) + 1] = t
    BY <1>0, AppendProperties, LenProperties DEF TypeOK
  <2>2. /\ status' = [status EXCEPT ![t] = "running"]
        /\ itemOf' = [itemOf EXCEPT ![t] = i]
        /\ itemTasks' = [itemTasks EXCEPT ![i] = new]
        /\ ready' = ready /\ status[t] = "new"
    BY <1>1 DEF CreateTask
  <2>. HIDE DEF new
  <2>3. \A h \in Item : \A j \in 1..Len(itemTasks[h]) :
          itemTasks[h][j] \in Task /\ itemTasks[h][j] # t
    BY <2>2, ElementOfSeq DEF IInv, TypeOK, ListsInv
  <2>4. ListsInv'
    <3>1. \A h \in Item \ {i} : itemTasks'[h] = itemTasks[h]
      BY <1>0, <2>2 DEF TypeOK
    <3>2. itemTasks'[i] = new
      BY <1>0, <2>2 DEF TypeOK
    <3>3. ASSUME NEW h \in Item, NEW j \in 1..Len(itemTasks'[h])
          PROVE  status'[itemTasks'[h][j]] # "new" /\ itemOf'[itemTasks'[h][j]] = h
      <4>1. CASE h # i
        BY <1>0, <2>2, <2>3, <3>1, <3>3, <4>1 DEF TypeOK, IInv, ListsInv
      <4>2. CASE h = i /\ j <= Len(itemTasks[i])
        <5>1. j \in 1..Len(itemTasks[i]) /\ new[j] = itemTasks[i][j]
          BY <2>1, <3>2, <3>3, <4>2
        <5>. QED BY <1>0, <2>2, <2>3, <3>2, <4>2, <5>1 DEF TypeOK, IInv, ListsInv
      <4>3. CASE h = i /\ ~(j <= Len(itemTasks[i]))
        <5>1. j = Len(itemTasks[i]) + 1
          BY <2>1, <3>2, <3>3, <4>3
        <5>. QED BY <1>0, <2>1, <2>2, <3>2, <4>3, <5>1 DEF TypeOK
      <4>. QED BY <4>1, <4>2, <4>3
    <3>4. ASSUME NEW h \in Item, NEW j \in 1..Len(itemTasks'[h]), NEW k \in 1..Len(itemTasks'[h]),
                 itemTasks'[h][j] = itemTasks'[h][k]
          PROVE  j = k
      <4>1. CASE h # i
        BY <3>1, <3>4, <4>1 DEF IInv, ListsInv
      <4>2. CASE h = i
        <5>1. \A x \in 1..Len(new) :
                \/ x \in 1..Len(itemTasks[i]) /\ new[x] = itemTasks[i][x] /\ new[x] # t
                \/ x = Len(itemTasks[i]) + 1 /\ new[x] = t
          BY <2>1, <2>3
        <5>. QED BY <3>2, <3>4, <4>2, <5>1 DEF IInv, ListsInv
      <4>. QED BY <4>1, <4>2
    <3>. QED BY <3>3, <3>4 DEF ListsInv
  <2>5. CleanupInv'
    <3>1. \A n \in 1..Len(ready) : ready[n] \in Handle
      BY <1>0, ElementOfSeq DEF TypeOK
    <3>2. \A n \in 1..Len(ready) : ready[n].kind \in {"callback", "cleanup"} =>
             ready[n].task \in Task /\ ready[n].task # t
      BY <2>2, <3>1 DEF Handle, IInv, CleanupInv
    <3>. QED BY <1>0, <2>2, <3>2 DEF TypeOK, IInv, CleanupInv
  <2>6. ListedInv'
    <3>. SUFFICES ASSUME NEW u \in Task, Live(u)'
                 PROVE  /\ itemOf'[u] \in Item
                        /\ \E k \in 1..Len(itemTasks'[itemOf'[u]]) : itemTasks'[itemOf'[u]][k] = u
      BY DEF ListedInv
    <3>1. CASE u = t
      <4>1. itemOf'[u] = i /\ itemTasks'[i] = new
        BY <1>0, <2>2, <3>1 DEF TypeOK
      <4>2. Len(itemTasks[i]) + 1 \in 1..Len(new)
        BY <2>1
      <4>. QED BY <2>1, <3>1, <4>1, <4>2
    <3>2. CASE u # t
      <4>1. itemOf'[u] = itemOf[u] /\ Live(u)
        BY <1>0, <2>2, <3>2 DEF TypeOK
      <4>2. itemOf[u] \in Item
        BY <4>1 DEF IInv, ListedInv
      <4>3. PICK k \in 1..Len(itemTasks[itemOf[u]]) : itemTasks[itemOf[u]][k] = u
        BY <4>1 DEF IInv, ListedInv
      <4>4. CASE itemOf[u] = i
        <5>1. k \in 1..Len(new) /\ new[k] = u
          BY <2>1, <4>3, <4>4
        <5>. QED BY <1>0, <2>2, <4>1, <4>4, <5>1 DEF TypeOK
      <4>5. CASE itemOf[u] # i
        BY <1>0, <2>2, <4>1, <4>2, <4>3, <4>5 DEF TypeOK
      <4>. QED BY <4>4, <4>5
    <3>. QED BY <3>1, <3>2
  <2>. QED BY <1>0, <2>4, <2>5, <2>6 DEF IInv
<1>2. ASSUME NEW t \in Task, Finish(t) PROVE IInv'
  <2>. DEFINE W == SetToSeq({[kind |-> "wakeup", stopper |-> s] : s \in Waiters(t)})
              X == <<[kind |-> "callback", task |-> t]>>
  <2>1. ready' = ready \o X \o W /\ status' = [status EXCEPT ![t] = "done"]
    BY <1>2 DEF Finish
  <2>2. W \in Seq({[kind |-> "wakeup", stopper |-> s] : s \in Waiters(t)})
    BY FinishedWaiters
  <2>3. W \in Seq(Handle) /\ X \in Seq(Handle) /\ Len(X) = 1 /\ X[1] = [kind |-> "callback", task |-> t]
    <3>1. {[kind |-> "wakeup", stopper |-> s] : s \in Waiters(t)} \subseteq Handle
      BY DEF Waiters, Handle
    <3>. QED BY <2>2, <3>1, SeqMonotonic DEF Handle
  <2>. HIDE DEF W, X
  <2>4. /\ Len(ready') = Len(ready) + 1 + Len(W)
        /\ \A n \in 1..Len(ready') :
             ready'[n] = IF n <= Len(ready) THEN ready[n]
                         ELSE IF n = Len(ready) + 1 THEN X[1]
                         ELSE W[n - (Len(ready) + 1)]
    <3>1. /\ ready \o X \in Seq(Handle) /\ Len(ready \o X) = Len(ready) + 1
          /\ \A n \in 1..Len(ready)+1 :
               (ready \o X)[n] = IF n <= Len(ready) THEN ready[n] ELSE X[n - Len(ready)]
      <4>1. ready \in Seq(Handle) /\ Len(ready) \in Nat
        BY <1>0, LenProperties DEF TypeOK
      <4>2. X \in Seq(Handle) /\ Len(X) = 1
        BY <2>3
      <4>3. /\ ready \o X \in Seq(Handle) /\ Len(ready \o X) = Len(ready) + Len(X)
            /\ \A n \in 1..Len(ready) + Len(X) :
                 (ready \o X)[n] = IF n <= Len(ready) THEN ready[n] ELSE X[n - Len(ready)]
        BY ONLY <4>1, <4>2, ConcatProperties
      <4>. QED BY <4>2, <4>3
    <3>2. /\ Len((ready \o X) \o W) = Len(ready \o X) + Len(W)
          /\ \A n \in 1..Len(ready \o X) + Len(W) :
               ((ready \o X) \o W)[n] = IF n <= Len(ready \o X) THEN (ready \o X)[n]
                                        ELSE W[n - Len(ready \o X)]
      <4>1. W \in Seq(Handle) /\ ready \o X \in Seq(Handle)
        BY <2>3, <3>1
      <4>. QED BY ONLY <4>1, ConcatProperties
    <3>3. Len(ready) \in Nat /\ Len(W) \in Nat
      BY <1>0, <2>3, LenProperties DEF TypeOK
    <3>. QED BY <2>1, <3>1, <3>2, <3>3
  <2>5. ASSUME NEW n \in 1..Len(ready'), ready'[n].kind \in {"callback", "cleanup"}
        PROVE  status'[ready'[n].task] = "done" \/ \E m \in 1..Len(ready) : ready'[n] = ready[m]
    <3>1. Len(ready) \in Nat /\ Len(W) \in Nat
      BY <1>0, <2>3, LenProperties DEF TypeOK
    <3>2. CASE n <= Len(ready)
      BY <2>4, <3>1, <3>2
    <3>3. CASE n = Len(ready) + 1
      BY <1>0, <2>1, <2>3, <2>4, <3>1, <3>3 DEF TypeOK
    <3>4. CASE n > Len(ready) + 1
      <4>1. n - (Len(ready) + 1) \in 1..Len(W)
        BY <2>4, <3>1, <3>4
      <4>2. W[n - (Len(ready) + 1)].kind = "wakeup"
        BY <2>2, <4>1, ElementOfSeq
      <4>. QED BY <2>4, <2>5, <3>1, <3>4, <4>2
    <3>. QED BY <3>1, <3>2, <3>3, <3>4
  <2>6. UNCHANGED <<itemOf, itemTasks>> /\ \A u \in Task : Live(u)' => Live(u)
    BY <1>0, <1>2, <2>1 DEF Finish, TypeOK
  <2>7. /\ \A u \in Task : status[u] # "new" => status'[u] # "new"
        /\ \A u \in Task : status[u] = "done" => status'[u] = "done"
    BY <1>0, <2>1 DEF TypeOK
  <2>. QED BY <1>0, <2>5, <2>6, <2>7, QuietStep
<1>3. ASSUME NEW t \in Task, RunCallback(t) PROVE IInv'
  <2>1. ready \in Seq(Handle) /\ ready # << >> /\ ready[1] = [kind |-> "callback", task |-> t]
    <3>1. ready \in Seq(Handle) /\ ready # << >> /\ Head(ready) = [kind |-> "callback", task |-> t]
      BY <1>0, <1>3 DEF TypeOK, RunCallback
    <3>. QED BY <3>1, HeadIsFirst
  <2>2. Len(ready) \in Nat \ {0} /\ Tail(ready) \in Seq(Handle) /\ Len(Tail(ready)) = Len(ready) - 1
        /\ \A n \in 1..Len(Tail(ready)) : Tail(ready)[n] = ready[n+1]
    BY <2>1, HeadTailProperties, EmptySeq
  <2>3. status[t] = "done"
    <3>1. 1 \in 1..Len(ready)
      BY <2>2
    <3>. QED BY <2>1, <3>1 DEF IInv, CleanupInv
  <2>4. /\ Len(ready') = Len(Tail(ready)) + 1
        /\ \A n \in 1..Len(Tail(ready)) : ready'[n] = Tail(ready)[n]
        /\ ready'[Len(Tail(ready)) + 1] = [kind |-> "cleanup", task |-> t]
    <3>1. [kind |-> "cleanup", task |-> t] \in Handle
      BY DEF Handle
    <3>. QED BY <1>3, <2>2, <3>1, AppendProperties DEF RunCallback
  <2>5. ASSUME NEW n \in 1..Len(ready')
        PROVE  status'[ready'[n].task] = "done" \/ \E m \in 1..Len(ready) : ready'[n] = ready[m]
    <3>1. CASE n = Len(Tail(ready)) + 1
      BY <1>3, <2>3, <2>4, <3>1 DEF RunCallback
    <3>2. CASE n # Len(Tail(ready)) + 1
      <4>1. n \in 1..Len(Tail(ready)) /\ n+1 \in 1..Len(ready)
        <5>. DEFINE m == Len(Tail(ready))
        <5>1. m \in Nat /\ Len(ready) = m + 1
          BY <2>2
        <5>2. Len(ready') = m + 1 /\ n # m + 1
          BY <2>4, <3>2
        <5>. HIDE DEF m
        <5>3. n \in 1..m /\ n + 1 \in 1..m + 1
          BY ONLY <5>1, <5>2
        <5>. QED BY <5>1, <5>3 DEF m
      <4>. QED BY <2>2, <2>4, <4>1
    <3>. QED BY <3>1, <3>2
  <2>. QED BY <1>0, <1>3, <2>5, QuietStep DEF RunCallback
<1>4. ASSUME NEW t \in Task, Cleanup(t) PROVE IInv'
  <2>. DEFINE i == itemOf[t]
              r == RemoveFirst(itemTasks[i], t)
  <2>1. ready \in Seq(Handle) /\ ready # << >> /\ ready[1] = [kind |-> "cleanup", task |-> t]
    <3>1. ready \in Seq(Handle) /\ ready # << >> /\ Head(ready) = [kind |-> "cleanup", task |-> t]
      BY <1>0, <1>4 DEF TypeOK, Cleanup
    <3>. QED BY <3>1, HeadIsFirst
  <2>2. Len(ready) \in Nat \ {0} /\ Len(ready') = Len(ready) - 1
        /\ \A n \in 1..Len(ready') : ready'[n] = ready[n+1]
    BY <1>4, <2>1, HeadTailProperties, EmptySeq DEF Cleanup
  <2>3. status[t] = "done"
    <3>1. 1 \in 1..Len(ready)
      BY <2>2
    <3>. QED BY <2>1, <3>1 DEF IInv, CleanupInv
  <2>4. UNCHANGED <<status, itemOf>> /\ itemTasks' = [itemTasks EXCEPT ![i] = r]
    BY <1>4 DEF Cleanup
  <2>5. CleanupInv'
    <3>1. \A n \in 1..Len(ready') : n+1 \in 1..Len(ready)
      BY <2>2
    <3>. QED BY <2>2, <2>4, <3>1 DEF IInv, CleanupInv
  <2>6. CASE i \in Item
    <3>1. /\ \A j \in 1..Len(r) : \E k \in 1..Len(itemTasks[i]) : r[j] = itemTasks[i][k]
          /\ \A k \in 1..Len(itemTasks[i]) : itemTasks[i][k] # t => \E j \in 1..Len(r) : r[j] = itemTasks[i][k]
          /\ \A j, k \in 1..Len(r) : r[j] = r[k] => j = k
      <4>1. itemTasks[i] \in Seq(Task)
        BY <1>0, <2>6 DEF TypeOK
      <4>2. NoDuplicates(itemTasks[i])
        BY <2>6 DEF IInv, ListsInv, NoDuplicates
      <4>3. r = RemoveFirst(itemTasks[i], t)
        OBVIOUS
      <4>. HIDE DEF i, r
      <4>4. \A j \in 1..Len(r) : \E k \in 1..Len(itemTasks[i]) : r[j] = itemTasks[i][k]
        BY ONLY <4>1, <4>3, RemoveFirstElements
      <4>5. \A k \in 1..Len(itemTasks[i]) : itemTasks[i][k] # t => \E j \in 1..Len(r) : r[j] = itemTasks[i][k]
        BY ONLY <4>1, <4>3, RemoveFirstElements
      <4>6. \A j, k \in 1..Len(r) : r[j] = r[k] => j = k
        BY <4>1, <4>2, <4>3, RemoveFirstNoDuplicates DEF NoDuplicates
      <4>. QED BY <4>4, <4>5, <4>6
    <3>2. itemTasks'[i] = r /\ \A h \in Item \ {i} : itemTasks'[h] = itemTasks[h]
      BY <1>0, <2>4, <2>6 DEF TypeOK
    <3>. HIDE DEF r, i
    <3>3. ListsInv'
      BY <2>4, <2>6, <3>1, <3>2 DEF IInv, ListsInv
    <3>4. ListedInv'
      <4>1. ASSUME NEW u \in Task, Live(u)'
            PROVE  /\ itemOf'[u] \in Item
                   /\ \E k \in 1..Len(itemTasks'[itemOf'[u]]) : itemTasks'[itemOf'[u]][k] = u
        <5>1. u # t /\ Live(u)
          BY <2>3, <2>4, <4>1
        <5>. QED BY <2>4, <2>6, <3>1, <3>2, <5>1 DEF IInv, ListedInv
      <4>. QED BY <4>1 DEF ListedInv
    <3>. QED BY <1>0, <2>5, <3>3, <3>4 DEF IInv
  <2>7. CASE i \notin Item
    <3>1. itemTasks' = itemTasks
      BY <1>0, <2>4, <2>7 DEF TypeOK
    <3>2. ListsInv' /\ ListedInv'
      BY <2>4, <3>1 DEF IInv, ListsInv, ListedInv
    <3>. QED BY <1>0, <2>5, <3>2 DEF IInv
  <2>. QED BY <2>6, <2>7
<1>5. ASSUME NEW s \in Stopper, StopLive(s) PROVE IInv'
  <2>1. /\ status' = [status EXCEPT ![stopper[s].task] = "cancelling"]
        /\ Live(stopper[s].task) /\ UNCHANGED <<itemOf, itemTasks, ready>>
    BY <1>5 DEF StopLive
  <2>2. \A u \in Task : /\ status[u] # "new" => status'[u] # "new"
                        /\ Live(u)' => Live(u)
                        /\ status[u] = "done" => status'[u] = "done"
    BY <1>0, <2>1 DEF TypeOK
  <2>. QED BY <1>0, <2>1, <2>2, QuietStep
<1>6. ASSUME NEW s \in Stopper, Wakeup(s) PROVE IInv'
  <2>1. ready \in Seq(Handle) /\ ready # << >>
    BY <1>0, <1>6 DEF TypeOK, Wakeup
  <2>2. Len(ready) \in Nat \ {0} /\ Len(ready') = Len(ready) - 1
        /\ \A n \in 1..Len(ready') : ready'[n] = ready[n+1]
    BY <1>6, <2>1, HeadTailProperties, EmptySeq DEF Wakeup
  <2>3. \A n \in 1..Len(ready') : n+1 \in 1..Len(ready)
    BY <2>2
  <2>. QED BY <1>0, <1>6, <2>2, <2>3, QuietStep DEF Wakeup
<1>7. ASSUME NEW s \in Stopper, NextTask(s) \/ StopMissing(s) \/ StopEnded(s) PROVE IInv'
  <2>1. UNCHANGED <<status, itemOf, itemTasks, ready>>
    BY <1>7 DEF NextTask, StopMissing, StopEnded
  <2>. QED BY <1>0, <2>1, QuietStep
<1>8. ASSUME NEW s \in Stopper, NEW t \in Task, CallStopTask(s, t) PROVE IInv'
  BY <1>0, <1>8, QuietStep DEF CallStopTask
<1>9. ASSUME NEW s \in Stopper, NEW i \in Item, CallStopItemTasks(s, i) PROVE IInv'
  BY <1>0, <1>9, QuietStep DEF CallStopItemTasks
<1>10. CASE UNCHANGED vars
  BY <1>0, <1>10, QuietStep DEF vars
<1>. QED BY <1>1, <1>2, <1>3, <1>4, <1>5, <1>6, <1>7, <1>8, <1>9, <1>10
         DEF Next, ServeReady, RunRequest

\* Every live task is reported for its item, once, and for no other item,
\* whatever stop requests, endings and cleanups interleave.
THEOREM LiveListed == Spec => []LiveTasksListed
<1>1. IInv => LiveTasksListed
  <2>. SUFFICES ASSUME IInv, NEW t \in Task, Live(t)
               PROVE  /\ \E k \in DOMAIN itemTasks[itemOf[t]] : itemTasks[itemOf[t]][k] = t
                      /\ \A i \in Item : \A j, k \in DOMAIN itemTasks[i] :
                           itemTasks[i][j] = t /\ itemTasks[i][k] = t => j = k /\ i = itemOf[t]
    BY DEF LiveTasksListed
  <2>1. \A i \in Item : DOMAIN itemTasks[i] = 1..Len(itemTasks[i])
    BY LenProperties DEF IInv, TypeOK
  <2>2. itemOf[t] \in Item /\ \E k \in 1..Len(itemTasks[itemOf[t]]) : itemTasks[itemOf[t]][k] = t
    BY DEF IInv, ListedInv
  <2>. QED BY <2>1, <2>2 DEF IInv, ListsInv
<1>. QED BY <1>1, InvInit, InvStep, PTL DEF Spec

-----------------------------------------------------------------------------

\* The refinement mapping of Registry, by name.
Alive == [i \in Item |-> {t \in Task : itemOf[t] = i /\ Live(t)}]
Reported == [i \in Item |-> ToSet(itemTasks[i])]

-----------------------------------------------------------------------------

\* ToSet collects the values at the positions of a sequence.
LEMMA ToSetOfSeq ==
  ASSUME NEW S, NEW s \in Seq(S)
  PROVE  ToSet(s) \subseteq S /\ \A x : x \in ToSet(s) <=> \E k \in 1..Len(s) : s[k] = x
<1>1. \A k \in 1..Len(s) : s[k] \in S
  BY ElementOfSeq
<1>2. DOMAIN s = 1..Len(s)
  BY LenProperties
<1>. QED BY <1>1, <1>2 DEF ToSet

LEMMA ToSetAppend ==
  ASSUME NEW S, NEW s \in Seq(S), NEW e \in S
  PROVE  ToSet(Append(s, e)) = ToSet(s) \cup {e}
<1>. DEFINE r == Append(s, e)
<1>1. /\ r \in Seq(S) /\ Len(s) \in Nat /\ Len(r) = Len(s) + 1
      /\ \A k \in 1..Len(s) : r[k] = s[k]
      /\ r[Len(s) + 1] = e
  BY AppendProperties, LenProperties
<1>. HIDE DEF r
<1>2. \A x : x \in ToSet(r) <=> \E k \in 1..Len(r) : r[k] = x
  BY <1>1, ToSetOfSeq
<1>3. \A x : x \in ToSet(s) <=> \E k \in 1..Len(s) : s[k] = x
  BY ToSetOfSeq
<1>4. ASSUME NEW x \in ToSet(r) PROVE x \in ToSet(s) \cup {e}
  <2>1. PICK k \in 1..Len(r) : r[k] = x
    BY <1>2
  <2>2. k \in 1..Len(s) \/ k = Len(s) + 1
    BY <1>1
  <2>. QED BY <1>1, <1>3, <2>1, <2>2
<1>5. ASSUME NEW x \in ToSet(s) PROVE x \in ToSet(r)
  <2>1. PICK k \in 1..Len(s) : s[k] = x
    BY <1>3
  <2>2. k \in 1..Len(r)
    BY <1>1
  <2>. QED BY <1>1, <1>2, <2>1, <2>2
<1>6. e \in ToSet(r)
  <2>1. Len(s) + 1 \in 1..Len(r)
    BY <1>1
  <2>. QED BY <1>1, <1>2, <2>1
<1>7. ToSet(r) = ToSet(s) \cup {e}
  BY <1>4, <1>5, <1>6
<1>. QED BY <1>7 DEF r

\* From a list without duplicates, list.remove takes the element entirely.
LEMMA ToSetRemoveFirst ==
  ASSUME NEW S, NEW s \in Seq(S), NEW e, NoDuplicates(s)
  PROVE  ToSet(RemoveFirst(s, e)) = ToSet(s) \ {e}
<1>. DEFINE r == RemoveFirst(s, e)
<1>0. r = RemoveFirst(s, e)
  OBVIOUS
<1>. HIDE DEF r
<1>1. r \in Seq(S)
  BY <1>0, RemoveFirstType
<1>2. \A x : x \in ToSet(r) <=> \E k \in 1..Len(r) : r[k] = x
  BY <1>1, ToSetOfSeq
<1>3. \A x : x \in ToSet(s) <=> \E k \in 1..Len(s) : s[k] = x
  BY ToSetOfSeq
<1>4. /\ \A j \in 1..Len(r) : \E k \in 1..Len(s) : r[j] = s[k]
      /\ \A k \in 1..Len(s) : s[k] # e => \E j \in 1..Len(r) : r[j] = s[k]
  <2>1. \A j \in 1..Len(r) : \E k \in 1..Len(s) : r[j] = s[k]
    BY <1>0, RemoveFirstElements
  <2>2. \A k \in 1..Len(s) : s[k] # e => \E j \in 1..Len(r) : r[j] = s[k]
    BY <1>0, RemoveFirstElements
  <2>. QED BY <2>1, <2>2
<1>5. \A j \in 1..Len(r) : r[j] # e
  <2>1. CASE (\A k \in 1..Len(s) : s[k] # e) /\ r = s
    BY <2>1
  <2>2. ASSUME NEW n \in 1..Len(s), s[n] = e, r = RemoveAt(s, n), NEW j \in 1..Len(r)
        PROVE  r[j] # e
    <3>1. /\ Len(s) \in Nat /\ Len(r) = Len(s) - 1
          /\ r[j] = IF j < n THEN s[j] ELSE s[j+1]
      BY <2>2, RemoveAtProperties, LenProperties
    <3>2. CASE j < n
      <4>1. j \in 1..Len(s) /\ j # n /\ r[j] = s[j]
        BY <3>1, <3>2
      <4>. QED BY <2>2, <4>1 DEF NoDuplicates
    <3>3. CASE ~(j < n)
      <4>1. j+1 \in 1..Len(s) /\ j+1 # n /\ r[j] = s[j+1]
        BY <3>1, <3>3
      <4>. QED BY <2>2, <4>1 DEF NoDuplicates
    <3>. QED BY <3>2, <3>3
  <2>. QED BY <1>0, <2>1, <2>2, RemoveFirstCases
<1>6. ToSet(r) = ToSet(s) \ {e}
  <2>1. ASSUME NEW x \in ToSet(r) PROVE x \in ToSet(s) /\ x # e
    BY <1>2, <1>3, <1>4, <1>5
  <2>2. ASSUME NEW x \in ToSet(s), x # e PROVE x \in ToSet(r)
    BY <1>2, <1>3, <1>4, <2>2
  <2>. QED BY <2>1, <2>2
<1>. QED BY <1>0, <1>6

-----------------------------------------------------------------------------

\* A task that was never created is neither alive nor reported anywhere.
LEMMA NewIsUnknown ==
  ASSUME IInv, NEW t \in Task, status[t] = "new", NEW j \in Item
  PROVE  t \notin Alive[j] \cup Reported[j]
<1>1. ~Live(t)
  BY DEF Live
<1>2. itemTasks[j] \in Seq(Task)
  BY DEF IInv, TypeOK
<1>3. \A k \in 1..Len(itemTasks[j]) : itemTasks[j][k] # t
  BY DEF IInv, ListsInv
<1>. QED BY <1>1, <1>2, <1>3, ToSetOfSeq DEF Alive, Reported

LEMMA CreateRegisters ==
  ASSUME IInv, NEW t \in Task, NEW i \in Item, CreateTask(t, i)
  PROVE  Registry!Register(t, i)
<1>0. TypeOK
  BY DEF IInv
<1>1. \A j \in Item : t \notin Alive[j] \cup Reported[j]
  BY NewIsUnknown DEF CreateTask
<1>2. /\ status' = [status EXCEPT ![t] = "running"]
      /\ itemOf' = [itemOf EXCEPT ![t] = i]
      /\ itemTasks' = [itemTasks EXCEPT ![i] = Append(itemTasks[i], t)]
  BY DEF CreateTask
<1>3. ASSUME NEW j \in Item
      PROVE  Alive'[j] = IF j = i THEN Alive[i] \cup {t} ELSE Alive[j]
  <2>1. \A u \in Task \ {t} : itemOf'[u] = itemOf[u] /\ status'[u] = status[u]
    BY <1>0, <1>2 DEF TypeOK
  <2>2. itemOf'[t] = i /\ status'[t] = "running"
    BY <1>0, <1>2 DEF TypeOK
  <2>3. Alive[j] = {u \in Task : itemOf[u] = j /\ status[u] \in {"running", "cancelling"}}
    BY DEF Alive, Live
  <2>4. Alive'[j] = {u \in Task : itemOf'[u] = j /\ status'[u] \in {"running", "cancelling"}}
    BY DEF Alive, Live
  <2>5. t \notin Alive[j]
    BY <1>1
  <2>. QED BY <2>1, <2>2, <2>3, <2>4, <2>5
<1>4. ASSUME NEW j \in Item
      PROVE  Reported'[j] = IF j = i THEN Reported[i] \cup {t} ELSE Reported[j]
  <2>1. itemTasks[i] \in Seq(Task)
    BY <1>0 DEF TypeOK
  <2>2. ToSet(Append(itemTasks[i], t)) = ToSet(itemTasks[i]) \cup {t}
    BY <2>1, ToSetAppend
  <2>3. itemTasks'[j] = IF j = i THEN Append(itemTasks[i], t) ELSE itemTasks[j]
    BY <1>0, <1>2 DEF TypeOK
  <2>4. Reported'[j] = ToSet(itemTasks'[j]) /\ Reported[j] = ToSet(itemTasks[j])
    BY DEF Reported
  <2>. QED BY <2>2, <2>3, <2>4
<1>5. Alive' = [Alive EXCEPT ![i] = Alive[i] \cup {t}]
  BY <1>3 DEF Alive
<1>6. Reported' = [Reported EXCEPT ![i] = Reported[i] \cup {t}]
  BY <1>4 DEF Reported
<1>. QED BY <1>1, <1>5, <1>6 DEF Registry!Register, Alive, Reported

LEMMA FinishEnds ==
  ASSUME IInv, NEW t \in Task, Finish(t)
  PROVE  \E i \in Item : Registry!End(t, i)
<1>0. TypeOK /\ Live(t) /\ itemOf[t] \in Item
  BY DEF IInv, ListedInv, Finish
<1>. PICK i \in Item : i = itemOf[t]
  BY <1>0
<1>1. status' = [status EXCEPT ![t] = "done"] /\ UNCHANGED <<itemOf, itemTasks>>
  BY DEF Finish
<1>2. t \in Alive[i]
  BY <1>0 DEF Alive
<1>3. ASSUME NEW j \in Item
      PROVE  Alive'[j] = IF j = i THEN Alive[i] \ {t} ELSE Alive[j]
  <2>1. \A u \in Task : status'[u] = IF u = t THEN "done" ELSE status[u]
    BY <1>0, <1>1 DEF TypeOK
  <2>2. Alive[j] = {u \in Task : itemOf[u] = j /\ status[u] \in {"running", "cancelling"}}
    BY DEF Alive, Live
  <2>3. Alive'[j] = {u \in Task : itemOf'[u] = j /\ status'[u] \in {"running", "cancelling"}}
    BY DEF Alive, Live
  <2>. QED BY <1>1, <2>1, <2>2, <2>3
<1>4. Alive' = [Alive EXCEPT ![i] = Alive[i] \ {t}]
  BY <1>3 DEF Alive
<1>5. Reported' = Reported
  BY <1>1 DEF Reported
<1>. QED BY <1>0, <1>2, <1>4, <1>5 DEF Registry!End, Alive, Reported

LEMMA CleanupForgets ==
  ASSUME IInv, NEW t \in Task, Cleanup(t)
  PROVE  \/ itemOf[t] \in Item /\ Registry!Forget(t, itemOf[t])
         \/ UNCHANGED Registry!vars
<1>. DEFINE i == itemOf[t]
<1>0. TypeOK /\ TypeOK'
  BY TypeStep DEF IInv, Next, ServeReady
<1>1. UNCHANGED <<status, itemOf>> /\ itemTasks' = [itemTasks EXCEPT ![i] = RemoveFirst(itemTasks[i], t)]
  BY DEF Cleanup
<1>2. status[t] = "done"
  <2>1. ready \in Seq(Handle) /\ ready # << >> /\ ready[1] = [kind |-> "cleanup", task |-> t]
    <3>1. ready \in Seq(Handle) /\ ready # << >> /\ Head(ready) = [kind |-> "cleanup", task |-> t]
      BY <1>0 DEF TypeOK, Cleanup
    <3>. QED BY <3>1, HeadIsFirst
  <2>2. 1 \in 1..Len(ready)
    BY <2>1, LenProperties, EmptySeq
  <2>. QED BY <2>1, <2>2 DEF IInv, CleanupInv
<1>3. Alive' = Alive
  BY <1>1 DEF Alive, Live
<1>4. CASE i \notin Item
  <2>1. itemTasks' = itemTasks
    BY <1>0, <1>1, <1>4 DEF TypeOK
  <2>2. Reported' = Reported
    BY <2>1 DEF Reported
  <2>. QED BY <1>3, <2>2 DEF Registry!vars, Alive, Reported
<1>5. CASE i \in Item
  <2>1. itemTasks[i] \in Seq(Task) /\ NoDuplicates(itemTasks[i])
    BY <1>0, <1>5 DEF TypeOK, IInv, ListsInv, NoDuplicates
  <2>2. ToSet(RemoveFirst(itemTasks[i], t)) = ToSet(itemTasks[i]) \ {t}
    BY <2>1, ToSetRemoveFirst
  <2>3. ASSUME NEW j \in Item
        PROVE  Reported'[j] = IF j = i THEN Reported[i] \ {t} ELSE Reported[j]
    <3>1. itemTasks'[j] = IF j = i THEN RemoveFirst(itemTasks[i], t) ELSE itemTasks[j]
      BY <1>0, <1>1 DEF TypeOK
    <3>2. Reported'[j] = ToSet(itemTasks'[j]) /\ Reported[j] = ToSet(itemTasks[j])
      BY DEF Reported
    <3>. QED BY <2>2, <3>1, <3>2
  <2>4. Reported' = [Reported EXCEPT ![i] = Reported[i] \ {t}]
    BY <2>3 DEF Reported
  <2>5. CASE t \in Reported[i]
    <3>1. t \notin Alive[i]
      BY <1>2, <1>5 DEF Alive, Live
    <3>. QED BY <1>3, <1>5, <2>4, <2>5, <3>1 DEF Registry!Forget, Alive, Reported
  <2>6. CASE t \notin Reported[i]
    <3>1. Reported' = Reported
      BY <2>4, <2>6 DEF Reported
    <3>. QED BY <1>3, <3>1 DEF Registry!vars, Alive, Reported
  <2>. QED BY <2>5, <2>6
<1>. QED BY <1>4, <1>5

\* A step that neither starts nor ends a task nor touches a list is not seen.
LEMMA QuietRefines ==
  ASSUME UNCHANGED <<itemOf, itemTasks>>, \A t \in Task : Live(t)' <=> Live(t)
  PROVE  UNCHANGED Registry!vars
<1>1. Alive' = Alive
  BY DEF Alive
<1>2. Reported' = Reported
  BY DEF Reported
<1>. QED BY <1>1, <1>2 DEF Registry!vars, Alive, Reported

LEMMA StepRefines == IInv /\ [Next]_vars => [Registry!Next]_(Registry!vars)
<1>. SUFFICES ASSUME IInv, [Next]_vars PROVE [Registry!Next]_(Registry!vars)
  OBVIOUS
<1>1. ASSUME NEW t \in Task, NEW i \in Item, CreateTask(t, i) PROVE Registry!Next
  BY <1>1, CreateRegisters DEF Registry!Next
<1>2. ASSUME NEW t \in Task, Finish(t) PROVE Registry!Next
  BY <1>2, FinishEnds DEF Registry!Next
<1>3. ASSUME NEW t \in Task, Cleanup(t) PROVE [Registry!Next]_(Registry!vars)
  BY <1>3, CleanupForgets DEF Registry!Next
<1>4. ASSUME NEW s \in Stopper, StopLive(s) PROVE UNCHANGED Registry!vars
  <2>1. /\ status' = [status EXCEPT ![stopper[s].task] = "cancelling"]
        /\ Live(stopper[s].task) /\ UNCHANGED <<itemOf, itemTasks>>
    BY <1>4 DEF StopLive
  <2>2. \A t \in Task : Live(t)' <=> Live(t)
    BY <2>1 DEF Live, IInv, TypeOK
  <2>. QED BY <2>1, <2>2, QuietRefines
<1>5. ASSUME UNCHANGED <<status, itemOf, itemTasks>> PROVE UNCHANGED Registry!vars
  BY <1>5, QuietRefines DEF Live
<1>. QED BY <1>1, <1>2, <1>3, <1>4, <1>5
         DEF Next, ServeReady, RunRequest, RunCallback, Wakeup, NextTask, StopMissing, StopEnded,
             CallStopTask, CallStopItemTasks, vars

\* tasks.py without Redis keeps the promise of TaskRegistry: a task is
\* reported from the step that creates it and only withdrawn once it has ended,
\* whatever stop requests, endings and cleanups interleave.
THEOREM KeepsPromise == Spec => RegistrySpec
<1>1. Init => Registry!Init
  <2>. SUFFICES ASSUME Init PROVE Registry!Init
    OBVIOUS
  <2>1. Alive = [i \in Item |-> {}]
    BY DEF Init, Alive, Live
  <2>2. ToSet(<< >>) = {}
    BY DEF ToSet
  <2>3. Reported = [i \in Item |-> {}]
    BY <2>2 DEF Init, Reported
  <2>. QED BY <2>1, <2>3 DEF Registry!Init, Alive, Reported
<1>. QED BY <1>1, InvInit, InvStep, StepRefines, PTL DEF Spec, RegistrySpec, Registry!Spec

-----------------------------------------------------------------------------
(* Nothing is left behind                                                  *)

\* The queue holds the done callback of t, or the cleanup it scheduled.
Pends(q, t) == \E k \in 1..Len(q) : q[k].kind \in {"callback", "cleanup"} /\ q[k].task = t

\* One of the two dictionaries still holds the task.
Known(t) == t \in tasks \/ \E i \in Item : t \in Reported[i]

\* A task the registry knows is live, or its cleanup is on its way.
LeftInv == \A t \in Task : Known(t) => Live(t) \/ Pends(ready, t)

LEMMA PendsConcat ==
  ASSUME NEW S, NEW q \in Seq(S), NEW r \in Seq(S), NEW t, Pends(q, t) \/ Pends(r, t)
  PROVE  Pends(q \o r, t)
<1>1. /\ Len(q) \in Nat /\ Len(r) \in Nat /\ Len(q \o r) = Len(q) + Len(r)
      /\ \A k \in 1..Len(q) + Len(r) :
           (q \o r)[k] = IF k <= Len(q) THEN q[k] ELSE r[k - Len(q)]
  BY ConcatProperties, LenProperties
<1>2. CASE Pends(q, t)
  <2>1. PICK k \in 1..Len(q) : q[k].kind \in {"callback", "cleanup"} /\ q[k].task = t
    BY <1>2 DEF Pends
  <2>2. k \in 1..Len(q \o r) /\ (q \o r)[k] = q[k]
    BY <1>1
  <2>. QED BY <2>1, <2>2 DEF Pends
<1>3. CASE Pends(r, t)
  <2>1. PICK k \in 1..Len(r) : r[k].kind \in {"callback", "cleanup"} /\ r[k].task = t
    BY <1>3 DEF Pends
  <2>2. Len(q) + k \in 1..Len(q \o r) /\ (q \o r)[Len(q) + k] = r[k]
    BY <1>1
  <2>. QED BY <2>1, <2>2 DEF Pends
<1>. QED BY <1>2, <1>3

LEMMA PendsAppend ==
  ASSUME NEW S, NEW q \in Seq(S), NEW h \in S, NEW t,
         Pends(q, t) \/ (h.kind \in {"callback", "cleanup"} /\ h.task = t)
  PROVE  Pends(Append(q, h), t)
<1>. DEFINE r == Append(q, h)
<1>1. /\ Len(q) \in Nat /\ Len(r) = Len(q) + 1
      /\ \A k \in 1..Len(q) : r[k] = q[k]
      /\ r[Len(q) + 1] = h
  BY AppendProperties, LenProperties
<1>. HIDE DEF r
<1>2. 1..Len(q) \subseteq 1..Len(r) /\ Len(q) + 1 \in 1..Len(r)
  BY <1>1
<1>3. Pends(r, t)
  BY <1>1, <1>2 DEF Pends
<1>. QED BY <1>3 DEF r

\* Serving the queue loses no entry but the one that is served.
LEMMA PendsTail ==
  ASSUME NEW S, NEW q \in Seq(S), q # << >>, NEW t, Pends(q, t),
         ~(Head(q).kind \in {"callback", "cleanup"} /\ Head(q).task = t)
  PROVE  Pends(Tail(q), t)
<1>1. /\ Head(q) = q[1] /\ Len(q) \in Nat /\ Len(Tail(q)) = Len(q) - 1
      /\ \A n \in 1..Len(Tail(q)) : Tail(q)[n] = q[n+1]
  BY HeadIsFirst, HeadTailProperties, LenProperties
<1>2. PICK k \in 1..Len(q) : q[k].kind \in {"callback", "cleanup"} /\ q[k].task = t
  BY DEF Pends
<1>3. k # 1
  BY <1>1, <1>2
<1>4. k-1 \in 1..Len(Tail(q)) /\ Tail(q)[k-1] = q[k]
  BY <1>1, <1>3
<1>. QED BY <1>2, <1>4 DEF Pends

\* A step that adds no task, ends none and loses no pending cleanup.
LEMMA LeftFrame ==
  ASSUME LeftInv, tasks' \subseteq tasks, UNCHANGED itemTasks,
         \A t \in Task : Live(t) => Live(t)',
         \A t \in Task : Pends(ready, t) => Pends(ready, t)'
  PROVE  LeftInv'
BY DEF LeftInv, Known, Reported

LEMMA LeftStep ==
  ASSUME IInv, LeftInv, [Next]_vars
  PROVE  LeftInv'
<1>0. TypeOK
  BY DEF IInv
<1>1. ASSUME NEW t \in Task, NEW i \in Item, CreateTask(t, i) PROVE LeftInv'
  <2>. SUFFICES ASSUME NEW u \in Task, Known(u)' PROVE (Live(u) \/ Pends(ready, u))'
    BY DEF LeftInv
  <2>1. CASE u = t
    BY <1>0, <1>1, <2>1 DEF CreateTask, Live, TypeOK
  <2>2. CASE u # t
    <3>1. itemTasks' = [itemTasks EXCEPT ![i] = Append(itemTasks[i], t)] /\ tasks' = tasks \cup {t}
      BY <1>1 DEF CreateTask
    <3>2. itemTasks[i] \in Seq(Task)
      BY <1>0 DEF TypeOK
    <3>3. ToSet(Append(itemTasks[i], t)) = ToSet(itemTasks[i]) \cup {t}
      BY <3>2, ToSetAppend
    <3>4. \A j \in Item : u \in Reported'[j] => u \in Reported[j]
      BY <1>0, <2>2, <3>1, <3>3 DEF Reported, TypeOK
    <3>5. Known(u)
      BY <2>2, <3>1, <3>4 DEF Known
    <3>6. (Live(u)' <=> Live(u)) /\ ready' = ready
      BY <1>0, <1>1, <2>2 DEF CreateTask, Live, TypeOK
    <3>. QED BY <3>5, <3>6 DEF LeftInv, Pends
  <2>. QED BY <2>1, <2>2
<1>2. ASSUME NEW t \in Task, Finish(t) PROVE LeftInv'
  <2>. DEFINE X == <<[kind |-> "callback", task |-> t]>>
              W == SetToSeq({[kind |-> "wakeup", stopper |-> s] : s \in Waiters(t)})
  <2>1. ready' = (ready \o X) \o W /\ UNCHANGED <<tasks, itemTasks>>
    BY <1>2 DEF Finish
  <2>2. ready \in Seq(Handle) /\ X \in Seq(Handle) /\ W \in Seq(Handle)
    <3>1. {[kind |-> "wakeup", stopper |-> s] : s \in Waiters(t)} \subseteq Handle
      BY DEF Waiters, Handle
    <3>2. W \in Seq({[kind |-> "wakeup", stopper |-> s] : s \in Waiters(t)})
      BY FinishedWaiters
    <3>. QED BY <1>0, <3>1, <3>2, SeqMonotonic DEF TypeOK, Handle
  <2>3. Pends(X, t)
    BY DEF Pends
  <2>. HIDE DEF X, W
  <2>4. ready \o X \in Seq(Handle)
    BY <2>2, ConcatProperties
  <2>5. \A u : Pends(ready, u) \/ Pends(X, u) => Pends((ready \o X) \o W, u)
    BY <2>2, <2>4, PendsConcat
  <2>6. \A u \in Task \ {t} : Live(u) => Live(u)'
    BY <1>0, <1>2 DEF Finish, Live, TypeOK
  <2>. QED BY <2>1, <2>3, <2>5, <2>6 DEF LeftInv, Known, Reported
<1>3. ASSUME NEW t \in Task, RunCallback(t) PROVE LeftInv'
  <2>. DEFINE h == [kind |-> "cleanup", task |-> t]
  <2>1. /\ ready # << >> /\ Head(ready) = [kind |-> "callback", task |-> t]
        /\ ready' = Append(Tail(ready), h)
    BY <1>3 DEF RunCallback
  <2>2. ready \in Seq(Handle) /\ Tail(ready) \in Seq(Handle) /\ h \in Handle
    BY <1>0, <2>1, HeadTailProperties DEF TypeOK, Handle
  <2>3. h.kind = "cleanup" /\ h.task = t
    OBVIOUS
  <2>. HIDE DEF h
  <2>4. Pends(Append(Tail(ready), h), t)
    BY <2>2, <2>3, PendsAppend
  <2>5. ASSUME NEW u \in Task, u # t, Pends(ready, u) PROVE Pends(Append(Tail(ready), h), u)
    <3>1. Pends(Tail(ready), u)
      BY <2>1, <2>2, <2>5, PendsTail
    <3>. QED BY <2>2, <3>1, PendsAppend
  <2>. QED BY <1>3, <2>1, <2>4, <2>5, LeftFrame DEF RunCallback, Live
<1>4. ASSUME NEW t \in Task, Cleanup(t) PROVE LeftInv'
  <2>1. /\ ready # << >> /\ Head(ready) = [kind |-> "cleanup", task |-> t]
        /\ ready' = Tail(ready) /\ tasks' = tasks \ {t} /\ UNCHANGED <<status, itemOf>>
        /\ itemTasks' = [itemTasks EXCEPT ![itemOf[t]] = RemoveFirst(itemTasks[itemOf[t]], t)]
    BY <1>4 DEF Cleanup
  <2>2. ready \in Seq(Handle)
    BY <1>0 DEF TypeOK
  <2>3. ASSUME NEW j \in Item PROVE Reported'[j] = Reported[j] \ {t}
    <3>1. itemTasks[j] \in Seq(Task) /\ NoDuplicates(itemTasks[j])
      BY <1>0 DEF TypeOK, IInv, ListsInv, NoDuplicates
    <3>2. CASE j = itemOf[t]
      <4>1. ToSet(RemoveFirst(itemTasks[j], t)) = ToSet(itemTasks[j]) \ {t}
        BY <3>1, ToSetRemoveFirst
      <4>2. itemTasks'[j] = RemoveFirst(itemTasks[j], t)
        BY <1>0, <2>1, <3>2 DEF TypeOK
      <4>. QED BY <4>1, <4>2 DEF Reported
    <3>3. CASE j # itemOf[t]
      <4>1. \A k \in 1..Len(itemTasks[j]) : itemTasks[j][k] # t
        BY <3>3 DEF IInv, ListsInv
      <4>2. t \notin ToSet(itemTasks[j])
        BY <3>1, <4>1, ToSetOfSeq
      <4>3. itemTasks'[j] = itemTasks[j]
        BY <1>0, <2>1, <3>3 DEF TypeOK
      <4>. QED BY <4>2, <4>3 DEF Reported
    <3>. QED BY <3>2, <3>3
  <2>4. ASSUME NEW u \in Task, Known(u)' PROVE (Live(u) \/ Pends(ready, u))'
    <3>1. u # t /\ Known(u)
      BY <2>1, <2>3, <2>4 DEF Known
    <3>2. Live(u) \/ Pends(ready, u)
      BY <3>1 DEF LeftInv
    <3>3. Pends(ready, u) => Pends(Tail(ready), u)
      BY <2>1, <2>2, <3>1, PendsTail
    <3>. QED BY <2>1, <3>2, <3>3 DEF Live
  <2>. QED BY <2>4 DEF LeftInv
<1>5. ASSUME NEW s \in Stopper, Wakeup(s) PROVE LeftInv'
  <2>1. /\ ready # << >> /\ Head(ready) = [kind |-> "wakeup", stopper |-> s]
        /\ ready' = Tail(ready) /\ UNCHANGED <<status, tasks, itemTasks>>
    BY <1>5 DEF Wakeup
  <2>2. ready \in Seq(Handle)
    BY <1>0 DEF TypeOK
  <2>3. \A u \in Task : Pends(ready, u) => Pends(Tail(ready), u)
    BY <2>1, <2>2, PendsTail
  <2>. QED BY <2>1, <2>3, LeftFrame DEF Live
<1>6. ASSUME NEW s \in Stopper, StopLive(s) PROVE LeftInv'
  <2>1. /\ status' = [status EXCEPT ![stopper[s].task] = "cancelling"]
        /\ tasks' \subseteq tasks /\ UNCHANGED <<itemTasks, ready>>
    BY <1>6 DEF StopLive
  <2>2. \A t \in Task : Live(t) => Live(t)'
    BY <1>0, <2>1 DEF Live, TypeOK
  <2>. QED BY <2>1, <2>2, LeftFrame
<1>7. ASSUME UNCHANGED <<status, itemTasks, ready>>, tasks' \subseteq tasks PROVE LeftInv'
  BY <1>7, LeftFrame DEF Live
<1>. QED BY <1>1, <1>2, <1>3, <1>4, <1>5, <1>6, <1>7
         DEF Next, ServeReady, RunRequest, NextTask, StopMissing, StopEnded, CallStopTask,
             CallStopItemTasks, vars

\* Whenever the event loop has nothing left to run, neither dictionary keeps
\* an ended task, for any number of tasks, items and stop requests.
THEOREM NothingStays == Spec => []NothingLeftBehind
<1>1. Init => LeftInv
  <2>1. ToSet(<< >>) = {}
    BY DEF ToSet
  <2>. QED BY <2>1 DEF Init, LeftInv, Known, Reported
<1>2. IInv /\ LeftInv => NothingLeftBehind
  <2>. SUFFICES ASSUME IInv, LeftInv, ready = << >>
               PROVE  /\ \A t \in tasks : Live(t)
                      /\ \A i \in Item : \A t \in ToSet(itemTasks[i]) : Live(t)
    BY DEF NothingLeftBehind
  <2>1. \A t \in Task : ~Pends(ready, t)
    BY DEF Pends
  <2>2. \A t \in Task : Known(t) => Live(t)
    BY <2>1 DEF LeftInv
  <2>3. \A i \in Item : ToSet(itemTasks[i]) \subseteq Task
    BY ToSetOfSeq DEF IInv, TypeOK
  <2>. QED BY <2>2, <2>3 DEF Known, Reported, IInv, TypeOK
<1>. QED BY <1>1, <1>2, InvInit, InvStep, LeftStep, PTL DEF Spec

-----------------------------------------------------------------------------
(* Who is told so has stopped a task                                       *)

Wake(s) == [kind |-> "wakeup", stopper |-> s]
Holds(q, h) == \E k \in 1..Len(q) : q[k] = h
Once(q, h) == \A j, k \in 1..Len(q) : q[j] = h /\ q[k] = h => j = k

\* A request is woken at most once for the task it awaits, which has ended.
WakeInv ==
  \A s \in Stopper :
    /\ Once(ready, Wake(s))
    /\ Holds(ready, Wake(s)) =>
         stopper[s].pc = "await" /\ stopper[s].task \in Task /\ status[stopper[s].task] = "done"

\* What a request is about, from its call to its answer.
RequestInv(s) ==
  /\ cpu = s => stopper[s].pc = "step"
  /\ stopper[s].pc # "idle" /\ stopper[s].item = None =>
       stopper[s].task \in Task /\ stopper[s].listed = {stopper[s].task}
  /\ stopper[s].pc = "idle" /\ stopper[s].result = "ok" /\ stopper[s].item = None =>
       \A t \in stopper[s].listed : status[t] = "done"

StopInv == WakeInv /\ \A s \in Stopper : RequestInv(s)

LEMMA OnceConcat ==
  ASSUME NEW S, NEW q \in Seq(S), NEW r \in Seq(S), NEW h
  PROVE  /\ Holds(q \o r, h) => Holds(q, h) \/ Holds(r, h)
         /\ Once(q, h) /\ Once(r, h) /\ ~(Holds(q, h) /\ Holds(r, h)) => Once(q \o r, h)
<1>. DEFINE c == q \o r
<1>1. /\ Len(q) \in Nat /\ Len(r) \in Nat /\ Len(c) = Len(q) + Len(r)
      /\ \A k \in 1..Len(q) + Len(r) : c[k] = IF k <= Len(q) THEN q[k] ELSE r[k - Len(q)]
  BY ConcatProperties, LenProperties
<1>. HIDE DEF c
<1>2. ASSUME NEW k \in 1..Len(c), c[k] = h
      PROVE  \/ k \in 1..Len(q) /\ q[k] = h
             \/ k - Len(q) \in 1..Len(r) /\ r[k - Len(q)] = h
  BY <1>1, <1>2
<1>3. Holds(c, h) => Holds(q, h) \/ Holds(r, h)
  BY <1>2 DEF Holds
<1>4. ASSUME Once(q, h), Once(r, h), ~(Holds(q, h) /\ Holds(r, h)),
             NEW j \in 1..Len(c), NEW k \in 1..Len(c), c[j] = h, c[k] = h
      PROVE  j = k
  <2>1. CASE j \in 1..Len(q) /\ q[j] = h
    <3>1. k \in 1..Len(q) /\ q[k] = h
      BY <1>2, <1>4, <2>1 DEF Holds
    <3>. QED BY <1>4, <2>1, <3>1 DEF Once
  <2>2. CASE j - Len(q) \in 1..Len(r) /\ r[j - Len(q)] = h
    <3>1. k - Len(q) \in 1..Len(r) /\ r[k - Len(q)] = h
      BY <1>2, <1>4, <2>2 DEF Holds
    <3>2. j - Len(q) = k - Len(q)
      BY <1>4, <2>2, <3>1 DEF Once
    <3>3. Len(q) \in Int /\ j \in Int /\ k \in Int
      BY <1>1
    <3>. QED BY <3>2, <3>3
  <2>. QED BY <1>2, <1>4, <2>1, <2>2
<1>. QED BY <1>3, <1>4 DEF c, Once

LEMMA OnceAppend ==
  ASSUME NEW S, NEW q \in Seq(S), NEW e \in S, NEW h, h # e
  PROVE  /\ Holds(Append(q, e), h) => Holds(q, h)
         /\ Once(q, h) => Once(Append(q, e), h)
<1>. DEFINE r == Append(q, e)
<1>1. /\ Len(q) \in Nat /\ Len(r) = Len(q) + 1
      /\ \A k \in 1..Len(q) : r[k] = q[k]
      /\ r[Len(q) + 1] = e
  BY AppendProperties, LenProperties
<1>. HIDE DEF r
<1>2. ASSUME NEW k \in 1..Len(r), r[k] = h PROVE k \in 1..Len(q) /\ q[k] = h
  <2>1. k # Len(q) + 1
    BY <1>1, <1>2
  <2>2. k \in 1..Len(q)
    BY <1>1, <2>1
  <2>. QED BY <1>1, <1>2, <2>2
<1>. QED BY <1>2 DEF r, Once, Holds

\* The queue loses its head, and with it the only copy of that callback.
LEMMA OnceTail ==
  ASSUME NEW S, NEW q \in Seq(S), q # << >>, NEW h
  PROVE  /\ Holds(Tail(q), h) => Holds(q, h)
         /\ Once(q, h) => Once(Tail(q), h)
         /\ Head(q) = h => Holds(q, h)
         /\ Head(q) = h /\ Once(q, h) => ~ Holds(Tail(q), h)
<1>. DEFINE r == Tail(q)
<1>1. /\ Head(q) = q[1] /\ Len(q) \in Nat /\ Len(q) >= 1 /\ Len(r) = Len(q) - 1
      /\ \A n \in 1..Len(r) : r[n] = q[n+1]
  BY HeadIsFirst, HeadTailProperties, LenProperties, EmptySeq
<1>. HIDE DEF r
<1>2. ASSUME NEW k \in 1..Len(r), r[k] = h PROVE k + 1 \in 1..Len(q) /\ q[k+1] = h /\ k + 1 # 1
  BY <1>1, <1>2
<1>3. 1 \in 1..Len(q)
  BY <1>1
<1>4. Once(q, h) => Once(r, h)
  <2>. SUFFICES ASSUME Once(q, h), NEW j \in 1..Len(r), NEW k \in 1..Len(r), r[j] = h, r[k] = h
                PROVE  j = k
    BY DEF Once
  <2>1. j + 1 = k + 1
    BY <1>2 DEF Once
  <2>. QED BY <2>1
<1>. QED BY <1>1, <1>2, <1>3, <1>4 DEF r, Once, Holds

\* Each of the requests that await a task is woken once.
LEMMA WaitersOnce ==
  ASSUME NEW t, NEW W, W = {Wake(s) : s \in Waiters(t)}, NEW h
  PROVE  /\ SetToSeq(W) \in Seq(W)
         /\ Once(SetToSeq(W), h)
         /\ Holds(SetToSeq(W), h) => h \in W
<1>1. IsFiniteSet(W)
  <2>. DEFINE f == [s \in Waiters(t) |-> Wake(s)]
  <2>1. IsFiniteSet(Waiters(t))
    BY StopperAssumption, FS_Subset DEF Waiters
  <2>2. f \in Surjection(Waiters(t), W)
    BY DEF Surjection
  <2>. QED BY <2>1, <2>2, FS_Surjection
<1>2. Cardinality(W) \in Nat /\ ExistsBijection(1..Cardinality(W), W)
  BY <1>1, FS_CardinalityType
<1>3. \E f \in [1..Cardinality(W) -> W] : IsInjective(f)
  BY <1>2 DEF ExistsBijection, Bijection, Injection, IsInjective
<1>. DEFINE q == SetToSeq(W)
<1>4. q \in [1..Cardinality(W) -> W] /\ IsInjective(q)
  BY <1>3 DEF SetToSeq
<1>. HIDE DEF q
<1>5. q \in Seq(W)
  BY <1>1, SetToSeqType DEF q
<1>6. DOMAIN q = 1..Len(q)
  BY <1>5, LenProperties
<1>7. Once(q, h)
  BY <1>4, <1>6 DEF Once, IsInjective
<1>8. Holds(q, h) => h \in W
  BY <1>5, ElementOfSeq DEF Holds
<1>. QED BY <1>5, <1>7, <1>8 DEF q

\* The answer leaves the request idle, with the list it had.
LEMMA AnswerFacts ==
  ASSUME TypeOK, NEW s \in Stopper, NEW r, Answer(s, r)
  PROVE  /\ stopper'[s].pc = "idle" /\ stopper'[s].result = r
         /\ stopper'[s].item = stopper[s].item /\ stopper'[s].listed = stopper[s].listed
         /\ \A p \in Stopper \ {s} : stopper'[p] = stopper[p]
         /\ cpu' = None
<1>1. /\ stopper'[s] = [stopper[s] EXCEPT !.pc = "idle", !.result = r, !.task = None, !.attached = FALSE]
      /\ \A p \in Stopper \ {s} : stopper'[p] = stopper[p]
      /\ cpu' = None
  BY DEF Answer, TypeOK
<1>. QED BY <1>1 DEF TypeOK, StopperState

LEMMA ResumeFacts ==
  ASSUME TypeOK, NEW s \in Stopper, RequestInv(s), stopper[s].pc # "idle", stopper[s].task \in Task,
         status[stopper[s].task] = "done", UNCHANGED status, Resume(s, stopper[s].task)
  PROVE  /\ RequestInv(s)' /\ cpu' \in {None, s}
         /\ \A p \in Stopper \ {s} : stopper'[p] = stopper[p]
<1>1. CASE Answer(s, "raised")
  BY <1>1, AnswerFacts, NoneAssumption DEF RequestInv
<1>2. CASE Answer(s, "ok") /\ stopper[s].item = None
  BY <1>2, AnswerFacts, NoneAssumption DEF RequestInv
<1>3. CASE /\ stopper' = [stopper EXCEPT ![s] = [stopper[s] EXCEPT !.pc = "step", !.task = None]]
           /\ cpu' = s /\ stopper[s].item # None
  <2>1. stopper'[s].pc = "step" /\ stopper'[s].item # None
    BY <1>3 DEF TypeOK, StopperState
  <2>. QED BY <1>3, <2>1 DEF RequestInv, TypeOK
<1>. QED BY <1>1, <1>2, <1>3 DEF Resume

\* One request moves, which is not woken and has no wake-up on its way.
LEMMA StopFrame ==
  ASSUME TypeOK, StopInv, NEW s \in Stopper,
         \A p \in Stopper \ {s} : stopper'[p] = stopper[p],
         cpu' \in {None, s}, RequestInv(s)',
         \A t \in Task : status[t] = "done" => status'[t] = "done",
         Once(ready, Wake(s)) => Once(ready, Wake(s))',
         ~ Holds(ready, Wake(s))',
         \A p \in Stopper \ {s} : /\ Once(ready, Wake(p)) => Once(ready, Wake(p))'
                                  /\ Holds(ready, Wake(p))' => Holds(ready, Wake(p))
  PROVE  StopInv'
<1>1. WakeInv'
  <2>2. \A p \in Stopper : Once(ready, Wake(p))'
    BY DEF StopInv, WakeInv
  <2>3. ASSUME NEW p \in Stopper, Holds(ready, Wake(p))'
        PROVE  stopper'[p].pc = "await" /\ stopper'[p].task \in Task /\ status'[stopper'[p].task] = "done"
    <3>1. p # s /\ Holds(ready, Wake(p)) /\ stopper'[p] = stopper[p]
      BY <2>3
    <3>. QED BY <3>1 DEF StopInv, WakeInv
  <2>. QED BY <2>2, <2>3 DEF WakeInv
<1>2. ASSUME NEW p \in Stopper PROVE RequestInv(p)'
  <2>1. CASE p = s
    BY <2>1
  <2>2. CASE p # s
    <3>1. cpu' # p /\ stopper'[p] = stopper[p] /\ stopper[p].listed \subseteq Task
      BY <2>2, NoneAssumption DEF TypeOK, StopperState
    <3>. QED BY <3>1 DEF StopInv, RequestInv
  <2>. QED BY <2>1, <2>2
<1>. QED BY <1>1, <1>2 DEF StopInv

\* No request moves.
LEMMA StopQuiet ==
  ASSUME TypeOK, StopInv, UNCHANGED <<stopper, cpu>>,
         \A t \in Task : status[t] = "done" => status'[t] = "done",
         \A p \in Stopper : /\ Once(ready, Wake(p)) => Once(ready, Wake(p))'
                            /\ Holds(ready, Wake(p))' => Holds(ready, Wake(p))
  PROVE  StopInv'
<1>1. WakeInv'
  <2>1. ASSUME NEW p \in Stopper
        PROVE  /\ Once(ready, Wake(p))'
               /\ Holds(ready, Wake(p))' =>
                    stopper[p].pc = "await" /\ stopper[p].task \in Task /\ status[stopper[p].task] = "done"
    BY DEF StopInv, WakeInv
  <2>2. \A p \in Stopper : stopper'[p] = stopper[p]
    OBVIOUS
  <2>. QED BY <2>1, <2>2 DEF WakeInv
<1>2. ASSUME NEW p \in Stopper PROVE RequestInv(p)'
  <2>1. stopper[p].listed \subseteq Task
    BY DEF TypeOK, StopperState
  <2>. QED BY <2>1 DEF StopInv, RequestInv
<1>. QED BY <1>1, <1>2 DEF StopInv

LEMMA StopStep ==
  ASSUME TypeOK, StopInv, [Next]_vars
  PROVE  StopInv'
<1>1. ASSUME NEW t \in Task, NEW i \in Item, CreateTask(t, i) PROVE StopInv'
  BY <1>1, StopQuiet DEF CreateTask, TypeOK, Once, Holds
<1>2. ASSUME NEW t \in Task, Finish(t) PROVE StopInv'
  <2>. DEFINE X == <<[kind |-> "callback", task |-> t]>>
              S == {[kind |-> "wakeup", stopper |-> s] : s \in Waiters(t)}
  <2>1. PICK W : W = SetToSeq(S) /\ ready' = (ready \o X) \o W
    BY <1>2 DEF Finish
  <2>2. UNCHANGED <<stopper, cpu>> /\ status' = [status EXCEPT ![t] = "done"] /\ status[t] # "done"
    BY <1>2 DEF Finish, Live
  <2>3. S = {Wake(s) : s \in Waiters(t)} /\ S \subseteq Handle
    BY DEF Wake, Waiters, Handle
  <2>4. ready \in Seq(Handle) /\ X \in Seq(Handle) /\ W \in Seq(Handle)
    <3>1. SetToSeq(S) \in Seq(S)
      BY <2>3, WaitersOnce
    <3>. QED BY <2>1, <2>3, <3>1, SeqMonotonic DEF TypeOK, Handle
  <2>5. \A s \in Stopper : Once(W, Wake(s)) /\ (Holds(W, Wake(s)) => s \in Waiters(t))
    <3>. SUFFICES ASSUME NEW s \in Stopper
                  PROVE  Once(W, Wake(s)) /\ (Holds(W, Wake(s)) => s \in Waiters(t))
      OBVIOUS
    <3>1. Once(W, Wake(s)) /\ (Holds(W, Wake(s)) => Wake(s) \in S)
      BY <2>1, <2>3, WaitersOnce
    <3>2. \A p : Wake(p) = Wake(s) => p = s
      BY DEF Wake
    <3>. QED BY <2>3, <3>1, <3>2
  <2>6. \A s \in Stopper : Once(X, Wake(s)) /\ ~ Holds(X, Wake(s))
    BY DEF Once, Holds, Wake
  <2>. HIDE DEF X, S
  <2>7. ready \o X \in Seq(Handle)
    BY <2>4, ConcatProperties
  <2>8. ASSUME NEW s \in Stopper
        PROVE  /\ Once(ready \o X, Wake(s))
               /\ Holds(ready \o X, Wake(s)) => Holds(ready, Wake(s))
    BY <2>4, <2>6, OnceConcat DEF StopInv, WakeInv
  <2>9. ASSUME NEW s \in Stopper PROVE ~ (Holds(ready, Wake(s)) /\ s \in Waiters(t))
    BY <2>2 DEF StopInv, WakeInv, Waiters
  <2>10. ASSUME NEW s \in Stopper
         PROVE  /\ Once(ready, Wake(s))'
                /\ Holds(ready, Wake(s))' => Holds(ready, Wake(s)) \/ s \in Waiters(t)
    <3>1. /\ Once((ready \o X) \o W, Wake(s))
          /\ Holds((ready \o X) \o W, Wake(s)) => Holds(ready, Wake(s)) \/ s \in Waiters(t)
      BY <2>4, <2>5, <2>7, <2>8, <2>9, OnceConcat
    <3>2. Wake(s)' = Wake(s)
      BY DEF Wake
    <3>. QED BY <2>1, <3>1, <3>2
  <2>11. \A u \in Task : status[u] = "done" \/ u = t => status'[u] = "done"
    BY <2>2 DEF TypeOK
  <2>12. WakeInv'
    BY <2>2, <2>10, <2>11 DEF StopInv, WakeInv, Waiters
  <2>13. ASSUME NEW s \in Stopper PROVE RequestInv(s)'
    <3>1. stopper[s].listed \subseteq Task
      BY DEF TypeOK, StopperState
    <3>. QED BY <2>2, <2>11, <3>1 DEF StopInv, RequestInv
  <2>. QED BY <2>12, <2>13 DEF StopInv
<1>3. ASSUME NEW t \in Task, RunCallback(t) PROVE StopInv'
  <2>. DEFINE h == [kind |-> "cleanup", task |-> t]
  <2>1. /\ ready # << >> /\ ready' = Append(Tail(ready), h) /\ UNCHANGED <<status, stopper, cpu>>
    BY <1>3 DEF RunCallback
  <2>2. ready \in Seq(Handle) /\ Tail(ready) \in Seq(Handle) /\ h \in Handle
    BY <2>1, HeadTailProperties DEF TypeOK, Handle
  <2>3. \A s \in Stopper : Wake(s) # h
    BY DEF Wake
  <2>. HIDE DEF h
  <2>4. ASSUME NEW s \in Stopper
        PROVE  /\ Once(ready, Wake(s)) => Once(ready, Wake(s))'
               /\ Holds(ready, Wake(s))' => Holds(ready, Wake(s))
    <3>1. PICK w : w = Wake(s)
      OBVIOUS
    <3>2. Wake(s)' = w /\ w # h
      BY <2>3, <3>1 DEF Wake
    <3>3. (Once(ready, w) => Once(Tail(ready), w)) /\ (Holds(Tail(ready), w) => Holds(ready, w))
      BY <2>1, <2>2, OnceTail
    <3>4. /\ Once(Tail(ready), w) => Once(Append(Tail(ready), h), w)
          /\ Holds(Append(Tail(ready), h), w) => Holds(Tail(ready), w)
      BY <2>2, <3>2, OnceAppend
    <3>5. /\ Once(ready, w) => Once(ready', w)
          /\ Holds(ready', w) => Holds(ready, w)
      BY <2>1, <3>3, <3>4
    <3>. QED BY <3>1, <3>2, <3>5
  <2>. QED BY <2>1, <2>4, StopQuiet
<1>4. ASSUME NEW t \in Task, Cleanup(t) PROVE StopInv'
  <2>1. /\ ready # << >> /\ ready' = Tail(ready) /\ UNCHANGED <<status, cpu>>
        /\ ready \in Seq(Handle)
    BY <1>4 DEF Cleanup, TypeOK
  <2>2. ASSUME NEW s \in Stopper
        PROVE  /\ stopper'[s].pc = stopper[s].pc /\ stopper'[s].task = stopper[s].task
               /\ stopper'[s].item = stopper[s].item /\ stopper'[s].listed = stopper[s].listed
               /\ stopper'[s].result = stopper[s].result
    <3>1. PICK b : stopper'[s] = [stopper[s] EXCEPT !.attached = b]
      BY <1>4 DEF Cleanup
    <3>. QED BY <3>1 DEF TypeOK, StopperState
  <2>3. ASSUME NEW s \in Stopper
        PROVE  /\ Once(ready, Wake(s)) => Once(ready, Wake(s))'
               /\ Holds(ready, Wake(s))' => Holds(ready, Wake(s))
    BY <2>1, OnceTail DEF Wake
  <2>4. WakeInv'
    BY <2>1, <2>2, <2>3 DEF StopInv, WakeInv
  <2>5. ASSUME NEW s \in Stopper PROVE RequestInv(s)'
    BY <2>1, <2>2 DEF StopInv, RequestInv
  <2>. QED BY <2>4, <2>5 DEF StopInv
<1>5. ASSUME NEW s \in Stopper, Wakeup(s) PROVE StopInv'
  <2>1. /\ ready # << >> /\ ready' = Tail(ready) /\ UNCHANGED status /\ Head(ready) = Wake(s)
        /\ ready \in Seq(Handle) /\ Resume(s, stopper[s].task)
    BY <1>5 DEF Wakeup, TypeOK, Wake
  <2>2. Once(ready, Wake(s)) /\ Holds(ready, Wake(s)) /\ ~ Holds(Tail(ready), Wake(s))
    BY <2>1, OnceTail DEF StopInv, WakeInv
  <2>3. stopper[s].pc = "await" /\ stopper[s].task \in Task /\ status[stopper[s].task] = "done"
    BY <2>2 DEF StopInv, WakeInv
  <2>4. /\ RequestInv(s)' /\ cpu' \in {None, s}
        /\ \A p \in Stopper \ {s} : stopper'[p] = stopper[p]
    BY <2>1, <2>3, ResumeFacts DEF StopInv
  <2>5. ASSUME NEW p \in Stopper
        PROVE  /\ Once(ready, Wake(p)) => Once(ready, Wake(p))'
               /\ Holds(ready, Wake(p))' => Holds(ready, Wake(p))
    BY <2>1, OnceTail DEF Wake
  <2>6. ~ Holds(ready, Wake(s))'
    BY <2>1, <2>2 DEF Wake
  <2>. QED BY <2>1, <2>4, <2>5, <2>6, StopFrame
<1>6. ASSUME NEW s \in Stopper, stopper[s].pc # "await", UNCHANGED ready,
             \A p \in Stopper \ {s} : stopper'[p] = stopper[p],
             cpu' \in {None, s}, RequestInv(s)',
             \A t \in Task : status[t] = "done" => status'[t] = "done"
      PROVE  StopInv'
  <2>1. ~ Holds(ready, Wake(s))
    BY <1>6 DEF StopInv, WakeInv
  <2>2. \A p : /\ Holds(ready, Wake(p))' <=> Holds(ready, Wake(p))
               /\ Once(ready, Wake(p))' <=> Once(ready, Wake(p))
    BY <1>6 DEF Holds, Once, Wake
  <2>. QED BY <1>6, <2>1, <2>2, StopFrame
<1>7. ASSUME NEW s \in Stopper, NEW t \in Task, CallStopTask(s, t) PROVE StopInv'
  <2>1. /\ stopper[s].pc = "idle" /\ cpu' = s /\ UNCHANGED <<status, ready>>
        /\ stopper' = [stopper EXCEPT ![s] =
                         [IdleStopper EXCEPT !.pc = "step", !.task = t, !.listed = {t}]]
    BY <1>7 DEF CallStopTask
  <2>2. stopper'[s].pc = "step" /\ stopper'[s].task = t /\ stopper'[s].listed = {t}
    BY <2>1 DEF IdleStopper, TypeOK
  <2>3. \A p \in Stopper \ {s} : stopper'[p] = stopper[p]
    BY <2>1 DEF TypeOK
  <2>4. RequestInv(s)'
    BY <2>2 DEF RequestInv
  <2>. QED BY <1>6, <2>1, <2>3, <2>4
<1>8. ASSUME NEW s \in Stopper, NEW i \in Item, CallStopItemTasks(s, i) PROVE StopInv'
  <2>1. /\ stopper[s].pc = "idle" /\ cpu = None /\ UNCHANGED <<status, ready>>
    BY <1>8 DEF CallStopItemTasks
  <2>2. /\ stopper'[s].item = i /\ (cpu' = None \/ (cpu' = s /\ stopper'[s].pc = "step"))
        /\ \A p \in Stopper \ {s} : stopper'[p] = stopper[p]
    <3>1. CASE itemTasks[i] = << >>
      <4>1. /\ stopper' = [stopper EXCEPT ![s] = [IdleStopper EXCEPT !.item = i, !.result = "ok"]]
            /\ cpu' = cpu
        BY <1>8, <3>1 DEF CallStopItemTasks
      <4>. QED BY <2>1, <4>1 DEF IdleStopper, TypeOK
    <3>2. CASE itemTasks[i] # << >>
      BY <1>8, <3>2 DEF CallStopItemTasks, IdleStopper, TypeOK
    <3>. QED BY <3>1, <3>2
  <2>3. RequestInv(s)'
    BY <2>2, NoneAssumption DEF RequestInv
  <2>. QED BY <1>6, <2>1, <2>2, <2>3
<1>9. ASSUME NEW s \in Stopper, NextTask(s) PROVE StopInv'
  <2>1. /\ cpu = s /\ stopper[s].pc = "step" /\ stopper[s].item # None /\ UNCHANGED <<status, ready>>
    BY <1>9 DEF NextTask
  <2>2. CASE Answer(s, "ok")
    <3>1. RequestInv(s)'
      BY <2>1, <2>2, AnswerFacts, NoneAssumption DEF RequestInv
    <3>. QED BY <1>6, <2>1, <2>2, <3>1, AnswerFacts
  <2>3. ASSUME UNCHANGED cpu,
               stopper' = [stopper EXCEPT ![s] =
                             [stopper[s] EXCEPT !.task = LoopList(s)[stopper[s].index + 1],
                                                !.index = stopper[s].index + 1]]
        PROVE  StopInv'
    <3>1. stopper'[s].pc = "step" /\ stopper'[s].item = stopper[s].item
      BY <2>1, <2>3 DEF TypeOK, StopperState
    <3>2. RequestInv(s)'
      BY <2>1, <3>1 DEF RequestInv
    <3>3. \A p \in Stopper \ {s} : stopper'[p] = stopper[p]
      BY <2>3 DEF TypeOK
    <3>. QED BY <1>6, <2>1, <2>3, <3>2, <3>3
  <2>. QED BY <1>9, <2>2, <2>3 DEF NextTask
<1>10. ASSUME NEW s \in Stopper, StopMissing(s) PROVE StopInv'
  <2>1. stopper[s].pc = "step" /\ Answer(s, "failed") /\ UNCHANGED <<status, ready>>
    BY <1>10 DEF StopMissing, StopInv, RequestInv
  <2>2. RequestInv(s)'
    BY <2>1, AnswerFacts, NoneAssumption DEF RequestInv
  <2>. QED BY <1>6, <2>1, <2>2, AnswerFacts
<1>11. ASSUME NEW s \in Stopper, StopEnded(s) PROVE StopInv'
  <2>1. /\ stopper[s].pc = "step" /\ stopper[s].task \in tasks /\ status[stopper[s].task] = "done"
        /\ Resume(s, stopper[s].task) /\ UNCHANGED <<status, ready>>
    BY <1>11 DEF StopEnded, StopInv, RequestInv
  <2>2. /\ RequestInv(s)' /\ cpu' \in {None, s}
        /\ \A p \in Stopper \ {s} : stopper'[p] = stopper[p]
    BY <2>1, ResumeFacts DEF StopInv, TypeOK
  <2>. QED BY <1>6, <2>1, <2>2
<1>12. ASSUME NEW s \in Stopper, StopLive(s) PROVE StopInv'
  <2>1. /\ stopper[s].pc = "step" /\ cpu' = None /\ UNCHANGED ready
        /\ status' = [status EXCEPT ![stopper[s].task] = "cancelling"]
        /\ status[stopper[s].task] # "done"
        /\ stopper' = [stopper EXCEPT ![s].pc = "await"]
    BY <1>12 DEF StopLive, StopInv, RequestInv, Live
  <2>2. /\ stopper'[s].pc = "await" /\ stopper'[s].task = stopper[s].task
        /\ stopper'[s].item = stopper[s].item /\ stopper'[s].listed = stopper[s].listed
        /\ \A p \in Stopper \ {s} : stopper'[p] = stopper[p]
    BY <2>1 DEF TypeOK, StopperState
  <2>3. RequestInv(s)'
    BY <2>1, <2>2, NoneAssumption DEF StopInv, RequestInv
  <2>4. \A t \in Task : status[t] = "done" => status'[t] = "done"
    BY <2>1 DEF TypeOK
  <2>. QED BY <1>6, <2>1, <2>2, <2>3, <2>4
<1>13. CASE UNCHANGED vars
  BY <1>13, StopQuiet DEF vars, Once, Holds
<1>. QED BY <1>1, <1>2, <1>3, <1>4, <1>5, <1>7, <1>8, <1>9, <1>10, <1>11, <1>12, <1>13
         DEF Next, ServeReady, RunRequest

\* tasks.py:163, stop_task: the request that is answered "stopped" has awaited
\* the end of the task, whichever request took it and however it ended.
THEOREM StoppedHasEnded == Spec => []StoppedMeansEnded
<1>1. Init => StopInv
  BY NoneAssumption DEF Init, StopInv, WakeInv, RequestInv, Once, Holds, IdleStopper
<1>2. StopInv => StoppedMeansEnded
  BY DEF StopInv, RequestInv, StoppedMeansEnded
<1>3. TypeOK /\ StopInv /\ [Next]_vars => StopInv'
  BY StopStep
<1>. QED BY <1>1, <1>2, <1>3, TypeInit, TypeStep, PTL DEF Spec

=============================================================================
