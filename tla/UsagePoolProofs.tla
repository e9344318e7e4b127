-------------------------- MODULE UsagePoolProofs ---------------------------
(***************************************************************************)
(* Proofs about UsagePool, for any number of processes, sessions, models,  *)
(* reports and crashes: only a process that writes back connections it has *)
(* read too early takes a session from the pool or puts it back.           *)
(***************************************************************************)
EXTENDS UsagePool, TLAPS

-----------------------------------------------------------------------------
(* The inductive invariant                                                 *)

\* A report is that of a session connected to the process, which handles no
\* disconnect in the meantime; a session that leaves has disconnected, and is
\* not among the connections about to be written back.
JobInv ==
  \A n \in Node :
    /\ job[n].pc \in {"get", "set", "put"} => job[n].model \in Model
    /\ job[n].pc \in {"get", "set", "look", "put"} => job[n].sid \in Session
    /\ job[n].pc \in {"get", "set"} => conn[job[n].sid] = "open" /\ home[job[n].sid] = n
    /\ job[n].pc \in {"look", "put"} => conn[job[n].sid] = "closed"
    /\ job[n].pc = "put" => job[n].seen[job[n].model][job[n].sid] = None

\* An open session is connected to some process.
HomeInv == \A s \in Session : conn[s] = "open" => home[s] \in Node

IInv == TypeOK /\ JobInv /\ HomeInv

-----------------------------------------------------------------------------
(* Types                                                                   *)

\* No connections, and a process and a cleaner at rest.
LEMMA IdleType == Nobody \in Connections /\ Idle \in Job /\ Off \in CleanerState
<1>1. Nobody \in Connections
  BY DEF Nobody, Connections
<1>2. Idle \in Job
  BY <1>1 DEF Idle, Job
<1>3. Off \in CleanerState
  BY LockAssumption DEF Off, CleanerState, MaxRetries
<1> QED BY <1>1, <1>2, <1>3

LEMMA LeavingType ==
  ASSUME NEW s \in Session, NEW todo \in SUBSET Model
  PROVE  /\ Leaving(s, todo) \in Job
         /\ Leaving(s, todo).pc \in {"idle", "look"}
         /\ Leaving(s, todo).pc = "look" => Leaving(s, todo).sid = s
BY IdleType DEF Leaving, Job, Idle

LEMMA CleanerType ==
  ASSUME NEW c \in CleanerState
  PROVE  /\ c.attempt < MaxRetries => [c EXCEPT !.attempt = @ + 1, !.wait = c.delay] \in CleanerState
         /\ [c EXCEPT !.pc = "clean"] \in CleanerState
         /\ \A d \in 1..LockTimeout : [c EXCEPT !.pc = "acquire", !.delay = d] \in CleanerState
<1>1. c.attempt \in 0..2 /\ c.delay \in 0..LockTimeout
  BY DEF CleanerState, MaxRetries
<1>2. ASSUME c.attempt < MaxRetries
      PROVE  [c EXCEPT !.attempt = @ + 1, !.wait = c.delay] \in CleanerState
  <2>1. c.attempt + 1 \in 0..MaxRetries
    BY <1>1, <1>2 DEF MaxRetries
  <2> QED BY <1>1, <2>1 DEF CleanerState
<1>3. [c EXCEPT !.pc = "clean"] \in CleanerState
  BY DEF CleanerState
<1>4. ASSUME NEW d \in 1..LockTimeout
      PROVE  [c EXCEPT !.pc = "acquire", !.delay = d] \in CleanerState
  <2>1. d \in 0..LockTimeout
    BY LockAssumption
  <2> QED BY <2>1 DEF CleanerState
<1> QED BY <1>2, <1>3, <1>4

\* What is removed by the cleanup, and what ages.
LEMMA ConnectionsType ==
  ASSUME NEW c \in Connections
  PROVE  Unexpired(c) \in Connections /\ Older(c) \in Connections
BY DEF Connections, Unexpired, Older

\* Writing connections back keeps the pool and the jobs well formed.
LEMMA PutType ==
  ASSUME TypeOK, NEW n \in Node, NEW m \in Model, NEW left \in Connections,
         NEW done \in Job, NEW failed \in Job, Put(n, m, left, done, failed)
  PROVE  usage' \in [Model -> Connections] /\ job' \in [Node -> Job]
BY DEF Put, Step, TypeOK

LEMMA TypeInit == Init => TypeOK
BY IdleType, LockAssumption, UsageAssumption DEF Init, TypeOK, LockInit, LockTypeOK

LEMMA TypeNext ==
  ASSUME IInv, [Next]_vars
  PROVE  TypeOK'
<1> USE IdleType, LockAssumption, UsageAssumption
<1>1. CASE UNCHANGED vars
  BY <1>1 DEF IInv, TypeOK, LockTypeOK, vars
<1>2. ASSUME NEW s \in Session, NEW n \in Node, Connect(s, n) PROVE TypeOK'
  BY <1>2 DEF Connect, IInv, TypeOK, LockTypeOK, lockVars, nodes
<1>3. ASSUME NEW s \in Session, NEW m \in Model, Report(s, m) PROVE TypeOK'
  <2>1. PICK j \in Job : Step(home[s], j)
    <3>1. [Idle EXCEPT !.pc = IF m \in InUse THEN "get" ELSE "set", !.sid = s, !.model = m] \in Job
      BY DEF Job
    <3> QED BY <1>3, <3>1 DEF Report
  <2>2. job' \in [Node -> Job]
    BY <2>1 DEF Step, IInv, TypeOK
  <2>3. reports' \in 0..MaxReports
    BY <1>3 DEF Report, IInv, TypeOK
  <2> QED BY <1>3, <2>2, <2>3 DEF Report, IInv, TypeOK, LockTypeOK, lockVars, nodes
<1>4. ASSUME NEW n \in Node, ReportGet(n) PROVE TypeOK'
  <2>1. job[n].model \in Model
    BY <1>4 DEF ReportGet, IInv, JobInv
  <2>2. PICK j \in Job : Step(n, j)
    <3>1. [job[n] EXCEPT !.pc = "set", !.seen[job[n].model] = usage[job[n].model]] \in Job
      BY <2>1 DEF Job, IInv, TypeOK
    <3> QED BY <1>4, <3>1 DEF ReportGet
  <2>3. job' \in [Node -> Job]
    BY <2>2 DEF Step, IInv, TypeOK
  <2> QED BY <1>4, <2>3 DEF ReportGet, IInv, TypeOK, LockTypeOK, lockVars, clients, nodes
<1>5. ASSUME NEW n \in Node, ReportSet(n) PROVE TypeOK'
  <2>1. job[n].model \in Model /\ job[n].sid \in Session
    BY <1>5 DEF ReportSet, IInv, JobInv
  <2>2. [job[n].seen[job[n].model] EXCEPT ![job[n].sid] = 0] \in Connections
    BY <2>1 DEF Job, Connections, IInv, TypeOK
  <2>3. usage' \in [Model -> Connections] /\ job' \in [Node -> Job]
    BY <1>5, <2>2 DEF ReportSet, Step, IInv, TypeOK
  <2> QED BY <1>5, <2>3 DEF ReportSet, IInv, TypeOK, LockTypeOK, lockVars, clients, nodes
<1>6. ASSUME NEW s \in Session, Disconnect(s) PROVE TypeOK'
  <2>1. InUse \in SUBSET Model
    BY DEF InUse
  <2>2. job' \in [Node -> Job]
    BY <1>6, <2>1, LeavingType DEF Disconnect, Step, IInv, TypeOK
  <2> QED BY <1>6, <2>2 DEF Disconnect, IInv, TypeOK, LockTypeOK, lockVars, nodes
<1>7. ASSUME NEW n \in Node, LeaveLook(n) PROVE TypeOK'
  <2>1. job[n].sid \in Session
    BY <1>7 DEF LeaveLook, IInv, JobInv
  <2>2. PICK m \in job[n].todo :
          Step(n, IF usage[m][job[n].sid] = None THEN Leaving(job[n].sid, job[n].todo \ {m})
                  ELSE [job[n] EXCEPT !.pc = "put", !.model = m, !.todo = @ \ {m},
                                      !.seen[m] = [usage[m] EXCEPT ![job[n].sid] = None]])
    BY <1>7 DEF LeaveLook
  <2>3. m \in Model /\ job[n].todo \ {m} \in SUBSET Model
    BY DEF IInv, TypeOK, Job
  <2>4. [job[n] EXCEPT !.pc = "put", !.model = m, !.todo = @ \ {m},
                       !.seen[m] = [usage[m] EXCEPT ![job[n].sid] = None]] \in Job
    BY <2>3 DEF Job, Connections, IInv, TypeOK
  <2>5. PICK j \in Job : Step(n, j)
    BY <2>1, <2>2, <2>3, <2>4, LeavingType
  <2>6. job' \in [Node -> Job]
    BY <2>5 DEF Step, IInv, TypeOK
  <2> QED BY <1>7, <2>6 DEF LeaveLook, IInv, TypeOK, LockTypeOK, lockVars, clients, nodes
<1>8. ASSUME NEW n \in Node, LeavePut(n) PROVE TypeOK'
  <2>1. /\ job[n].model \in Model /\ job[n].sid \in Session
        /\ job[n].seen[job[n].model] \in Connections /\ job[n].todo \in SUBSET Model
    BY <1>8 DEF LeavePut, IInv, JobInv, TypeOK, Job
  <2>2. usage' \in [Model -> Connections] /\ job' \in [Node -> Job]
    BY <1>8, <2>1, PutType, LeavingType DEF LeavePut, IInv
  <2> QED BY <1>8, <2>2 DEF LeavePut, IInv, TypeOK, LockTypeOK, lockVars, clients, nodes
<1>9. ASSUME NEW n \in Node, CleanerAcquire(n) PROVE TypeOK'
  <2>1. job' \in [Node -> Job]
    <3>1. [Idle EXCEPT !.pc = "renew"] \in Job
      BY DEF Job
    <3> QED BY <1>9, <3>1 DEF CleanerAcquire, Step, IInv, TypeOK
  <2>2. cleaner' \in [Node -> CleanerState]
    <3>1. PICK c \in CleanerState : cleaner' = [cleaner EXCEPT ![n] = c]
      <4>1. cleaner[n] \in CleanerState
        BY DEF IInv, TypeOK
      <4>2. CASE cleaner' = [cleaner EXCEPT ![n] = [Off EXCEPT !.pc = "clean"]]
        BY <4>2, CleanerType
      <4>3. CASE cleaner' = [cleaner EXCEPT ![n] =
                   IF cleaner[n].attempt < MaxRetries
                   THEN [cleaner[n] EXCEPT !.attempt = @ + 1, !.wait = cleaner[n].delay]
                   ELSE Off]
        <5>1. (IF cleaner[n].attempt < MaxRetries
               THEN [cleaner[n] EXCEPT !.attempt = @ + 1, !.wait = cleaner[n].delay]
               ELSE Off) \in CleanerState
          BY <4>1, CleanerType
        <5> QED BY <4>3, <5>1
      <4> QED BY <1>9, <4>2, <4>3 DEF CleanerAcquire
    <3> QED BY <3>1 DEF IInv, TypeOK
  <2>3. LockTypeOK'
    BY <1>9 DEF CleanerAcquire, AcquireSucceeds, AcquireFails, Take, lockVars, LockTypeOK, IInv, TypeOK
  <2> QED BY <1>9, <2>1, <2>2, <2>3 DEF CleanerAcquire, IInv, TypeOK, clients, nodes
<1>10. ASSUME NEW n \in Node, CleanerRenew(n) PROVE TypeOK'
  <2>1. job' \in [Node -> Job]
    <3>1. [Idle EXCEPT !.pc = "all"] \in Job /\ [Idle EXCEPT !.pc = "release"] \in Job
      BY DEF Job
    <3> QED BY <1>10, <3>1 DEF CleanerRenew, Step, IInv, TypeOK
  <2>2. LockTypeOK'
    BY <1>10 DEF CleanerRenew, RenewSucceeds, RenewFails, Take, lockVars, LockTypeOK, IInv, TypeOK
  <2> QED BY <1>10, <2>1, <2>2 DEF CleanerRenew, IInv, TypeOK, clients, nodes
<1>11. ASSUME NEW n \in Node, CleanerAll(n) PROVE TypeOK'
  <2>1. job' \in [Node -> Job]
    <3>1. [Idle EXCEPT !.pc = "clean", !.todo = InUse, !.seen = usage] \in Job
      BY DEF Job, InUse, IInv, TypeOK
    <3> QED BY <1>11, <3>1 DEF CleanerAll, Step, IInv, TypeOK
  <2> QED BY <1>11, <2>1 DEF CleanerAll, IInv, TypeOK, LockTypeOK, lockVars, clients, nodes
<1>12. ASSUME NEW n \in Node, CleanerPut(n) PROVE TypeOK'
  <2>1. PICK m \in job[n].todo :
          Put(n, m, Unexpired(job[n].seen[m]),
              [job[n] EXCEPT !.todo = @ \ {m}], [Idle EXCEPT !.pc = "release"])
    BY <1>12 DEF CleanerPut
  <2>2. m \in Model /\ job[n].seen[m] \in Connections
    BY DEF IInv, TypeOK, Job
  <2>3. /\ [job[n] EXCEPT !.todo = @ \ {m}] \in Job
        /\ [Idle EXCEPT !.pc = "release"] \in Job
    BY DEF IInv, TypeOK, Job
  <2>4. usage' \in [Model -> Connections] /\ job' \in [Node -> Job]
    BY <2>1, <2>2, <2>3, PutType, ConnectionsType DEF IInv
  <2> QED BY <1>12, <2>4 DEF CleanerPut, IInv, TypeOK, LockTypeOK, lockVars, clients, nodes
<1>13. ASSUME NEW n \in Node, CleanerSleep(n) PROVE TypeOK'
  <2>1. cleaner' \in [Node -> CleanerState]
    BY <1>13 DEF CleanerSleep, CleanerState, IInv, TypeOK
  <2>2. job' \in [Node -> Job]
    BY <1>13 DEF CleanerSleep, Step, IInv, TypeOK
  <2> QED BY <1>13, <2>1, <2>2 DEF CleanerSleep, IInv, TypeOK, LockTypeOK, lockVars, clients, nodes
<1>14. ASSUME NEW n \in Node, CleanerRelease(n) PROVE TypeOK'
  <2>1. job' \in [Node -> Job]
    <3>1. [Idle EXCEPT !.pc = "unlock"] \in Job
      BY DEF Job
    <3> QED BY <1>14, <3>1 DEF CleanerRelease, Step, IInv, TypeOK
  <2> QED BY <1>14, <2>1 DEF CleanerRelease, IInv, TypeOK, LockTypeOK, lockVars, clients, nodes
<1>15. ASSUME NEW n \in Node, CleanerUnlock(n) PROVE TypeOK'
  BY <1>15 DEF CleanerUnlock, DeleteLock, Step, IInv, TypeOK, LockTypeOK, clients, nodes
<1>16. ASSUME NEW n \in Node, Start(n) PROVE TypeOK'
  <2>1. cleaner' \in [Node -> CleanerState]
    <3>1. PICK d \in 1..LockTimeout :
            cleaner' = [cleaner EXCEPT ![n] = [Off EXCEPT !.pc = "acquire", !.delay = d]]
      BY <1>16 DEF Start
    <3>2. [Off EXCEPT !.pc = "acquire", !.delay = d] \in CleanerState
      BY CleanerType
    <3> QED BY <3>1, <3>2 DEF IInv, TypeOK
  <2> QED BY <1>16, <2>1 DEF Start, IInv, TypeOK, LockTypeOK, lockVars, clients
<1>17. ASSUME NEW n \in Node, Crash(n) PROVE TypeOK'
  <2>1. LockTypeOK'
    BY <1>17 DEF Crash, Abandon, LockTypeOK, IInv, TypeOK
  <2>2. conn' \in [Session -> {"new", "open", "closed"}] /\ home' \in [Session -> Node \cup {None}]
    BY <1>17 DEF Crash, IInv, TypeOK
  <2> QED BY <1>17, <2>1, <2>2 DEF Crash, Step, IInv, TypeOK
<1>18. CASE Tick
  <2>1. LockTypeOK'
    BY <1>18 DEF Tick, LockTick, LockTypeOK, IInv, TypeOK
  <2>2. usage' \in [Model -> Connections]
    BY <1>18, ConnectionsType DEF Tick, IInv, TypeOK
  <2>3. cleaner' \in [Node -> CleanerState]
    <3> SUFFICES ASSUME NEW n \in Node, cleaner[n].pc # "off", cleaner[n].wait > 0
                 PROVE  [cleaner[n] EXCEPT !.wait = @ - 1] \in CleanerState
      BY <1>18 DEF Tick
    <3> QED BY DEF CleanerState, IInv, TypeOK
  <2> QED BY <1>18, <2>1, <2>2, <2>3 DEF Tick, IInv, TypeOK, clients, nodes
<1> QED BY <1>1, <1>2, <1>3, <1>4, <1>5, <1>6, <1>7, <1>8, <1>9, <1>10, <1>11, <1>12, <1>13,
           <1>14, <1>15, <1>16, <1>17, <1>18 DEF Next, Continue

-----------------------------------------------------------------------------
(* What the processes are doing                                            *)

\* The jobs of the others stay as they are, and only the session that the step
\* is about may change its connection, which no other job works for.
LEMMA JobFrame ==
  ASSUME IInv, NEW n \in Node,
         \A k \in Node \ {n} : job'[k] = job[k],
         \A s \in Session : conn[s] = "closed" => conn'[s] = "closed",
         \A s \in Session : conn[s] = "open" /\ home[s] # n => conn'[s] = "open" /\ home'[s] = home[s],
         /\ job'[n].pc \in {"get", "set", "put"} => job'[n].model \in Model
         /\ job'[n].pc \in {"get", "set", "look", "put"} => job'[n].sid \in Session
         /\ job'[n].pc \in {"get", "set"} => conn'[job'[n].sid] = "open" /\ home'[job'[n].sid] = n
         /\ job'[n].pc \in {"look", "put"} => conn'[job'[n].sid] = "closed"
         /\ job'[n].pc = "put" => job'[n].seen[job'[n].model][job'[n].sid] = None
  PROVE  JobInv'
BY DEF IInv, JobInv

\* Steps that leave the connections alone and whose process then has nothing to
\* do for a session.
LEMMA JobQuiet ==
  ASSUME IInv, NEW n \in Node, UNCHANGED <<conn, home>>,
         NEW j, job' = [job EXCEPT ![n] = j] \/ job' = job,
         j.pc \notin {"get", "set", "look", "put"}
  PROVE  JobInv' /\ HomeInv'
<1>1. HomeInv'
  BY DEF IInv, HomeInv
<1>2. CASE job' = job
  BY <1>1, <1>2 DEF IInv, JobInv
<1>3. CASE job' = [job EXCEPT ![n] = j]
  <2>1. job'[n] = j /\ \A k \in Node \ {n} : job'[k] = job[k]
    BY <1>3 DEF IInv, TypeOK
  <2> QED BY <1>1, <2>1, JobFrame
<1> QED BY <1>2, <1>3

LEMMA JobNext ==
  ASSUME IInv, [Next]_vars
  PROVE  JobInv' /\ HomeInv'
<1>1. CASE UNCHANGED vars
  BY <1>1 DEF IInv, JobInv, HomeInv, vars
<1>2. ASSUME NEW s \in Session, NEW n \in Node, Connect(s, n) PROVE JobInv' /\ HomeInv'
  <2>1. /\ conn[s] = "new" /\ conn'[s] = "open" /\ home'[s] = n /\ job' = job
        /\ \A t \in Session \ {s} : conn'[t] = conn[t] /\ home'[t] = home[t]
    BY <1>2 DEF Connect, IInv, TypeOK
  <2> QED BY <2>1 DEF IInv, JobInv, HomeInv
<1>3. ASSUME NEW s \in Session, NEW m \in Model, Report(s, m) PROVE JobInv' /\ HomeInv'
  <2>1. conn[s] = "open" /\ UNCHANGED <<conn, home>>
    BY <1>3 DEF Report
  <2>2. PICK n \in Node : home[s] = n
    BY <2>1 DEF IInv, HomeInv
  <2>3. PICK pc \in {"get", "set"} : job' = [job EXCEPT ![n] = [Idle EXCEPT !.pc = pc, !.sid = s, !.model = m]]
    BY <1>3, <2>2 DEF Report, Step
  <2>4. /\ job'[n].pc = pc /\ job'[n].sid = s /\ job'[n].model = m
        /\ \A k \in Node \ {n} : job'[k] = job[k]
    BY <2>3 DEF Idle, IInv, TypeOK
  <2>5. JobInv'
    BY <2>1, <2>2, <2>4, JobFrame
  <2> QED BY <2>1, <2>5 DEF IInv, HomeInv
<1>4. ASSUME NEW n \in Node, ReportGet(n) PROVE JobInv' /\ HomeInv'
  <2>1. job[n].pc = "get" /\ UNCHANGED <<conn, home>>
    BY <1>4 DEF ReportGet, clients
  <2>2. CASE job[n].model \in InUse
    <3>1. job' = [job EXCEPT ![n] =
                    [job[n] EXCEPT !.pc = "set", !.seen[job[n].model] = usage[job[n].model]]]
      BY <1>4, <2>2 DEF ReportGet, Step
    <3>2. /\ job'[n].pc = "set" /\ job'[n].sid = job[n].sid /\ job'[n].model = job[n].model
          /\ \A k \in Node \ {n} : job'[k] = job[k]
      BY <3>1 DEF IInv, TypeOK, Job
    <3>3. JobInv'
      BY <2>1, <3>2, JobFrame DEF IInv, JobInv
    <3> QED BY <2>1, <3>3 DEF IInv, HomeInv
  <2>3. CASE job[n].model \notin InUse
    BY <1>4, <2>1, <2>3, JobQuiet DEF ReportGet, Step, Idle
  <2> QED BY <2>2, <2>3
<1>5. ASSUME NEW n \in Node, ReportSet(n) PROVE JobInv' /\ HomeInv'
  BY <1>5, JobQuiet DEF ReportSet, Step, Idle, clients
<1>6. ASSUME NEW s \in Session, Disconnect(s) PROVE JobInv' /\ HomeInv'
  <2>1. /\ conn[s] = "open" /\ conn'[s] = "closed" /\ home' = home
        /\ \A t \in Session \ {s} : conn'[t] = conn[t]
    BY <1>6 DEF Disconnect, IInv, TypeOK
  <2>2. PICK n \in Node : home[s] = n
    BY <2>1 DEF IInv, HomeInv
  <2>3. PICK todo \in SUBSET Model : job' = [job EXCEPT ![n] = Leaving(s, todo)]
    BY <1>6, <2>2 DEF Disconnect, Step, InUse
  <2>4. job'[n] = Leaving(s, todo) /\ \A k \in Node \ {n} : job'[k] = job[k]
    BY <2>3 DEF IInv, TypeOK
  <2>5. job'[n].pc \in {"idle", "look"} /\ (job'[n].pc = "look" => job'[n].sid = s)
    BY <2>4, LeavingType
  <2>6. JobInv'
    BY <2>1, <2>2, <2>4, <2>5, JobFrame
  <2> QED BY <2>1, <2>6 DEF IInv, HomeInv
<1>7. ASSUME NEW n \in Node, LeaveLook(n) PROVE JobInv' /\ HomeInv'
  <2> DEFINE s == job[n].sid
  <2>1. /\ job[n].pc = "look" /\ UNCHANGED <<conn, home>>
        /\ s \in Session /\ conn[s] = "closed"
    BY <1>7 DEF LeaveLook, clients, IInv, JobInv
  <2>2. PICK m \in job[n].todo :
          Step(n, IF usage[m][s] = None THEN Leaving(s, job[n].todo \ {m})
                  ELSE [job[n] EXCEPT !.pc = "put", !.model = m, !.todo = @ \ {m},
                                      !.seen[m] = [usage[m] EXCEPT ![s] = None]])
    BY <1>7 DEF LeaveLook
  <2>3. m \in Model /\ job[n].todo \ {m} \in SUBSET Model
    BY DEF IInv, TypeOK, Job
  <2>4. \A k \in Node \ {n} : job'[k] = job[k]
    BY <2>2 DEF Step, IInv, TypeOK
  <2>5. CASE usage[m][s] = None
    <3>1. job'[n] = Leaving(s, job[n].todo \ {m})
      BY <2>2, <2>5 DEF Step, IInv, TypeOK
    <3>2. job'[n].pc \in {"idle", "look"} /\ (job'[n].pc = "look" => job'[n].sid = s)
      BY <2>1, <2>3, <3>1, LeavingType
    <3>3. JobInv'
      BY <2>1, <2>4, <3>2, JobFrame
    <3> QED BY <2>1, <3>3 DEF IInv, HomeInv
  <2>6. CASE usage[m][s] # None
    <3>1. job'[n] = [job[n] EXCEPT !.pc = "put", !.model = m, !.todo = @ \ {m},
                                   !.seen[m] = [usage[m] EXCEPT ![s] = None]]
      BY <2>2, <2>6 DEF Step, IInv, TypeOK
    <3>2. job'[n].pc = "put" /\ job'[n].model = m /\ job'[n].sid = s
      BY <3>1 DEF IInv, TypeOK, Job
    <3>3. job'[n].seen[m] = [usage[m] EXCEPT ![s] = None]
      BY <2>3, <3>1 DEF IInv, TypeOK, Job
    <3>4. job'[n].seen[m][s] = None
      BY <2>1, <2>3, <3>3 DEF IInv, TypeOK, Connections
    <3>5. JobInv'
      BY <2>1, <2>3, <2>4, <3>2, <3>4, JobFrame
    <3> QED BY <2>1, <3>5 DEF IInv, HomeInv
  <2> QED BY <2>5, <2>6
<1>8. ASSUME NEW n \in Node, LeavePut(n) PROVE JobInv' /\ HomeInv'
  <2>1. /\ job[n].pc = "put" /\ UNCHANGED <<conn, home>>
        /\ job[n].sid \in Session /\ conn[job[n].sid] = "closed"
    BY <1>8 DEF LeavePut, clients, IInv, JobInv
  <2>2. CASE job' = [job EXCEPT ![n] = Idle]
    BY <2>1, <2>2, JobQuiet DEF Idle
  <2>3. CASE job' = [job EXCEPT ![n] = Leaving(job[n].sid, job[n].todo)]
    <3>1. job'[n] = Leaving(job[n].sid, job[n].todo) /\ \A k \in Node \ {n} : job'[k] = job[k]
      BY <2>3 DEF IInv, TypeOK
    <3>2. job[n].todo \in SUBSET Model
      BY DEF IInv, TypeOK, Job
    <3>3. job'[n].pc \in {"idle", "look"} /\ (job'[n].pc = "look" => job'[n].sid = job[n].sid)
      BY <2>1, <3>1, <3>2, LeavingType
    <3>4. JobInv'
      BY <2>1, <3>1, <3>3, JobFrame
    <3> QED BY <2>1, <3>4 DEF IInv, HomeInv
  <2> QED BY <1>8, <2>2, <2>3 DEF LeavePut, Put, Step
<1>9. ASSUME NEW n \in Node, CleanerAcquire(n) PROVE JobInv' /\ HomeInv'
  BY <1>9, JobQuiet DEF CleanerAcquire, Step, Idle, clients
<1>10. ASSUME NEW n \in Node, CleanerRenew(n) PROVE JobInv' /\ HomeInv'
  BY <1>10, JobQuiet DEF CleanerRenew, Step, Idle, clients
<1>11. ASSUME NEW n \in Node, CleanerAll(n) PROVE JobInv' /\ HomeInv'
  BY <1>11, JobQuiet DEF CleanerAll, Step, Idle, clients
<1>12. ASSUME NEW n \in Node, CleanerPut(n) PROVE JobInv' /\ HomeInv'
  <2>1. job[n].pc = "clean" /\ UNCHANGED <<conn, home>>
    BY <1>12 DEF CleanerPut, clients
  <2>2. CASE job' = [job EXCEPT ![n] = [Idle EXCEPT !.pc = "release"]]
    BY <2>1, <2>2, JobQuiet DEF Idle
  <2>3. CASE \E m \in job[n].todo : job' = [job EXCEPT ![n] = [job[n] EXCEPT !.todo = @ \ {m}]]
    <3>1. PICK m \in job[n].todo : job' = [job EXCEPT ![n] = [job[n] EXCEPT !.todo = @ \ {m}]]
      BY <2>3
    <3>2. [job[n] EXCEPT !.todo = @ \ {m}].pc = "clean"
      BY <2>1 DEF IInv, TypeOK, Job
    <3> QED BY <2>1, <3>1, <3>2, JobQuiet
  <2> QED BY <1>12, <2>2, <2>3 DEF CleanerPut, Put, Step
<1>13. ASSUME NEW n \in Node, CleanerSleep(n) PROVE JobInv' /\ HomeInv'
  BY <1>13, JobQuiet DEF CleanerSleep, Step, Idle, clients
<1>14. ASSUME NEW n \in Node, CleanerRelease(n) PROVE JobInv' /\ HomeInv'
  BY <1>14, JobQuiet DEF CleanerRelease, Step, Idle, clients
<1>15. ASSUME NEW n \in Node, CleanerUnlock(n) PROVE JobInv' /\ HomeInv'
  BY <1>15, JobQuiet DEF CleanerUnlock, Step, Idle, clients
<1>16. ASSUME NEW n \in Node, Start(n) PROVE JobInv' /\ HomeInv'
  BY <1>16 DEF Start, clients, IInv, JobInv, HomeInv
<1>17. ASSUME NEW n \in Node, Crash(n) PROVE JobInv' /\ HomeInv'
  <2>1. /\ conn' = [s \in Session |-> IF home[s] = n THEN "closed" ELSE conn[s]]
        /\ home' = [s \in Session |-> IF home[s] = n THEN None ELSE home[s]]
        /\ job' = [job EXCEPT ![n] = Idle]
    BY <1>17 DEF Crash, Step
  <2>2. job'[n].pc = "idle" /\ \A k \in Node \ {n} : job'[k] = job[k]
    BY <2>1 DEF Idle, IInv, TypeOK
  <2>3. JobInv'
    BY <2>1, <2>2, JobFrame
  <2> QED BY <2>1, <2>3 DEF IInv, HomeInv
<1>18. CASE Tick
  BY <1>18 DEF Tick, clients, IInv, JobInv, HomeInv
<1> QED BY <1>1, <1>2, <1>3, <1>4, <1>5, <1>6, <1>7, <1>8, <1>9, <1>10, <1>11, <1>12, <1>13,
           <1>14, <1>15, <1>16, <1>17, <1>18 DEF Next, Continue

-----------------------------------------------------------------------------
(* Theorems                                                                *)

LEMMA Invariance == Spec => []IInv
<1>1. Init => IInv
  BY TypeInit DEF IInv, JobInv, HomeInv, Init, Idle
<1>2. IInv /\ [Next]_vars => IInv'
  BY TypeNext, JobNext DEF IInv
<1> QED BY <1>1, <1>2, PTL DEF Spec

\* The pool, the lock, the jobs and the cleaners keep their domains.
THEOREM TypeCorrect == Spec => []TypeOK
<1>1. IInv => TypeOK
  BY DEF IInv
<1> QED BY Invariance, <1>1, PTL

\* The step loses the open session s from the model m, or brings a closed one back.
Changed(s, m) ==
  \/ conn[s] = "open" /\ conn'[s] = "open" /\ usage[m][s] \in {0, 1} /\ usage'[m][s] = None
  \/ conn[s] = "closed" /\ usage[m][s] = None /\ usage'[m][s] # None

\* socket/main.py:323, usage, :767, disconnect, and :221, the cleanup: a session
\* is lost from the pool, or comes back, only by a process that writes back
\* connections which another has changed since it read them.
THEOREM OnlyStaleWritesChange == Spec => ChangedOnlyByStaleWrites
<1>1. ASSUME IInv, [Next]_vars, NEW s \in Session, NEW m \in Model, Changed(s, m)
      PROVE  \E n \in Node : job'[n] # job[n] /\ StaleWrite(n, m)
  <2> USE DEF IInv
  <2>1. usage'[m] # usage[m]
    BY <1>1, UsageAssumption DEF Changed
  <2>2. \/ \E n \in Node : ReportSet(n) \/ LeavePut(n) \/ CleanerPut(n)
        \/ Tick
    BY <1>1, <2>1 DEF Next, Continue, vars, Connect, Report, ReportGet, Disconnect, LeaveLook,
       CleanerAcquire, CleanerRenew, CleanerAll, CleanerSleep, CleanerRelease, CleanerUnlock, Start,
       Crash
  <2>3. ASSUME NEW n \in Node, ReportSet(n) PROVE job'[n] # job[n] /\ StaleWrite(n, m)
    <3>1. /\ job[n].pc = "set" /\ job' = [job EXCEPT ![n] = Idle]
          /\ job[n].sid \in Session /\ conn[job[n].sid] = "open"
          /\ usage' = [usage EXCEPT ![job[n].model] =
                         [job[n].seen[job[n].model] EXCEPT ![job[n].sid] = 0]]
      BY <1>1, <2>3 DEF ReportSet, Step, JobInv
    <3>2. job'[n].pc = "idle"
      BY <1>1, <3>1 DEF Idle, TypeOK
    <3>3. job[n].model = m
      BY <1>1, <2>1, <3>1 DEF TypeOK
    <3>4. usage'[m] = [job[n].seen[m] EXCEPT ![job[n].sid] = 0]
      BY <1>1, <3>1, <3>3 DEF TypeOK
    <3>5. job[n].seen[m] \in Connections
      BY <1>1 DEF TypeOK, Job
    <3>6. job[n].seen[m] # usage[m]
      BY <1>1, <3>1, <3>4, <3>5, UsageAssumption DEF Changed, Connections
    <3> QED BY <3>1, <3>2, <3>3, <3>6 DEF StaleWrite
  <2>4. ASSUME NEW n \in Node, LeavePut(n) PROVE job'[n] # job[n] /\ StaleWrite(n, m)
    <3>1. /\ job[n].pc = "put" /\ job[n].sid \in Session /\ conn[job[n].sid] = "closed"
          /\ job[n].model \in Model
          /\ job[n].seen[job[n].model][job[n].sid] = None
          /\ Put(n, job[n].model, job[n].seen[job[n].model], Leaving(job[n].sid, job[n].todo), Idle)
      BY <1>1, <2>4 DEF LeavePut, JobInv
    <3>2. job[n].todo \in SUBSET Model
      BY <1>1 DEF TypeOK, Job
    <3>3. job'[n].pc \in {"idle", "look"}
      BY <1>1, <3>1, <3>2, LeavingType DEF Put, Step, Idle, TypeOK
    <3>4. usage' = [usage EXCEPT ![job[n].model] = job[n].seen[job[n].model]]
      BY <2>1, <3>1 DEF Put
    <3>5. job[n].model = m /\ usage'[m] = job[n].seen[m]
      BY <1>1, <2>1, <3>4 DEF TypeOK
    <3>6. s # job[n].sid /\ job[n].seen[m][s] # usage[m][s]
      BY <1>1, <3>1, <3>5, UsageAssumption DEF Changed
    <3> QED BY <3>1, <3>3, <3>5, <3>6 DEF StaleWrite
  <2>5. ASSUME NEW n \in Node, CleanerPut(n) PROVE job'[n] # job[n] /\ StaleWrite(n, m)
    <3>1. PICK o \in job[n].todo :
            Put(n, o, Unexpired(job[n].seen[o]),
                [job[n] EXCEPT !.todo = @ \ {o}], [Idle EXCEPT !.pc = "release"])
      BY <2>5 DEF CleanerPut
    <3>2. job[n].pc = "clean" /\ o \in Model
      BY <1>1, <2>5 DEF CleanerPut, TypeOK, Job
    <3>3. /\ usage' = [usage EXCEPT ![o] = Unexpired(job[n].seen[o])]
          /\ job' = [job EXCEPT ![n] = [job[n] EXCEPT !.todo = @ \ {o}]]
      BY <2>1, <3>1 DEF Put, Step
    <3>4. job'[n].todo = job[n].todo \ {o}
      BY <1>1, <3>3 DEF TypeOK, Job
    <3>5. o = m /\ usage'[m] = Unexpired(job[n].seen[m])
      BY <1>1, <2>1, <3>2, <3>3 DEF TypeOK
    <3>6. job[n].seen[m] # usage[m]
      BY <1>1, <3>5, UsageAssumption DEF Changed, Unexpired
    <3> QED BY <3>1, <3>2, <3>4, <3>5, <3>6 DEF StaleWrite
  <2>6. CASE Tick
    <3>1. usage'[m] = Older(usage[m])
      BY <2>6 DEF Tick
    <3>2. usage[m] \in Connections
      BY <1>1 DEF TypeOK
    <3> QED BY <1>1, <3>1, <3>2, UsageAssumption DEF Changed, Older, Connections
  <2> QED BY <2>2, <2>3, <2>4, <2>5, <2>6
<1>2. ASSUME IInv, [Next]_vars
      PROVE  [\A s \in Session, m \in Model :
                LET lost == conn[s] = "open" /\ conn'[s] = "open" /\ usage[m][s] \in {0, 1} /\ usage'[m][s] = None
                    back == conn[s] = "closed" /\ usage[m][s] = None /\ usage'[m][s] # None
                IN  lost \/ back => \E n \in Node : job'[n] # job[n] /\ StaleWrite(n, m)]_vars
  BY <1>1, <1>2 DEF Changed
<1> QED BY Invariance, <1>2, PTL DEF Spec, ChangedOnlyByStaleWrites

=============================================================================
